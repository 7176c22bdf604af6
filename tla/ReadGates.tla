----------------------------- MODULE ReadGates -----------------------------
(***************************************************************************)
(* The process-local admission gates of evidence.py and graphs.py.  A gate  *)
(* is a bounded semaphore.  The gates of a domain and of a principal are   *)
(* kept in dictionaries only while somebody refers to them: an entry is    *)
(* made by the first read that needs it and removed with the last one.     *)
(* Two reads share permits only if they were given the same entry, so an   *)
(* entry has an identity.  All reads here are of one domain and by one     *)
(* principal; the settings, and so the limits, are fixed for a process.    *)
(***************************************************************************)
EXTENDS Naturals, Sequences, FiniteSets

CONSTANTS
  Readers,                                    \* the reads under way at once
  EvidenceLimit, EvidenceTotal,               \* CE_RETRIEVAL_*_CONCURRENCY
  PrincipalLimit, GraphLimit, GraphTotal      \* CE_GRAPH_*_CONCURRENCY

ASSUME LimitsAssumption ==
  /\ IsFiniteSet(Readers)
  /\ {EvidenceLimit, EvidenceTotal, PrincipalLimit, GraphLimit, GraphTotal} \subseteq Nat \ {0}

VARIABLES
  entry,    \* per kept gate: the identity of its entry and who refers to it
  ticket    \* per read: the entries it was given and how many permits it holds

gateVars == <<entry, ticket>>

Kept  == {"evidence", "principal", "graph"}
Gates == Kept \cup {"all evidence", "all graphs"}
Kinds == {"evidence", "snapshot", "labels"}

Limit == [g \in Gates |-> CASE g = "evidence"     -> EvidenceLimit
                            [] g = "all evidence" -> EvidenceTotal
                            [] g = "principal"    -> PrincipalLimit
                            [] g = "graph"        -> GraphLimit
                            [] g = "all graphs"   -> GraphTotal]

\* the gates of a read, in the order it passes them
Order(kind) == IF kind = "evidence" THEN <<"evidence", "all evidence">>
                                    ELSE <<"principal", "graph", "all graphs">>
Needs(kind) == {Order(kind)[i] : i \in DOMAIN Order(kind)}

\* identities: one more than the reads that may refer to an old entry; 0 is the
\* gate that is never removed
Ids == 1..(Cardinality(Readers) + 1)
NoTicket == [kind |-> "none", held |-> 0, ids |-> [g \in Gates |-> 0]]

GatesInit ==
  /\ entry  = [g \in Kept |-> [id |-> 1, users |-> 0]]
  /\ ticket = [r \in Readers |-> NoTicket]

Refers(r, g) == ticket[r].kind # "none" /\ g \in Needs(ticket[r].kind)
Holds(r, g)  == ticket[r].kind # "none"
                /\ \E i \in 1..ticket[r].held : Order(ticket[r].kind)[i] = g

\* a new semaphore is none of those some read still has
Fresh(g) == CHOOSE id \in Ids : \A r \in Readers : Refers(r, g) => ticket[r].ids[g] # id

\* the entry a read is given: the one that is kept, or a new one
Given(g) == IF entry[g].users = 0 THEN Fresh(g) ELSE entry[g].id

\* _retrieval_gates, or the part of _graph_admission under its lock
Arrive(r, kind) ==
  /\ ticket' = [ticket EXCEPT ![r] =
       [kind |-> kind, held |-> 0,
        ids |-> [g \in Gates |-> IF g \in Needs(kind) \cap Kept THEN Given(g) ELSE 0]]]
  /\ entry' = [g \in Kept |-> IF g \in Needs(kind)
                              THEN [id |-> Given(g), users |-> entry[g].users + 1]
                              ELSE entry[g]]

\* the semaphore the read was given has a permit
Free(r, g) ==
  Cardinality({q \in Readers : Holds(q, g) /\ ticket[q].ids[g] = ticket[r].ids[g]}) < Limit[g]

NextGate(r)   == Order(ticket[r].kind)[ticket[r].held + 1]
Admitted(r)   == ticket[r].held = Len(Order(ticket[r].kind))

\* acquire: evidence waits for its permit, a graph read does not
TakePermit(r) ==
  /\ ~Admitted(r) /\ Free(r, NextGate(r))
  /\ ticket' = [ticket EXCEPT ![r].held = @ + 1]
  /\ UNCHANGED entry

\* mutant of MayGiveUp: evidence waits for as long as it takes
GivesUpWhenFull(r) == ticket[r].kind # "evidence" /\ ~Free(r, NextGate(r))

\* _acquire_before: the deadline may pass whatever the gate does;
\* _try_acquire: no waiting
MayGiveUp(r) == ~Admitted(r) /\ (ticket[r].kind = "evidence" \/ ~Free(r, NextGate(r)))

\* finally: the permits go back ...
ReturnPermits(r) ==
  /\ ticket' = [ticket EXCEPT ![r].held = 0]
  /\ UNCHANGED entry

\* mutant of Dropped: the entry is removed with the first read that ends
DroppedForAll(g) == [entry[g] EXCEPT !.users = 0]

\* _release_domain_gate_reference, _release_entry
Dropped(g) == [entry[g] EXCEPT !.users = @ - 1]

\* ... and then the references
DropReferences(r) ==
  /\ entry' = [g \in Kept |-> IF Refers(r, g) /\ entry[g].id = ticket[r].ids[g]
                              THEN Dropped(g) ELSE entry[g]]
  /\ ticket' = [ticket EXCEPT ![r] = NoTicket]

\* The capacity a limit names is the capacity of the domain, the principal or
\* the process, not of a semaphore object: no more reads are past a gate than
\* its limit, though entries are removed and made again while others are used.
PermitsWithinLimits ==
  \A g \in Gates : Cardinality({r \in Readers : Holds(r, g)}) <= Limit[g]

\* No permit and no dictionary entry outlives the reads that use it, whichever
\* way they end: an entry counts exactly the reads that refer to it.
EntriesCountTheirReads ==
  \A g \in Kept : entry[g].users = Cardinality({r \in Readers : Refers(r, g)})
=============================================================================
