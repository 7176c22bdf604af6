---- MODULE Listings ----
(***************************************************************************)
(* The paged lists of the API.  A list is walked page by page, newest row  *)
(* first; between two pages other requests and workers insert, change and  *)
(* remove rows.  A cursor names the last row of the page before it: the    *)
(* next request looks that row up in one statement and selects the rows    *)
(* after it in another.  Six lists order rows by the time of creation, the *)
(* document library by the time of the last write (documents.py:262).      *)
(***************************************************************************)
EXTENDS Naturals, FiniteSets, Sequences, Functions

CONSTANTS Rows,      \* rows of one table, by primary keys, which break ties
          Elsewhere, \* the rows of another owner, domain or source
          Lists,     \* the lists a walk may be of
          Limit,     \* rows in a page
          MaxTime,   \* bound on the clock
          None

ASSUME ListingConstants ==
    /\ Elsewhere \subseteq Rows /\ Rows \subseteq Nat
    /\ Limit \in Nat \ {0}
    /\ MaxTime \in Nat
    /\ None \notin Rows \cup (Nat \X Rows)

VARIABLES
    list,    \* the list of this behaviour
    clock,   \* utc_now
    row,     \* the rows of its table
    parent,  \* the domain or source it belongs to is there (documents: serves)
    walk     \* one client's walk from the first page on

listVars == <<list, clock, row, parent, walk>>

Key(r) == <<IF list = "documents" THEN row[r].touched ELSE row[r].made, r>>

\* Key k comes after key l in a list that shows the newest first.
After(k, l) == k[1] < l[1] \/ (k[1] = l[1] /\ k[2] < l[2])

Stored == {r \in Rows : row[r].state = "there"}
Own == Stored \ Elsewhere

\* What each list shows of the rows that are there.
Shown ==
    CASE list \in {"users", "domains"} -> Stored
      [] list = "documents" -> {r \in Own : row[r].ready /\ parent}
      [] OTHER -> Own

Blank == [state |-> "none", made |-> 0, touched |-> 0, ready |-> FALSE]
Gone == [Blank EXCEPT !.state = "gone"]

ListsInit ==
    /\ list \in Lists
    /\ clock = 0
    /\ row = [r \in Rows |-> Blank]
    /\ parent = TRUE
    /\ walk = [pc |-> "idle", cursor |-> None, after |-> None,
               shown |-> << >>, stayed |-> {}, written |-> {}]

-----------------------------------------------------------------------------
(* Rows.  A row is stamped when it is flushed and seen once it is committed *)

Tick == clock < MaxTime /\ clock' = clock + 1 /\ UNCHANGED <<list, row, parent, walk>>

\* What is no longer shown did not stay for the walk.
Changed(written) ==
    /\ UNCHANGED <<list, clock>>
    /\ walk' = [walk EXCEPT !.stayed = @ \cap Shown',
                            !.written = IF walk.pc = "idle" THEN {} ELSE @ \cup written]

Flush(r) ==
    /\ row[r].state = "none" /\ parent
    /\ row' = [row EXCEPT ![r] = [Blank EXCEPT !.state = "flushed", !.made = clock,
                                               !.touched = clock]]
    /\ UNCHANGED <<list, clock, parent, walk>>

CommitRow(r) ==
    /\ row[r].state = "flushed"
    /\ row' = [row EXCEPT ![r] = IF parent THEN [@ EXCEPT !.state = "there"] ELSE Gone]
    /\ UNCHANGED <<list, clock, parent, walk>>

Delete(r) ==
    /\ list \in {"conversations", "sources", "domains", "documents"}
    /\ row[r].state = "there"
    /\ row' = [row EXCEPT ![r] = Gone]
    /\ UNCHANGED parent
    /\ Changed({})

\* A write of the indexing worker or of an index request.
Index(r) ==
    /\ list = "documents" /\ row[r].state = "there"
    /\ row' = [row EXCEPT ![r].ready = ~@, ![r].touched = clock]
    /\ UNCHANGED parent
    /\ Changed({r})

\* The preview of a source: any update of its row stamps it (models.py:552).
Preview(r) ==
    /\ list = "documents" /\ row[r].state = "there"
    /\ row' = [row EXCEPT ![r].touched = clock]
    /\ UNCHANGED parent
    /\ Changed({r})

\* Removing a domain or a source takes its own rows along; a domain that
\* serves documents only stops and starts.
ParentLeaves ==
    /\ parent /\ list \notin {"users", "domains", "conversations"}
    /\ parent' = FALSE
    /\ row' = [r \in Rows |-> IF list # "documents" /\ r \in Own
                              THEN Gone ELSE row[r]]
    /\ Changed({})

ParentReturns ==
    /\ list = "documents" /\ ~parent
    /\ parent' = TRUE
    /\ UNCHANGED <<list, clock, row, walk>>

-----------------------------------------------------------------------------
(* Requests *)

StartWalk ==
    /\ walk.pc = "idle"
    /\ walk' = [walk EXCEPT !.pc = "ask", !.stayed = Shown]
    /\ UNCHANGED <<list, clock, row, parent>>

\* The first statement: the cursor's row, by the list's own scope.
FindAnchor(scope) ==
    /\ walk.pc = "ask"
    /\ \/ walk.cursor = None /\ walk' = [walk EXCEPT !.pc = "select"]
       \/ walk.cursor \in scope
          /\ walk' = [walk EXCEPT !.pc = "select", !.after = Key(walk.cursor)]
       \/ walk.cursor \notin scope \cup {None} /\ walk' = [walk EXCEPT !.pc = "expired"]
    /\ UNCHANGED <<list, clock, row, parent>>

\* A plausible slip in the keyset condition: rows of one time are lost.
FollowsByTimeOnly(r) == walk.after = None \/ Key(r)[1] < walk.after[1]

Follows(r) == walk.after = None \/ After(Key(r), walk.after)

\* The first of the rows found, newest first: at each place the row that as many rows precede.
Before(r, found) == {s \in found : After(Key(r), Key(s))}
Newest(found, size) ==
    [i \in 1..size |-> CHOOSE r \in found : Cardinality(Before(r, found)) = i - 1]

\* The second: a row more than the page holds tells whether another follows.
SelectPage(scope) ==
    LET found == {r \in scope : Follows(r)}
        more == Cardinality(found) > Limit
        page == Newest(found, IF more THEN Limit ELSE Cardinality(found))
    IN /\ walk.pc = "select"
       /\ walk' = [walk EXCEPT !.shown = @ \o page,
                               !.cursor = IF more THEN page[Limit] ELSE None,
                               !.pc = IF more THEN "ask" ELSE "ended"]
       /\ UNCHANGED <<list, clock, row, parent>>

Serve(scope) == FindAnchor(scope) \/ SelectPage(scope)

\* 404 of a domain or source that is gone: no page, and the walk is over.
NoParent ==
    /\ walk.pc = "ask" /\ ~parent
    /\ walk' = [walk EXCEPT !.pc = "expired"]
    /\ UNCHANGED <<list, clock, row, parent>>

\* Past the check of the parent, the second statement runs on its own.
UnderParent(scope) ==
    \/ parent /\ FindAnchor(scope)
    \/ SelectPage(scope)
    \/ NoParent

ListUsers == list = "users" /\ Serve(Stored)
ListConversations == list = "conversations" /\ Serve(Own)
ListDomains == list = "domains" /\ Serve(Stored)
ListDomainOperations == list = "domain operations" /\ UnderParent(Own)
ListSources == list = "sources" /\ UnderParent(Own)
ListSourceOperations == list = "source operations" /\ UnderParent(Own)

\* A domain that does not serve answers an empty last page, not an error.  The
\* cursor's document need not be ready any more.
ListDocuments ==
    /\ list = "documents"
    /\ \/ parent /\ FindAnchor(Own)
       \/ SelectPage({r \in Own : row[r].ready})
       \/ /\ walk.pc = "ask" /\ ~parent
          /\ walk' = [walk EXCEPT !.pc = "ended", !.cursor = None]
          /\ UNCHANGED <<list, clock, row, parent>>

Request ==
    \/ StartWalk \/ ListUsers \/ ListConversations \/ ListDomains \/ ListDomainOperations
    \/ ListSources \/ ListSourceOperations \/ ListDocuments

ListsNext ==
    \/ Tick \/ ParentLeaves \/ ParentReturns \/ Request
    \/ \E r \in Rows : Flush(r) \/ CommitRow(r) \/ Delete(r) \/ Index(r) \/ Preview(r)

ListsSpec == ListsInit /\ [][ListsNext]_listVars

\* Bound on the search: what follows a walk's end changes nothing it showed.
WalkGoesOn == walk.pc \notin {"ended", "expired"}

-----------------------------------------------------------------------------
ListsTypeOK ==
    /\ list \in Lists /\ clock \in 0..MaxTime /\ parent \in BOOLEAN
    /\ row \in [Rows -> [state : {"none", "flushed", "there", "gone"}, made : 0..MaxTime,
                         touched : 0..MaxTime, ready : BOOLEAN]]
    /\ walk.pc \in {"idle", "ask", "select", "ended", "expired"}
    /\ walk.cursor \in Rows \cup {None}
    /\ walk.shown \in Seq(Rows) /\ walk.stayed \subseteq Rows /\ walk.written \subseteq Rows

(***************************************************************************)
(* Pages fit together: a walk that comes to a page without a cursor has    *)
(* shown every row that was in the list from its first request on and was  *)
(* not written meanwhile, whatever was committed, in whatever order of     *)
(* stamps, or removed between its pages or between the two statements of   *)
(* a page; no walk shows another owner's row; and a list ordered by        *)
(* creation shows no row twice.                                            *)
(***************************************************************************)
WalksShowWhatStayed ==
    /\ walk.pc = "ended" => walk.stayed \ walk.written \subseteq Range(walk.shown)
    /\ list \notin {"users", "domains"} => Range(walk.shown) \cap Elsewhere = {}
    /\ list # "documents" => IsInjective(walk.shown)

(***************************************************************************)
(* The order of a list is stable (docs/contracts/http-api-catalog.md:15):  *)
(* a walk shows every row that stayed in the list, and none twice, written *)
(* or not.  The document library does not keep it: a document that a       *)
(* preview or the index writes between two pages moves to the front, and   *)
(* is skipped, or, as the cursor's row, brings shown rows back.            *)
(***************************************************************************)
WritesMoveNoRow ==
    /\ walk.pc = "ended" => walk.stayed \subseteq Range(walk.shown)
    /\ IsInjective(walk.shown)

=============================================================================
