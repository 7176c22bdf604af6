---------------------------- MODULE RuntimeConfig ----------------------------
(***************************************************************************)
(* The runtime settings: provider credentials, model profiles, the         *)
(* singleton row that names the active synthesis profile and the parser,   *)
(* and the domains that bind a profile.  Administrators' requests and the  *)
(* seeding of a starting API process change them, each in one transaction. *)
(*                                                                         *)
(* A transaction is the reads and checks with the row locks they take, and *)
(* the commit that writes.  A row locked FOR UPDATE keeps other lockers of *)
(* that row waiting, and writers that refer to it by a foreign key.  A     *)
(* locking read does not refresh an object the session already holds.      *)
(***************************************************************************)
EXTENDS Naturals, FiniteSets

CONSTANTS
    Requests,   \* the transactions of a behaviour
    Catalog,    \* MODEL_CATALOG: [provider, kind, model, graph]
    Default,    \* its default synthesis entry
    Profiles    \* ids of model profiles; "default" is DEFAULT_SYNTHESIS_PROFILE_ID

Providers == {"openai", "bedrock", "reducto"}

ASSUME CatalogAssumption ==
    /\ \A entry \in Catalog :
        /\ entry.provider \in {"openai", "bedrock"} /\ entry.kind \in {"synthesis", "embedding"}
        /\ entry.graph \in BOOLEAN
    /\ Default \in Catalog /\ Default.provider = "openai" /\ Default.kind = "synthesis"
    /\ "default" \in Profiles /\ Profiles \cap {"none", "docling", "reducto"} = {}

VARIABLES
    provider,   \* ProviderConfig by kind
    profile,    \* ModelProfile by id
    settings,   \* the RuntimeSettings row
    bound,      \* domains and the extraction profile of each; named by the request
    request     \* the transactions

vars == <<provider, profile, settings, bound, request>>

\* An id that no profile has had yet, and that of a deleted profile: ids are not used again.
NoProfile == [version |-> 0, deleted |-> FALSE]
Deleted == [version |-> 0, deleted |-> TRUE]
None == "none"

---------------------------------------------------------------------------
\* State.

Kinds == {"", "rotate", "seed", "update_profile", "delete_profile", "update_settings",
          "create_domain"}
Versions == 0..(Cardinality(Requests) + 1)
Settings == [active : Profiles \cup {None}, parser : {"docling", "reducto"}, version : Versions]
NotSeen == [active |-> None, parser |-> "docling", version |-> 0]
Fresh == [at |-> "new", kind |-> "", target |-> "", expected |-> 0, seen |-> NotSeen, entry |-> Default]

\* Administrators may have configured providers and made profiles before; the default profile is
\* active as soon as its provider is configured.  Versions are counted from here.
Init ==
    /\ \E configured \in SUBSET Providers :
        /\ provider = [k \in Providers |-> [configured |-> k \in configured, version |-> 1]]
        /\ settings = [active |-> IF "openai" \in configured THEN "default" ELSE None,
                       parser |-> "docling", version |-> 1]
    /\ \E made \in SUBSET (Profiles \ {"default"}) : \E entry \in [made -> Catalog] :
        profile = [p \in Profiles |->
            CASE p = "default" -> [entry |-> Default, version |-> 1]
              [] p \in made -> [entry |-> entry[p], version |-> 1]
              [] OTHER -> NoProfile]
    /\ bound = {}
    /\ request = [r \in Requests |-> Fresh]

---------------------------------------------------------------------------
\* Helpers.

Working(r, kind) == request[r].at = "working" /\ request[r].kind = kind
Holds(r, kinds, target) ==
    request[r].at = "working" /\ request[r].kind \in kinds /\ request[r].target = target

ProviderLocked(k) == \E r \in Requests : Holds(r, {"rotate"}, k)
ProfileLocked(p) == \E r \in Requests : Holds(r, {"update_profile"}, p)
SettingsLocked == \E r \in Requests : Working(r, "update_settings")

Exists(p) == profile[p].version > 0
\* _domain_references_model_profile.
Bound(p) == \E b \in bound : b[2] = p
\* is_provider_configured; every provider of the instance requires credentials.
Configured(k) == provider[k].configured

\* The transaction r goes on with what it has read and checked.
Work(r, kind, target, expected, entry) ==
    request' = [request EXCEPT ![r] =
        [at |-> "working", kind |-> kind, target |-> target, expected |-> expected,
         seen |-> IF kind \in {"rotate", "seed"} THEN settings ELSE NotSeen, entry |-> entry]]
\* What a transaction has read goes with it; of one under an expected version that is remembered.
End(r, outcome) ==
    request' = [request EXCEPT ![r] =
        IF @.kind \in {"rotate", "update_profile"}
        THEN [@ EXCEPT !.at = outcome, !.seen = NotSeen, !.entry = Default]
        ELSE [Fresh EXCEPT !.at = outcome]]
New(r) == request[r].at = "new"

---------------------------------------------------------------------------
\* Provider credentials and the default synthesis profile.

\* The provider row is locked, its version is the expected one; the settings row is read.
BeginRotate(r) ==
    /\ New(r)
    /\ \E k \in Providers :
        /\ ~ProviderLocked(k)
        /\ Work(r, "rotate", k, provider[k].version, Default)
    /\ UNCHANGED <<provider, profile, settings, bound>>

\* _activate_default_synthesis_if_ready in the transaction of r: it decides and counts on the
\* settings it read first, whatever the locking read returns.
Activates(r, openai) ==
    request[r].seen.active = None /\ Exists("default") /\ openai
Activated(r) ==
    [settings EXCEPT !.active = "default", !.version = request[r].seen.version + 1]

CommitRotate(r) ==
    /\ Working(r, "rotate")
    /\ LET k == request[r].target
           activates == Activates(r, k = "openai" \/ Configured("openai"))
       IN
       /\ provider' = [provider EXCEPT ![k] =
                          [configured |-> TRUE, version |-> request[r].expected + 1]]
       /\ activates => ~SettingsLocked
       /\ settings' = IF activates THEN Activated(r) ELSE settings
    /\ End(r, "done")
    /\ UNCHANGED <<profile, bound>>

\* seed_runtime_config of a starting process: the rows exist, the default may be activated.
BeginSeed(r) ==
    /\ New(r)
    /\ Work(r, "seed", "", 0, Default)
    /\ UNCHANGED <<provider, profile, settings, bound>>

CommitSeed(r) ==
    /\ Working(r, "seed")
    /\ LET activates == Activates(r, Configured("openai")) IN
       /\ activates => ~SettingsLocked
       /\ settings' = IF activates THEN Activated(r) ELSE settings
    /\ End(r, "done")
    /\ UNCHANGED <<provider, profile, bound>>

---------------------------------------------------------------------------
\* Model profiles.

CreateProfile(r) ==
    /\ New(r)
    /\ \E p \in Profiles, entry \in Catalog :
        /\ profile[p] = NoProfile
        /\ profile' = [profile EXCEPT ![p] = [entry |-> entry, version |-> 1]]
    /\ End(r, "done")
    /\ UNCHANGED <<provider, settings, bound>>

\* The row is locked, its version expected, no domain binds it, the new model is in the catalog.
BeginUpdateProfile(r) ==
    /\ New(r)
    /\ \E p \in Profiles, entry \in Catalog :
        /\ Exists(p) /\ ~ProfileLocked(p) /\ ~Bound(p)
        /\ entry.provider = profile[p].entry.provider /\ entry.kind = profile[p].entry.kind
        /\ Work(r, "update_profile", p, profile[p].version, entry)
    /\ UNCHANGED <<provider, profile, settings, bound>>

CommitUpdateProfile(r) ==
    /\ Working(r, "update_profile")
    /\ profile' = [profile EXCEPT ![request[r].target] =
                      [entry |-> request[r].entry, version |-> request[r].expected + 1]]
    /\ End(r, "done")
    /\ UNCHANGED <<provider, settings, bound>>

\* The checks of delete_model_profile take no lock.
BeginDeleteProfile(r) ==
    /\ New(r)
    /\ \E p \in Profiles \ {"default"} :
        /\ Exists(p) /\ settings.active # p /\ ~Bound(p)
        /\ Work(r, "delete_profile", p, 0, Default)
    /\ UNCHANGED <<provider, profile, settings, bound>>

\* mutant of CommitDeleteProfile: no foreign key stands behind the checks.
CommitDeleteUnchecked(r) ==
    /\ Working(r, "delete_profile")
    /\ ~ProfileLocked(request[r].target)
    /\ profile' = [profile EXCEPT ![request[r].target] = Deleted]
    /\ End(r, "done")
    /\ UNCHANGED <<provider, settings, bound>>
\* The foreign keys refuse to delete a profile that is in use by then: the flush of the audit
\* row fails, which is answered audit_unavailable.
CommitDeleteProfile(r) ==
    /\ Working(r, "delete_profile")
    /\ LET p == request[r].target IN
        /\ ~ProfileLocked(p)
        /\ IF settings.active = p \/ Bound(p)
           THEN End(r, "refused") /\ UNCHANGED profile
           ELSE End(r, "done") /\ profile' = [profile EXCEPT ![p] = Deleted]
    /\ UNCHANGED <<provider, settings, bound>>

---------------------------------------------------------------------------
\* The settings row.

\* What update_runtime_settings requires of a new active profile or parser.
Usable(p) == Exists(p) /\ profile[p].entry.kind = "synthesis" /\ Configured(profile[p].entry.provider)

\* The row is locked, its version expected, the profile or the parser usable.
BeginSettings(r) ==
    /\ New(r) /\ ~SettingsLocked
    /\ \/ \E p \in Profiles :
            Usable(p) /\ Work(r, "update_settings", p, settings.version, Default)
       \/ \E parser \in {"docling", "reducto"} :
            /\ parser = "reducto" => Configured("reducto")
            /\ Work(r, "update_settings", parser, settings.version, Default)
    /\ UNCHANGED <<provider, profile, settings, bound>>

\* The foreign key holds the new active profile while it is written.
CommitSettings(r) ==
    /\ Working(r, "update_settings")
    /\ LET target == request[r].target
           next == [settings EXCEPT !.version = request[r].expected + 1]
       IN
       IF target \notin Profiles
       THEN settings' = [next EXCEPT !.parser = target] /\ End(r, "done")
       ELSE /\ ~ProfileLocked(target)
            /\ IF Exists(target)
               THEN settings' = [next EXCEPT !.active = target] /\ End(r, "done")
               ELSE UNCHANGED settings /\ End(r, "refused")
    /\ UNCHANGED <<provider, profile, bound>>

---------------------------------------------------------------------------
\* Domains bind a profile.

\* resolve_extraction_profile.
ResolvesExtraction(p) == Usable(p) /\ profile[p].entry.graph

BeginCreateDomain(r) ==
    /\ New(r)
    /\ \E p \in Profiles : ResolvesExtraction(p) /\ Work(r, "create_domain", p, 0, Default)
    /\ UNCHANGED <<provider, profile, settings, bound>>

\* mutant of CommitCreateDomain: the binding waits for nobody.
CommitCreateDomainAtOnce(r) ==
    /\ Working(r, "create_domain")
    /\ bound' = bound \cup {<<r, request[r].target>>}
    /\ End(r, "done")
    /\ UNCHANGED <<provider, profile, settings>>
\* The foreign key waits for whoever has locked the profile.
CommitCreateDomain(r) ==
    /\ Working(r, "create_domain")
    /\ LET p == request[r].target IN
        /\ ~ProfileLocked(p)
        /\ IF Exists(p)
           THEN bound' = bound \cup {<<r, p>>} /\ End(r, "done")
           ELSE UNCHANGED bound /\ End(r, "refused")
    /\ UNCHANGED <<provider, profile, settings>>

RemoveDomain ==
    /\ \E b \in bound : bound' = bound \ {b}
    /\ UNCHANGED <<provider, profile, settings, request>>

---------------------------------------------------------------------------
\* A version, a profile or a provider that fails the checks.
Refuse(r) ==
    /\ New(r)
    /\ End(r, "refused")
    /\ UNCHANGED <<provider, profile, settings, bound>>

Begin(r) ==
    \/ BeginRotate(r) \/ BeginSeed(r) \/ CreateProfile(r) \/ BeginUpdateProfile(r)
    \/ BeginDeleteProfile(r) \/ BeginSettings(r) \/ BeginCreateDomain(r) \/ Refuse(r)

Commit(r) ==
    \/ CommitRotate(r) \/ CommitSeed(r) \/ CommitUpdateProfile(r) \/ CommitDeleteProfile(r)
    \/ CommitSettings(r) \/ CommitCreateDomain(r)

Next == (\E r \in Requests : Begin(r) \/ Commit(r)) \/ RemoveDomain

Spec == Init /\ [][Next]_vars

\* A transaction that has begun runs on.
FairSpec == Spec /\ \A r \in Requests : WF_vars(Commit(r))
---------------------------------------------------------------------------
\* Properties.

\* The rows have the shapes of their columns, and versions count the transactions.
TypeOK ==
    /\ provider \in [Providers -> [configured : BOOLEAN, version : Versions]]
    /\ profile \in [Profiles -> {NoProfile, Deleted} \cup [entry : Catalog, version : Versions]]
    /\ settings \in Settings
    /\ bound \subseteq Requests \X Profiles
    /\ request \in [Requests ->
          [at : {"new", "working", "done", "refused"}, kind : Kinds,
           target : {"", "docling", "reducto"} \cup Providers \cup Profiles,
           expected : Versions, seen : Settings, entry : Catalog]]

\* The settings a turn resolves always resolve: whatever deletions, updates and rotations
\* overlap, an active profile is there, is a synthesis profile, and has a configured provider
\* (delete_model_profile checks without a lock, update_runtime_settings reads without one).
ActiveSettingsResolve ==
    /\ settings.active # None => Usable(settings.active)
    /\ settings.parser = "reducto" => Configured("reducto")

\* A domain's profile is there for its life.
BoundProfilesExist == \A b \in bound : Exists(b[2])

\* A profile that a domain binds is not changed, although the check and the binding are in
\* transactions that overlap (update_model_profile locks the row the foreign key waits for).
BoundProfilesStay ==
    [][\A p \in Profiles : Bound(p) => profile'[p] = profile[p]]_vars

\* An expected version admits one change of a provider or a profile.
OneSuccessPerVersion ==
    \A r, q \in Requests :
        /\ r # q
        /\ request[r].kind \in {"rotate", "update_profile"}
        /\ \A field \in {"kind", "target", "expected"} : request[r][field] = request[q][field]
        => ~(request[r].at = "done" /\ request[q].at = "done")

\* Transactions never wait for each other in a circle: one that has begun ends.
TransactionsEnd ==
    \A r \in Requests : request[r].at = "working" ~> request[r].at # "working"

---------------------------------------------------------------------------
\* What the documentation says and the code does not do.

\* "Activate default synthesis when ready; bump settings version if mutated."
\* (runtime_config.py:186).  The activation writes the version after the one it read first, so
\* a change committed in between is overwritten under the number it had been given.
ChangedSettingsHaveNewVersions ==
    [][settings' # settings => settings'.version > settings.version]_vars

\* A domain is created only with an extraction profile of the catalog that supports graph
\* extraction; the profile can be changed between the check and the binding.
BoundProfilesSupportGraph == \A b \in bound : Exists(b[2]) => profile[b[2]].entry.graph

=============================================================================
