------------------------- MODULE RuntimeConfigProofs -------------------------
(***************************************************************************)
(* Proofs about RuntimeConfig for every number of transactions, every      *)
(* catalog and any profiles: the active settings always resolve, a profile *)
(* that a domain binds is there and stays as it is, and of the changes that *)
(* expect one version at most one is made.                                 *)
(***************************************************************************)
EXTENDS RuntimeConfig, TLAPS

Targets == {"", "docling", "reducto"} \cup Providers \cup Profiles

Live == [entry : Catalog, version : Nat \ {0}]
Seen == [active : Profiles \cup {None}, parser : {"docling", "reducto"}, version : Nat]
Transactions ==
    [at : {"new", "working", "done", "refused"}, kind : Kinds,
     target : Targets,
     expected : Nat, seen : Seen, entry : Catalog]

Typed == /\ provider \in [Providers -> [configured : BOOLEAN, version : Nat]]
         /\ profile \in [Profiles -> {NoProfile, Deleted} \cup Live]
         /\ settings \in Seen
         /\ bound \subseteq Requests \X Profiles
         /\ request \in [Requests -> Transactions]

\* The default profile is never deleted and an update leaves it a synthesis profile of its
\* provider: whenever its provider is configured it can be activated.
DefaultStays ==
    LET row == profile["default"] IN
    row \in Live /\ row.entry.kind = "synthesis" /\ row.entry.provider = "openai"

\* What the checks of a transaction were about still holds at its commit.
Checked(r) ==
    LET t == request[r].target IN
    request[r].at = "working" =>
        /\ request[r].kind = "rotate" => t \in Providers
        \* The locked row cannot be bound, deleted or changed.
        /\ request[r].kind = "update_profile" =>
            /\ t \in Profiles /\ profile[t] \in Live /\ ~Bound(t)
            /\ request[r].entry.provider = profile[t].entry.provider
            /\ request[r].entry.kind = profile[t].entry.kind
        /\ request[r].kind = "delete_profile" => t \in Profiles \ {"default"}
        \* Nothing locks the new profile: it is usable or has been deleted.
        /\ request[r].kind = "update_settings" =>
            \/ /\ t \in Profiles /\ profile[t] # NoProfile
               /\ profile[t] \in Live => Usable(t)
            \/ t = "docling"
            \/ t = "reducto" /\ Configured("reducto")
        /\ request[r].kind = "create_domain" => t \in Profiles

OneUpdates ==
    \A r, q \in Requests, p \in Profiles :
        Holds(r, {"update_profile"}, p) /\ Holds(q, {"update_profile"}, p) => r = q

BoundExist == \A p \in Profiles : Bound(p) => profile[p] \in Live

Inv == /\ Typed /\ DefaultStays /\ OneUpdates /\ BoundExist
       /\ ActiveSettingsResolve
       /\ \A r \in Requests : Checked(r)

---------------------------------------------------------------------------
\* Rows and transactions.

LEMMA LiveExists ==
    ASSUME Typed, NEW p \in Profiles
    PROVE  Exists(p) <=> profile[p] \in Live
BY DEF Typed, Exists, Live, NoProfile, Deleted

LEMMA FreshTyped == Fresh \in Transactions /\ NotSeen \in Seen
<1>1. NotSeen \in Seen
    BY DEF NotSeen, Seen
<1>2. QED
    BY <1>1, CatalogAssumption DEF Fresh, Transactions, Kinds, Targets

\* The transaction r becomes h, and no other moves.
Becomes(r, h) ==
    /\ request' \in [Requests -> Transactions]
    /\ request'[r] = h
    /\ \A q \in Requests \ {r} : request'[q] = request[q]

LEMMA EndMoves ==
    ASSUME Typed, NEW r \in Requests, NEW outcome \in {"done", "refused"}, End(r, outcome)
    PROVE  \E h \in Transactions : Becomes(r, h) /\ h.at # "working"
<1> DEFINE kept == [request[r] EXCEPT !.at = outcome, !.seen = NotSeen, !.entry = Default]
           forgot == [Fresh EXCEPT !.at = outcome]
           h == IF request[r].kind \in {"rotate", "update_profile"} THEN kept ELSE forgot
<1>1. kept \in Transactions /\ kept.at = outcome
    BY FreshTyped, CatalogAssumption DEF Typed, Transactions
<1>2. forgot \in Transactions /\ forgot.at = outcome
    BY FreshTyped DEF Transactions
<1>3. request' = [request EXCEPT ![r] = h]
    BY DEF End, Typed
<1> HIDE DEF kept, forgot
<1>4. h \in Transactions /\ h.at = outcome
    BY <1>1, <1>2
<1> HIDE DEF h
<1>5. Becomes(r, h)
    BY <1>3, <1>4 DEF Typed, Becomes
<1>6. QED
    BY <1>4, <1>5

LEMMA WorkMoves ==
    ASSUME Typed, NEW r \in Requests, NEW kind \in Kinds,
           NEW target \in Targets,
           NEW expected \in Nat, NEW entry \in Catalog, Work(r, kind, target, expected, entry)
    PROVE  \E h \in Transactions :
             /\ Becomes(r, h)
             /\ h.at = "working" /\ h.kind = kind /\ h.target = target /\ h.entry = entry
<1> DEFINE seen == IF kind \in {"rotate", "seed"} THEN settings ELSE NotSeen
           h == [at |-> "working", kind |-> kind, target |-> target, expected |-> expected,
                 seen |-> seen, entry |-> entry]
<1>1. seen \in Seen
    BY FreshTyped DEF Typed
<1>2. request' = [request EXCEPT ![r] = h]
    BY DEF Work
<1> HIDE DEF seen
<1>3. /\ h \in Transactions
      /\ h.at = "working" /\ h.kind = kind /\ h.target = target /\ h.entry = entry
    BY <1>1 DEF Transactions
<1> HIDE DEF h
<1>4. Becomes(r, h)
    BY <1>2, <1>3 DEF Typed, Becomes
<1>5. QED
    BY <1>3, <1>4

---------------------------------------------------------------------------
\* What a move of r leaves to the others.

\* Providers stay configured.  A profile is new, deleted while nobody has locked it, or updated
\* to a model of its provider and kind.  A profile that becomes bound is locked by nobody else.
Keeps(r) ==
    /\ \A k \in Providers : Configured(k) => Configured(k)'
    /\ \A p \in Profiles :
        \/ profile'[p] = profile[p]
        \/ profile[p] = NoProfile
        \/ profile'[p] = Deleted /\ ~ProfileLocked(p)
        \/ /\ Holds(r, {"update_profile"}, p) /\ profile[p] \in Live /\ profile'[p] \in Live
           /\ profile'[p].entry.kind = profile[p].entry.kind
           /\ profile'[p].entry.provider = profile[p].entry.provider
    /\ \A p \in Profiles : Bound(p)' => Bound(p) \/ ~ProfileLocked(p)

LEMMA OthersKeep ==
    ASSUME Inv, Typed', NEW r \in Requests, Keeps(r), NEW q \in Requests \ {r},
           request'[q] = request[q]
    PROVE  Checked(q)'
<1> DEFINE t == request[q].target
<1>1. t' = t /\ Checked(q) /\ request[q] \in Transactions
    BY DEF Inv, Typed
<1>2. CASE request[q].at # "working"
    BY <1>2 DEF Checked
<1>3. CASE request[q].at = "working" /\ request[q].kind = "update_profile"
    <2>1. /\ t \in Profiles /\ profile[t] \in Live /\ ~Bound(t)
          /\ request[q].entry.provider = profile[t].entry.provider
          /\ request[q].entry.kind = profile[t].entry.kind
        BY <1>1, <1>3 DEF Checked
    <2>2. Holds(q, {"update_profile"}, t) /\ ProfileLocked(t)
        BY <1>3 DEF Holds, ProfileLocked
    <2>3. ~Holds(r, {"update_profile"}, t)
        BY <2>1, <2>2 DEF Inv, OneUpdates
    <2>4. profile'[t] = profile[t] /\ ~Bound(t)'
        BY <2>1, <2>2, <2>3 DEF Keeps, Live, NoProfile
    <2>5. QED
        BY <1>1, <1>3, <2>1, <2>4 DEF Checked
<1>4. CASE request[q].at = "working" /\ request[q].kind = "update_settings"
    <2>1. CASE t = "docling" \/ t = "reducto"
        <3>1. "reducto" \in Providers /\ t \notin Profiles
            BY <2>1, CatalogAssumption DEF Providers
        <3>2. QED
            BY <1>1, <1>4, <2>1, <3>1 DEF Checked, Keeps
    <2>2. CASE t \in Profiles /\ profile[t] # NoProfile /\ (profile[t] \in Live => Usable(t))
        <3>1. profile'[t] # NoProfile
            BY <2>2 DEF Keeps, Live, NoProfile, Deleted
        <3>2. ASSUME profile'[t] \in Live PROVE Usable(t)'
            <4>1. profile[t] \in Live /\ Usable(t)
                BY <2>2, <3>2 DEF Keeps, Live, Deleted
            <4>2. profile'[t].entry.kind = profile[t].entry.kind
                  /\ profile'[t].entry.provider = profile[t].entry.provider
                BY <2>2, <3>2 DEF Keeps, Live, Deleted
            <4>3. profile[t].entry.provider \in Providers
                BY <4>1, CatalogAssumption DEF Live, Providers
            <4>4. provider'[profile[t].entry.provider].configured
                BY <4>1, <4>3 DEF Keeps, Usable, Configured
            <4>5. Exists(t)'
                BY <3>2 DEF Exists, Live
            <4>6. QED
                BY <1>1, <4>1, <4>2, <4>4, <4>5 DEF Usable, Configured
        <3>3. QED
            BY <1>1, <1>4, <2>2, <3>1, <3>2 DEF Checked
    <2>3. QED
        BY <1>1, <1>4, <2>1, <2>2 DEF Checked
<1>5. CASE request[q].kind \notin {"update_profile", "update_settings"}
    BY <1>1, <1>5 DEF Checked
<1>6. QED
    BY <1>2, <1>3, <1>4, <1>5

LEMMA OneMoves ==
    ASSUME Inv, Typed', NEW r \in Requests, NEW h \in Transactions, Becomes(r, h), Keeps(r),
           DefaultStays', BoundExist', ActiveSettingsResolve', Checked(r)',
           \A p \in Profiles : Holds(r, {"update_profile"}, p)' =>
               \A q \in Requests \ {r} : ~Holds(q, {"update_profile"}, p)
    PROVE  Inv'
<1>1. ASSUME NEW q \in Requests PROVE Checked(q)'
    BY OthersKeep DEF Becomes
<1>2. OneUpdates'
    <2>1. SUFFICES ASSUME NEW q1 \in Requests, NEW q2 \in Requests, NEW p \in Profiles,
                          Holds(q1, {"update_profile"}, p)', Holds(q2, {"update_profile"}, p)'
                   PROVE  q1 = q2
        BY DEF OneUpdates
    <2>2. ASSUME NEW q \in Requests \ {r}, Holds(q, {"update_profile"}, p)'
          PROVE  Holds(q, {"update_profile"}, p)
        BY <2>2 DEF Holds, Becomes
    <2>3. CASE q1 # r /\ q2 # r
        BY <2>1, <2>2, <2>3 DEF Inv, OneUpdates
    <2>4. CASE q1 = r \/ q2 = r
        BY <2>1, <2>2, <2>4
    <2>5. QED
        BY <2>3, <2>4
<1>3. QED
    BY <1>1, <1>2 DEF Inv

\* A transaction begins: it has read and checked, and the rows are as they were.
LEMMA BeginKeeps ==
    ASSUME Inv, NEW r \in Requests, NEW h \in Transactions, Becomes(r, h),
           UNCHANGED <<provider, profile, settings, bound>>, Checked(r)',
           \A p \in Profiles : Holds(r, {"update_profile"}, p)' => ~ProfileLocked(p)
    PROVE  Inv'
<1>1. Typed'
    BY DEF Inv, Typed, Becomes
<1>2. Keeps(r)
    BY DEF Keeps, Configured, Bound
<1>3. DefaultStays' /\ BoundExist' /\ ActiveSettingsResolve'
    BY DEF Inv, DefaultStays, BoundExist, ActiveSettingsResolve, Bound, Usable, Exists, Configured
<1>4. QED
    BY <1>1, <1>2, <1>3, OneMoves DEF ProfileLocked

\* A transaction ends: whatever it wrote, the rest of the invariant is about the rows.
LEMMA EndKeeps ==
    ASSUME Inv, NEW r \in Requests, NEW outcome \in {"done", "refused"}, End(r, outcome),
           /\ provider' \in [Providers -> [configured : BOOLEAN, version : Nat]]
           /\ profile' \in [Profiles -> {NoProfile, Deleted} \cup Live]
           /\ settings' \in Seen
           /\ bound' \subseteq Requests \X Profiles,
           Keeps(r), DefaultStays', BoundExist', ActiveSettingsResolve'
    PROVE  Inv'
<1>1. PICK h \in Transactions : Becomes(r, h) /\ h.at # "working"
    BY EndMoves DEF Inv
<1>2. Typed'
    BY <1>1 DEF Typed, Becomes
<1>3. Checked(r)' /\ \A p \in Profiles : ~Holds(r, {"update_profile"}, p)'
    BY <1>1 DEF Checked, Holds, Becomes
<1>4. QED
    BY <1>1, <1>2, <1>3, OneMoves

\* What a move leaves alone, for the actions that write one row.
LEMMA RowsKeep ==
    ASSUME Inv
    PROVE  /\ UNCHANGED profile => DefaultStays'
           /\ UNCHANGED <<profile, bound>> => BoundExist'
           /\ UNCHANGED <<provider, profile, settings>> => ActiveSettingsResolve'
           /\ UNCHANGED <<provider, profile, bound>> => \A r \in Requests : Keeps(r)
BY DEF Inv, DefaultStays, BoundExist, ActiveSettingsResolve, Bound, Usable, Exists, Configured, Keeps

---------------------------------------------------------------------------
\* One lemma per action.

LEMMA RefuseKeeps ==
    ASSUME Inv, NEW r \in Requests, Refuse(r)
    PROVE  Inv'
<1>1. End(r, "refused") /\ UNCHANGED <<provider, profile, settings, bound>> /\ Typed
    BY DEF Refuse, Inv
<1>2. QED
    BY <1>1, RowsKeep, EndKeeps DEF Typed

LEMMA BeginRotateKeeps ==
    ASSUME Inv, NEW r \in Requests, BeginRotate(r)
    PROVE  Inv'
<1>1. PICK k \in Providers : Work(r, "rotate", k, provider[k].version, Default)
    BY DEF BeginRotate
<1>2. Typed /\ provider[k].version \in Nat /\ Default \in Catalog
      /\ "rotate" \in Kinds /\ k \in Targets
    BY CatalogAssumption DEF Inv, Typed, Kinds, Targets
<1>3. PICK h \in Transactions :
        /\ Becomes(r, h)
        /\ h.at = "working" /\ h.kind = "rotate" /\ h.target = k /\ h.entry = Default
    BY <1>1, <1>2, WorkMoves
<1>4. Checked(r)' /\ \A p \in Profiles : ~Holds(r, {"update_profile"}, p)'
    BY <1>3 DEF Checked, Holds, Becomes
<1>5. QED
    BY <1>3, <1>4, BeginKeeps DEF BeginRotate

LEMMA BeginSeedKeeps ==
    ASSUME Inv, NEW r \in Requests, BeginSeed(r)
    PROVE  Inv'
<1>1. Typed /\ 0 \in Nat /\ Default \in Catalog
      /\ "seed" \in Kinds
    BY CatalogAssumption DEF Inv, Kinds
<1>2. PICK t \in Targets : Work(r, "seed", t, 0, Default)
    BY DEF BeginSeed, Targets
<1>3. PICK h \in Transactions :
        /\ Becomes(r, h)
        /\ h.at = "working" /\ h.kind = "seed" /\ h.target = t /\ h.entry = Default
    BY <1>1, <1>2, WorkMoves
<1>4. Checked(r)' /\ \A p \in Profiles : ~Holds(r, {"update_profile"}, p)'
    BY <1>3 DEF Checked, Holds, Becomes
<1>5. QED
    BY <1>3, <1>4, BeginKeeps DEF BeginSeed

LEMMA BeginUpdateProfileKeeps ==
    ASSUME Inv, NEW r \in Requests, BeginUpdateProfile(r)
    PROVE  Inv'
<1>1. PICK p \in Profiles, entry \in Catalog :
        /\ Exists(p) /\ ~ProfileLocked(p) /\ ~Bound(p)
        /\ entry.provider = profile[p].entry.provider /\ entry.kind = profile[p].entry.kind
        /\ Work(r, "update_profile", p, profile[p].version, entry)
    BY DEF BeginUpdateProfile
<1>2. Typed /\ profile[p] \in Live /\ profile[p].version \in Nat /\ "update_profile" \in Kinds /\ p \in Targets
    BY <1>1, LiveExists DEF Inv, Live, Kinds, Targets
<1>3. PICK h \in Transactions :
        /\ Becomes(r, h)
        /\ h.at = "working" /\ h.kind = "update_profile" /\ h.target = p /\ h.entry = entry
    BY <1>1, <1>2, WorkMoves
<1>4. UNCHANGED <<provider, profile, settings, bound>>
    BY DEF BeginUpdateProfile
<1>5. Checked(r)' /\ \A o \in Profiles : Holds(r, {"update_profile"}, o)' => o = p
    BY <1>1, <1>2, <1>3, <1>4 DEF Checked, Holds, Becomes, Bound
<1>6. QED
    BY <1>1, <1>3, <1>4, <1>5, BeginKeeps

LEMMA BeginDeleteProfileKeeps ==
    ASSUME Inv, NEW r \in Requests, BeginDeleteProfile(r)
    PROVE  Inv'
<1>1. PICK p \in Profiles \ {"default"} : Work(r, "delete_profile", p, 0, Default)
    BY DEF BeginDeleteProfile
<1>2. Typed /\ 0 \in Nat /\ Default \in Catalog
      /\ "delete_profile" \in Kinds /\ p \in Targets
    BY CatalogAssumption DEF Inv, Kinds, Targets
<1>3. PICK h \in Transactions :
        /\ Becomes(r, h)
        /\ h.at = "working" /\ h.kind = "delete_profile" /\ h.target = p /\ h.entry = Default
    BY <1>1, <1>2, WorkMoves
<1>4. Checked(r)' /\ \A o \in Profiles : ~Holds(r, {"update_profile"}, o)'
    BY <1>3 DEF Checked, Holds, Becomes
<1>5. QED
    BY <1>3, <1>4, BeginKeeps DEF BeginDeleteProfile

LEMMA BeginSettingsKeeps ==
    ASSUME Inv, NEW r \in Requests, BeginSettings(r)
    PROVE  Inv'
<1>1. PICK t \in Profiles \cup {"docling", "reducto"} :
        /\ Work(r, "update_settings", t, settings.version, Default)
        /\ \/ t \in Profiles /\ Usable(t)
           \/ t = "docling"
           \/ t = "reducto" /\ Configured("reducto")
    BY DEF BeginSettings
<1>2. /\ Typed /\ settings.version \in Nat /\ Default \in Catalog
      /\ "update_settings" \in Kinds /\ t \in Targets
      /\ UNCHANGED <<provider, profile, settings, bound>>
    BY CatalogAssumption DEF Inv, Typed, Seen, Kinds, Targets, BeginSettings
<1>3. PICK h \in Transactions :
        /\ Becomes(r, h)
        /\ h.at = "working" /\ h.kind = "update_settings" /\ h.target = t /\ h.entry = Default
    BY <1>1, <1>2, WorkMoves
<1>4. t \in Profiles /\ Usable(t) => profile[t] # NoProfile
    BY <1>2, LiveExists DEF Usable, Live, NoProfile
<1>5. Checked(r)' /\ \A o \in Profiles : ~Holds(r, {"update_profile"}, o)'
    BY <1>1, <1>2, <1>3, <1>4 DEF Checked, Holds, Becomes, Usable, Exists, Configured
<1>6. QED
    BY <1>2, <1>3, <1>5, BeginKeeps

LEMMA BeginCreateDomainKeeps ==
    ASSUME Inv, NEW r \in Requests, BeginCreateDomain(r)
    PROVE  Inv'
<1>1. PICK p \in Profiles : Work(r, "create_domain", p, 0, Default)
    BY DEF BeginCreateDomain
<1>2. Typed /\ 0 \in Nat /\ Default \in Catalog
      /\ "create_domain" \in Kinds /\ p \in Targets
    BY CatalogAssumption DEF Inv, Kinds, Targets
<1>3. PICK h \in Transactions :
        /\ Becomes(r, h)
        /\ h.at = "working" /\ h.kind = "create_domain" /\ h.target = p /\ h.entry = Default
    BY <1>1, <1>2, WorkMoves
<1>4. Checked(r)' /\ \A o \in Profiles : ~Holds(r, {"update_profile"}, o)'
    BY <1>3 DEF Checked, Holds, Becomes
<1>5. QED
    BY <1>3, <1>4, BeginKeeps DEF BeginCreateDomain

LEMMA CreateProfileKeeps ==
    ASSUME Inv, NEW r \in Requests, CreateProfile(r)
    PROVE  Inv'
<1>1. PICK p \in Profiles, entry \in Catalog :
        /\ profile[p] = NoProfile
        /\ profile' = [profile EXCEPT ![p] = [entry |-> entry, version |-> 1]]
    BY DEF CreateProfile
<1>2. End(r, "done") /\ UNCHANGED <<provider, settings, bound>> /\ Typed
    BY DEF CreateProfile, Inv
<1>3. [entry |-> entry, version |-> 1] \in Live
    BY DEF Live
<1>4. /\ profile' \in [Profiles -> {NoProfile, Deleted} \cup Live]
      /\ \A o \in Profiles : o # p => profile'[o] = profile[o]
    BY <1>1, <1>2, <1>3 DEF Typed
<1>5. profile[p] \notin Live /\ "default" \in Profiles
    BY <1>1, CatalogAssumption DEF Live, NoProfile
<1>6. Keeps(r)
    BY <1>1, <1>2, <1>4 DEF Keeps, Configured, Bound
<1>7. DefaultStays' /\ BoundExist'
    BY <1>2, <1>4, <1>5 DEF Inv, DefaultStays, BoundExist, Bound
<1>8. ActiveSettingsResolve'
    <2>1. settings.active # None => settings.active # p /\ settings.active \in Profiles
        BY <1>1, <1>2 DEF Inv, ActiveSettingsResolve, Usable, Exists, NoProfile, Typed, Seen
    <2>2. QED
        BY <1>2, <1>4, <2>1 DEF Inv, ActiveSettingsResolve, Usable, Exists, Configured
<1>9. QED
    BY <1>2, <1>4, <1>6, <1>7, <1>8, EndKeeps DEF Typed

\* Whenever the default profile is activated it is usable.
LEMMA ActivationResolves ==
    ASSUME Inv, NEW r \in Requests, NEW openai, Activates(r, openai), openai => Configured("openai")',
           UNCHANGED profile, settings' = Activated(r),
           Configured("reducto") => Configured("reducto")'
    PROVE  ActiveSettingsResolve' /\ settings' \in Seen
<1>1. Typed /\ DefaultStays /\ ActiveSettingsResolve
    BY DEF Inv
<1>2. request[r].seen.version \in Nat /\ request[r].seen.version + 1 \in Nat
    BY <1>1 DEF Typed, Transactions, Seen
<1>3. settings' \in Seen /\ settings'.active = "default" /\ settings'.parser = settings.parser
    BY <1>1, <1>2, CatalogAssumption DEF Activated, Typed, Seen
<1>4. Usable("default")'
    BY <1>1 DEF Activates, DefaultStays, Usable, Exists, Live
<1>5. QED
    BY <1>1, <1>3, <1>4 DEF ActiveSettingsResolve

LEMMA CommitRotateKeeps ==
    ASSUME Inv, NEW r \in Requests, CommitRotate(r)
    PROVE  Inv'
<1> DEFINE k == request[r].target
           openai == k = "openai" \/ Configured("openai")
<1>1. /\ Typed /\ Checked(r) /\ Working(r, "rotate") /\ End(r, "done")
      /\ UNCHANGED <<profile, bound>>
      /\ provider' = [provider EXCEPT ![k] =
                         [configured |-> TRUE, version |-> request[r].expected + 1]]
      /\ settings' = IF Activates(r, openai) THEN Activated(r) ELSE settings
    BY DEF Inv, CommitRotate
<1>2. k \in Providers
    BY <1>1 DEF Checked, Working
<1>3. request[r].expected + 1 \in Nat
    BY <1>1 DEF Typed, Transactions
<1>4. /\ provider' \in [Providers -> [configured : BOOLEAN, version : Nat]]
      /\ provider'[k].configured
      /\ \A o \in Providers : o # k => provider'[o] = provider[o]
    BY <1>1, <1>2, <1>3 DEF Typed
<1>5. (\A o \in Providers : Configured(o) => Configured(o)') /\ (openai => Configured("openai")')
    BY <1>4 DEF Configured, Providers
<1>6. settings' \in Seen /\ ActiveSettingsResolve'
    <2>1. CASE Activates(r, openai)
        <3>1. Configured("reducto") => Configured("reducto")'
            BY <1>5 DEF Providers
        <3>2. QED
            BY <1>1, <1>5, <2>1, <3>1, ActivationResolves
    <2>2. CASE ~Activates(r, openai)
        <3>1. UNCHANGED settings /\ settings \in Seen
            BY <1>1, <2>2 DEF Typed
        <3>2. settings.active # None => Configured(profile[settings.active].entry.provider)
                /\ profile[settings.active].entry.provider \in Providers
            BY <1>1, CatalogAssumption, LiveExists
            DEF Inv, ActiveSettingsResolve, Usable, Typed, Seen, Live, Providers
        <3>3. QED
            BY <1>1, <1>5, <3>1, <3>2
            DEF Inv, ActiveSettingsResolve, Usable, Exists, Configured, Providers
    <2>3. QED
        BY <2>1, <2>2
<1>7. Keeps(r)
    BY <1>1, <1>5 DEF Keeps, Bound
<1>8. QED
    BY <1>1, <1>4, <1>6, <1>7, RowsKeep, EndKeeps DEF Typed

LEMMA CommitSeedKeeps ==
    ASSUME Inv, NEW r \in Requests, CommitSeed(r)
    PROVE  Inv'
<1>1. /\ Typed /\ End(r, "done") /\ UNCHANGED <<provider, profile, bound>>
      /\ settings' = IF Activates(r, Configured("openai")) THEN Activated(r) ELSE settings
    BY DEF Inv, CommitSeed
<1>2. settings' \in Seen /\ ActiveSettingsResolve'
    <2>1. CASE Activates(r, Configured("openai"))
        BY <1>1, <2>1, ActivationResolves DEF Configured
    <2>2. CASE ~Activates(r, Configured("openai"))
        BY <1>1, <2>2, RowsKeep DEF Typed
    <2>3. QED
        BY <2>1, <2>2
<1>3. QED
    BY <1>1, <1>2, RowsKeep, EndKeeps DEF Typed

LEMMA CommitUpdateProfileKeeps ==
    ASSUME Inv, NEW r \in Requests, CommitUpdateProfile(r)
    PROVE  Inv'
<1> DEFINE p == request[r].target
           row == [entry |-> request[r].entry, version |-> request[r].expected + 1]
<1>1. /\ Typed /\ Checked(r) /\ Working(r, "update_profile") /\ End(r, "done")
      /\ UNCHANGED <<provider, settings, bound>>
      /\ profile' = [profile EXCEPT ![p] = row]
    BY DEF Inv, CommitUpdateProfile
<1>2. /\ p \in Profiles /\ profile[p] \in Live /\ ~Bound(p)
      /\ row.entry.provider = profile[p].entry.provider
      /\ row.entry.kind = profile[p].entry.kind
    BY <1>1 DEF Checked, Working
<1>3. request[r].expected \in Nat /\ request[r].entry \in Catalog
    BY <1>1 DEF Typed, Transactions
<1>4. request[r].expected + 1 \in Nat \ {0}
    BY <1>3
<1>5. row \in Live
    BY <1>3, <1>4 DEF Live
<1> HIDE DEF row
<1>6. /\ profile' \in [Profiles -> {NoProfile, Deleted} \cup Live]
      /\ profile'[p] = row /\ \A o \in Profiles : o # p => profile'[o] = profile[o]
    BY <1>1, <1>2, <1>5 DEF Typed
<1>7. Keeps(r)
    BY <1>1, <1>2, <1>5, <1>6 DEF Keeps, Configured, Bound, Holds, Working
<1>8. DefaultStays' /\ BoundExist'
    BY <1>1, <1>2, <1>5, <1>6, CatalogAssumption DEF Inv, DefaultStays, BoundExist, Bound
<1>9. ActiveSettingsResolve'
    <2>1. ActiveSettingsResolve /\ settings.active \in Profiles \cup {None}
        BY <1>1 DEF Inv, Typed, Seen
    <2>2. row.version > 0
        BY <1>5 DEF Live
    <2>3. QED
        BY <1>1, <1>2, <1>6, <2>1, <2>2 DEF ActiveSettingsResolve, Usable, Exists, Configured
<1>10. QED
    BY <1>1, <1>6, <1>7, <1>8, <1>9, EndKeeps DEF Typed

LEMMA CommitDeleteProfileKeeps ==
    ASSUME Inv, NEW r \in Requests, CommitDeleteProfile(r)
    PROVE  Inv'
<1> DEFINE p == request[r].target
<1>1. /\ Typed /\ Checked(r) /\ Working(r, "delete_profile") /\ ~ProfileLocked(p)
      /\ UNCHANGED <<provider, settings, bound>>
    BY DEF Inv, CommitDeleteProfile
<1>2. p \in Profiles \ {"default"}
    BY <1>1 DEF Checked, Working
<1>3. CASE End(r, "refused") /\ UNCHANGED profile
    BY <1>1, <1>3, RowsKeep, EndKeeps DEF Typed
<1>4. CASE /\ settings.active # p /\ ~Bound(p) /\ End(r, "done")
           /\ profile' = [profile EXCEPT ![p] = Deleted]
    <2>1. /\ profile' \in [Profiles -> {NoProfile, Deleted} \cup Live]
          /\ profile'[p] = Deleted /\ \A o \in Profiles : o # p => profile'[o] = profile[o]
        BY <1>1, <1>2, <1>4 DEF Typed
    <2>2. Keeps(r)
        BY <1>1, <1>2, <2>1 DEF Keeps, Configured, Bound
    <2>3. DefaultStays' /\ BoundExist'
        BY <1>1, <1>2, <1>4, <2>1, CatalogAssumption DEF Inv, DefaultStays, BoundExist, Bound
    <2>4. ActiveSettingsResolve'
        BY <1>1, <1>4, <2>1 DEF Inv, Typed, Seen, ActiveSettingsResolve, Usable, Exists, Configured
    <2>5. QED
        BY <1>1, <1>4, <2>1, <2>2, <2>3, <2>4, EndKeeps DEF Typed
<1>5. QED
    BY <1>3, <1>4 DEF CommitDeleteProfile

LEMMA CommitSettingsKeeps ==
    ASSUME Inv, NEW r \in Requests, CommitSettings(r)
    PROVE  Inv'
<1> DEFINE t == request[r].target
           next == [settings EXCEPT !.version = request[r].expected + 1]
<1>1. /\ Typed /\ Checked(r) /\ Working(r, "update_settings") /\ ActiveSettingsResolve
      /\ UNCHANGED <<provider, profile, bound>>
    BY DEF Inv, CommitSettings
<1>2. \/ /\ t \in Profiles
         /\ profile[t] \in Live => Usable(t)
      \/ t = "docling"
      \/ t = "reducto" /\ Configured("reducto")
    BY <1>1 DEF Checked, Working
<1>3. request[r].expected + 1 \in Nat
    <2>1. request[r].expected \in Nat
        BY <1>1 DEF Typed, Transactions
    <2>2. QED
        BY <2>1
<1>4. next \in Seen /\ next.active = settings.active /\ next.parser = settings.parser
    BY <1>1, <1>3 DEF Typed, Seen
<1>5. CASE UNCHANGED settings /\ End(r, "refused")
    BY <1>1, <1>5, RowsKeep, EndKeeps DEF Typed
<1>6. CASE t \notin Profiles /\ settings' = [next EXCEPT !.parser = t] /\ End(r, "done")
    <2> HIDE DEF next
    <2>1. settings' \in Seen /\ settings'.active = next.active /\ settings'.parser = t
        BY <1>2, <1>4, <1>6 DEF Seen
    <2>2. ActiveSettingsResolve'
        BY <1>1, <1>2, <1>4, <1>6, <2>1 DEF ActiveSettingsResolve, Usable, Exists, Configured
    <2>3. QED
        BY <1>1, <1>6, <2>1, <2>2, RowsKeep, EndKeeps DEF Typed
<1>7. CASE /\ t \in Profiles /\ Exists(t)
           /\ settings' = [next EXCEPT !.active = t] /\ End(r, "done")
    <2> HIDE DEF next
    <2>1. settings' \in Seen /\ settings'.active = t /\ settings'.parser = next.parser
        BY <1>4, <1>7 DEF Seen
    <2>2. Usable(t)
        BY <1>1, <1>2, <1>7, LiveExists, CatalogAssumption
    <2>3. ActiveSettingsResolve'
        BY <1>1, <1>4, <2>1, <2>2 DEF ActiveSettingsResolve, Usable, Exists, Configured
    <2>4. QED
        BY <1>1, <1>7, <2>1, <2>3, RowsKeep, EndKeeps DEF Typed
<1>8. QED
    BY <1>5, <1>6, <1>7 DEF CommitSettings

LEMMA CommitCreateDomainKeeps ==
    ASSUME Inv, NEW r \in Requests, CommitCreateDomain(r)
    PROVE  Inv'
<1> DEFINE p == request[r].target
<1>1. /\ Typed /\ Checked(r) /\ Working(r, "create_domain") /\ ~ProfileLocked(p)
      /\ UNCHANGED <<provider, profile, settings>>
    BY DEF Inv, CommitCreateDomain
<1>2. p \in Profiles
    BY <1>1 DEF Checked, Working
<1>3. CASE UNCHANGED bound /\ End(r, "refused")
    BY <1>1, <1>3, RowsKeep, EndKeeps DEF Typed
<1>4. CASE Exists(p) /\ bound' = bound \cup {<<r, p>>} /\ End(r, "done")
    <2>1. \A o \in Profiles : Bound(o)' => Bound(o) \/ o = p
        BY <1>4 DEF Bound
    <2>2. Keeps(r)
        BY <1>1, <2>1 DEF Keeps, Configured
    <2>3. BoundExist'
        BY <1>1, <1>2, <1>4, <2>1, LiveExists DEF Inv, BoundExist
    <2>4. bound' \subseteq Requests \X Profiles
        BY <1>1, <1>2, <1>4 DEF Typed
    <2>5. QED
        BY <1>1, <1>4, <2>2, <2>3, <2>4, RowsKeep, EndKeeps DEF Typed
<1>5. QED
    BY <1>3, <1>4 DEF CommitCreateDomain

LEMMA RemoveDomainKeeps ==
    ASSUME Inv, RemoveDomain
    PROVE  Inv'
<1>1. /\ UNCHANGED <<provider, profile, settings, request>>
      /\ \A p \in Profiles : Bound(p)' => Bound(p)
    BY DEF RemoveDomain, Bound
<1>2. Typed' /\ DefaultStays' /\ BoundExist' /\ OneUpdates' /\ ActiveSettingsResolve'
    BY <1>1
    DEF Inv, Typed, DefaultStays, BoundExist, OneUpdates, Holds, ActiveSettingsResolve, Usable,
        Exists, Configured, RemoveDomain
<1>3. ASSUME NEW q \in Requests PROVE Checked(q)'
    <2>1. Checked(q)
        BY DEF Inv
    <2>2. QED
        BY <1>1, <2>1 DEF Checked, Usable, Exists, Configured
<1>4. QED
    BY <1>2, <1>3 DEF Inv

LEMMA InitHasInv ==
    ASSUME Init
    PROVE  Inv
<1>1. PICK configured \in SUBSET Providers :
        /\ provider = [k \in Providers |-> [configured |-> k \in configured, version |-> 1]]
        /\ settings = [active |-> IF "openai" \in configured THEN "default" ELSE None,
                       parser |-> "docling", version |-> 1]
    BY DEF Init
<1>2. PICK made \in SUBSET (Profiles \ {"default"}) : \E entry \in [made -> Catalog] :
        profile = [p \in Profiles |->
            CASE p = "default" -> [entry |-> Default, version |-> 1]
              [] p \in made -> [entry |-> entry[p], version |-> 1]
              [] OTHER -> NoProfile]
    BY DEF Init
<1>3. PICK entry \in [made -> Catalog] :
        profile = [p \in Profiles |->
            CASE p = "default" -> [entry |-> Default, version |-> 1]
              [] p \in made -> [entry |-> entry[p], version |-> 1]
              [] OTHER -> NoProfile]
    BY <1>2
<1>4. ASSUME NEW p \in Profiles PROVE profile[p] \in {NoProfile, Deleted} \cup Live
    <2>1. CASE p = "default"
        BY <1>3, <2>1, CatalogAssumption DEF Live
    <2>2. CASE p # "default" /\ p \in made
        BY <1>3, <2>2 DEF Live
    <2>3. CASE p # "default" /\ p \notin made
        BY <1>3, <2>3
    <2>4. QED
        BY <2>1, <2>2, <2>3
<1>5. profile["default"] = [entry |-> Default, version |-> 1]
    BY <1>3, CatalogAssumption
<1>6. DefaultStays
    BY <1>5, CatalogAssumption DEF DefaultStays, Live
<1>7. profile \in [Profiles -> {NoProfile, Deleted} \cup Live]
    BY <1>3, <1>4
<1>8. provider \in [Providers -> [configured : BOOLEAN, version : Nat]] /\ settings \in Seen
    BY <1>1, CatalogAssumption DEF Seen
<1>9. bound = {} /\ request = [r \in Requests |-> Fresh] /\ Fresh \in Transactions
      /\ Fresh.at = "new"
    BY FreshTyped DEF Init, Fresh
<1>10. Typed /\ OneUpdates /\ BoundExist /\ \A r \in Requests : Checked(r)
    BY <1>7, <1>8, <1>9 DEF Typed, OneUpdates, Holds, BoundExist, Bound, Checked
<1>11. ActiveSettingsResolve
    <2>1. settings.parser = "docling"
          /\ (settings.active # None => settings.active = "default" /\ Configured("openai"))
        BY <1>1 DEF Configured, Providers
    <2>2. QED
        BY <1>6, <2>1 DEF ActiveSettingsResolve, DefaultStays, Usable, Exists, Live
<1>12. QED
    BY <1>6, <1>10, <1>11 DEF Inv

LEMMA NextKeeps ==
    ASSUME Inv, [Next]_vars
    PROVE  Inv'
<1>1. CASE \E r \in Requests : Begin(r) \/ Commit(r)
    BY <1>1, BeginRotateKeeps, BeginSeedKeeps, CreateProfileKeeps, BeginUpdateProfileKeeps,
       BeginDeleteProfileKeeps, BeginSettingsKeeps, BeginCreateDomainKeeps, RefuseKeeps,
       CommitRotateKeeps, CommitSeedKeeps, CommitUpdateProfileKeeps, CommitDeleteProfileKeeps,
       CommitSettingsKeeps, CommitCreateDomainKeeps
    DEF Begin, Commit
<1>2. CASE UNCHANGED vars
    <2>1. ASSUME NEW q \in Requests PROVE Checked(q)'
        <3>1. Checked(q)
            BY DEF Inv
        <3>2. QED
            BY <1>2, <3>1 DEF vars, Checked, Bound, Usable, Exists, Configured
    <2>2. QED
        BY <1>2, <2>1
        DEF vars, Inv, Typed, DefaultStays, BoundExist, OneUpdates, Holds, Bound,
            ActiveSettingsResolve, Usable, Exists, Configured
<1>3. QED
    BY <1>1, <1>2, RemoveDomainKeeps DEF Next

LEMMA Invariance == Spec => []Inv
BY InitHasInv, NextKeeps, PTL DEF Spec

---------------------------------------------------------------------------
\* Theorems.

\* Whatever settings a turn reads, its profile is there, is a synthesis profile and has a
\* configured provider, and the parser has its credential (delete_model_profile,
\* update_runtime_settings and _activate_default_synthesis_if_ready in any overlap).
THEOREM SettingsResolve == Spec => []ActiveSettingsResolve
BY Invariance, PTL DEF Inv

\* A domain's profile is there for the domain's life: the foreign key refuses what the check of
\* delete_model_profile has missed.
THEOREM BoundExistAlways == Spec => []BoundProfilesExist
<1>1. Inv => BoundProfilesExist
    BY LiveExists DEF Inv, BoundExist, BoundProfilesExist, Bound, Typed
<1>2. QED
    BY <1>1, Invariance, PTL

\* A profile that a domain binds is never changed: update_model_profile holds the row from its
\* check to its commit, and the binding waits for it.
THEOREM BoundStay == Spec => BoundProfilesStay
<1>1. ASSUME Inv, [Next]_vars, NEW p \in Profiles, Bound(p) PROVE profile'[p] = profile[p]
    <2>1. profile[p] \in Live /\ Typed
        BY <1>1 DEF Inv, BoundExist
    <2>2. profile[p] # NoProfile
        BY <2>1 DEF Live, NoProfile
    <2>3. ASSUME NEW r \in Requests, CreateProfile(r) PROVE profile'[p] = profile[p]
        BY <2>1, <2>2, <2>3 DEF CreateProfile, Typed
    <2>4. ASSUME NEW r \in Requests, CommitUpdateProfile(r) PROVE profile'[p] = profile[p]
        <3>1. Checked(r) /\ request[r].target # p
            BY <1>1, <2>4 DEF Inv, Checked, CommitUpdateProfile, Working
        <3>2. QED
            BY <2>1, <2>4, <3>1 DEF CommitUpdateProfile, Typed
    <2>5. ASSUME NEW r \in Requests, CommitDeleteProfile(r) PROVE profile'[p] = profile[p]
        BY <1>1, <2>1, <2>5 DEF CommitDeleteProfile, Typed
    <2>6. CASE UNCHANGED profile
        BY <2>6
    <2>7. QED
        BY <1>1, <2>3, <2>4, <2>5, <2>6
        DEF Next, Begin, Commit, BeginRotate, BeginSeed, BeginUpdateProfile, BeginDeleteProfile,
            BeginSettings, BeginCreateDomain, Refuse, CommitRotate, CommitSeed, CommitSettings,
            CommitCreateDomain, RemoveDomain, vars
<1>2. Inv /\ [Next]_vars => [\A p \in Profiles : Bound(p) => profile'[p] = profile[p]]_vars
    BY <1>1
<1>3. QED
    BY <1>2, InitHasInv, NextKeeps, PTL DEF Spec, BoundProfilesStay

---------------------------------------------------------------------------
\* Expected versions.

\* What a transaction under an expected version knows of it: while it works the row has that
\* version and is locked by nobody else, and once it has succeeded the row is past it for good.
Expected(r) ==
    LET t == request[r].target
        v == request[r].expected IN
    /\ Working(r, "rotate") => t \in Providers /\ provider[t].version = v
    /\ Working(r, "update_profile") => t \in Profiles /\ profile[t].version = v
    /\ request[r].at = "done" /\ request[r].kind = "rotate" =>
         t \in Providers /\ v < provider[t].version
    /\ request[r].at = "done" /\ request[r].kind = "update_profile" =>
         t \in Profiles /\ (profile[t] = Deleted \/ v < profile[t].version)
    /\ New(r) => request[r].kind = ""

OneRotates ==
    \A r, q \in Requests, k \in Providers :
        Holds(r, {"rotate"}, k) /\ Holds(q, {"rotate"}, k) => r = q

Spent == OneRotates /\ (\A r \in Requests : Expected(r)) /\ OneSuccessPerVersion

Versioned == {"rotate", "update_profile"}

\* What a move of r does to the versions, and to what r expects.
Counts(r) ==
    /\ \A q \in Requests \ {r} : request'[q] = request[q]
    /\ \A k \in Providers :
        \/ provider'[k] = provider[k]
        \/ Holds(r, {"rotate"}, k) /\ provider'[k].version = request[r].expected + 1
    /\ \A p \in Profiles :
        \/ profile'[p] = profile[p]
        \/ profile[p] = NoProfile
        \/ profile'[p] = Deleted /\ ~ProfileLocked(p)
        \/ Holds(r, {"update_profile"}, p) /\ profile'[p].version = request[r].expected + 1
    /\ LET h == request'[r] IN
        \/ h.kind \notin Versioned /\ h.at # "new"
        \/ /\ h.at = "working" /\ h.kind = "rotate" /\ h.target \in Providers
           /\ ~ProviderLocked(h.target)
           /\ UNCHANGED provider /\ provider[h.target].version = h.expected
        \/ /\ h.at = "working" /\ h.kind = "update_profile" /\ h.target \in Profiles
           /\ UNCHANGED profile /\ profile[h.target].version = h.expected
        \/ /\ h.at = "done" /\ h.target = request[r].target /\ h.expected = request[r].expected
           /\ request[r].at = "working" /\ h.kind = request[r].kind
           /\ h.kind = "rotate" => provider'[h.target].version = h.expected + 1
           /\ h.kind = "update_profile" => profile'[h.target].version = h.expected + 1

LEMMA EndCounts ==
    ASSUME Typed, NEW r \in Requests, NEW outcome \in {"done", "refused"}, End(r, outcome)
    PROVE  /\ \A q \in Requests \ {r} : request'[q] = request[q]
           /\ request'[r].at = outcome
           /\ request[r].kind \notin Versioned => request'[r].kind \notin Versioned
           /\ request[r].kind \in Versioned =>
                /\ request'[r].kind = request[r].kind
                /\ request'[r].target = request[r].target
                /\ request'[r].expected = request[r].expected
<1> DEFINE kept == [request[r] EXCEPT !.at = outcome, !.seen = NotSeen, !.entry = Default]
           forgot == [Fresh EXCEPT !.at = outcome]
<1>1. request' = [request EXCEPT ![r] = IF request[r].kind \in Versioned THEN kept ELSE forgot]
    BY DEF End, Typed, Versioned
<1>2. /\ kept.at = outcome /\ kept.kind = request[r].kind /\ kept.target = request[r].target
      /\ kept.expected = request[r].expected
    BY DEF Typed, Transactions
<1>3. forgot.kind \notin Versioned /\ forgot.at = outcome
    BY DEF Fresh, Versioned
<1> HIDE DEF kept, forgot
<1>4. QED
    BY <1>1, <1>2, <1>3 DEF Typed

LEMMA WorkCounts ==
    ASSUME Typed, NEW r \in Requests, NEW kind, NEW target, NEW expected, NEW entry,
           Work(r, kind, target, expected, entry)
    PROVE  /\ \A q \in Requests \ {r} : request'[q] = request[q]
           /\ request'[r].at = "working" /\ request'[r].kind = kind
           /\ request'[r].target = target /\ request'[r].expected = expected
BY DEF Typed, Work

LEMMA BeginCounts ==
    ASSUME Inv, Spent, NEW r \in Requests, Begin(r)
    PROVE  Counts(r)
<1>0. Typed /\ request[r] \in Transactions
    BY DEF Inv, Typed
<1>1. CASE BeginRotate(r)
    <2>1. PICK k \in Providers : /\ ~ProviderLocked(k)
                                 /\ Work(r, "rotate", k, provider[k].version, Default)
        BY <1>1 DEF BeginRotate
    <2>2. UNCHANGED <<provider, profile>>
        BY <1>1 DEF BeginRotate
    <2>3. QED
        BY <1>0, <2>1, <2>2, WorkCounts DEF Counts
<1>2. CASE BeginUpdateProfile(r)
    <2>1. PICK p \in Profiles, entry \in Catalog :
             Work(r, "update_profile", p, profile[p].version, entry)
        BY <1>2 DEF BeginUpdateProfile
    <2>2. UNCHANGED <<provider, profile>>
        BY <1>2 DEF BeginUpdateProfile
    <2>3. QED
        BY <1>0, <2>1, <2>2, WorkCounts DEF Counts
<1>3. CASE BeginSeed(r) \/ BeginDeleteProfile(r) \/ BeginSettings(r) \/ BeginCreateDomain(r)
    <2>1. PICK kind, target, expected, entry :
             /\ kind \in Kinds \ Versioned
             /\ Work(r, kind, target, expected, entry)
        BY <1>3 DEF BeginSeed, BeginDeleteProfile, BeginSettings, BeginCreateDomain, Kinds,
                    Versioned
    <2>2. UNCHANGED <<provider, profile>>
        BY <1>3 DEF BeginSeed, BeginDeleteProfile, BeginSettings, BeginCreateDomain
    <2>3. QED
        BY <1>0, <2>1, <2>2, WorkCounts DEF Counts
<1>4. CASE CreateProfile(r) \/ Refuse(r)
    <2>1. request[r].at = "new" /\ \E outcome \in {"done", "refused"} : End(r, outcome)
        BY <1>4 DEF CreateProfile, Refuse, New
    <2>2. /\ UNCHANGED provider
          /\ \A p \in Profiles : profile'[p] = profile[p] \/ profile[p] = NoProfile
        BY <1>0, <1>4 DEF CreateProfile, Refuse, Typed
    <2>3. request'[r].kind \notin Versioned /\ request'[r].at # "new"
        BY <1>0, <2>1, EndCounts DEF Versioned, Spent, Expected, New
    <2>4. QED
        BY <1>0, <2>1, <2>2, <2>3, EndCounts DEF Counts
<1>5. QED
    BY <1>1, <1>2, <1>3, <1>4 DEF Begin

LEMMA CommitCounts ==
    ASSUME Inv, Spent, NEW r \in Requests, Commit(r)
    PROVE  Counts(r)
<1> DEFINE t == request[r].target
           v == request[r].expected
<1>0. Typed /\ request[r] \in Transactions /\ Checked(r)
    BY DEF Inv, Typed
<1>1. CASE CommitRotate(r)
    <2>1. /\ Working(r, "rotate") /\ End(r, "done") /\ UNCHANGED profile
          /\ provider' = [provider EXCEPT ![t] = [configured |-> TRUE, version |-> v + 1]]
        BY <1>1 DEF CommitRotate
    <2>2. t \in Providers /\ Holds(r, {"rotate"}, t)
        BY <1>0, <2>1 DEF Checked, Working, Holds
    <2>3. /\ provider'[t].version = v + 1
          /\ \A k \in Providers \ {t} : provider'[k] = provider[k]
        BY <1>0, <2>1, <2>2 DEF Typed
    <2>4. /\ request'[r].at = "done" /\ request'[r].kind = "rotate" /\ request'[r].target = t
          /\ request'[r].expected = v
        BY <1>0, <2>1, EndCounts DEF Working, Versioned
    <2>5. \A q \in Requests \ {r} : request'[q] = request[q]
        BY <1>0, <2>1, EndCounts
    <2>6. QED
        BY <2>1, <2>2, <2>3, <2>4, <2>5 DEF Counts, Working
<1>2. CASE CommitUpdateProfile(r)
    <2>1. /\ Working(r, "update_profile") /\ End(r, "done") /\ UNCHANGED provider
          /\ profile' = [profile EXCEPT ![t] = [entry |-> request[r].entry, version |-> v + 1]]
        BY <1>2 DEF CommitUpdateProfile
    <2>2. t \in Profiles /\ Holds(r, {"update_profile"}, t)
        BY <1>0, <2>1 DEF Checked, Working, Holds
    <2>3. /\ profile'[t].version = v + 1
          /\ \A p \in Profiles \ {t} : profile'[p] = profile[p]
        BY <1>0, <2>1, <2>2 DEF Typed
    <2>4. /\ request'[r].at = "done" /\ request'[r].kind = "update_profile"
          /\ request'[r].target = t /\ request'[r].expected = v
        BY <1>0, <2>1, EndCounts DEF Working, Versioned
    <2>5. \A q \in Requests \ {r} : request'[q] = request[q]
        BY <1>0, <2>1, EndCounts
    <2>6. QED
        BY <2>1, <2>2, <2>3, <2>4, <2>5 DEF Counts, Working
<1>3. CASE CommitSeed(r) \/ CommitDeleteProfile(r) \/ CommitSettings(r) \/ CommitCreateDomain(r)
    <2>1. /\ request[r].kind \notin Versioned
          /\ \E outcome \in {"done", "refused"} : End(r, outcome)
        BY <1>3 DEF CommitSeed, CommitDeleteProfile, CommitSettings, CommitCreateDomain, Working,
                    Versioned
    <2>2. /\ UNCHANGED provider
          /\ \A p \in Profiles :
               profile'[p] = profile[p] \/ (profile'[p] = Deleted /\ ~ProfileLocked(p))
        BY <1>0, <1>3 DEF CommitSeed, CommitDeleteProfile, CommitSettings, CommitCreateDomain, Typed
    <2>3. request'[r].kind \notin Versioned /\ request'[r].at # "new"
        BY <1>0, <2>1, EndCounts
    <2>4. QED
        BY <1>0, <2>1, <2>2, <2>3, EndCounts DEF Counts
<1>4. QED
    BY <1>1, <1>2, <1>3 DEF Commit

\* What another transaction expects: the lock keeps the version for one that works, and a version
\* that is spent is never back.
LEMMA OthersExpect ==
    ASSUME Inv, Spent, NEW r \in Requests, Counts(r), NEW q \in Requests \ {r}
    PROVE  Expected(q)'
<1> DEFINE t == request[q].target
           v == request[q].expected
<1>1. request'[q] = request[q] /\ Expected(q) /\ Checked(q)
    BY DEF Counts, Spent, Inv
<1>2. ASSUME Working(q, "rotate") PROVE provider'[t] = provider[t]
    <2>1. t \in Providers /\ Holds(q, {"rotate"}, t)
        BY <1>1, <1>2 DEF Expected, Working, Holds
    <2>2. QED
        BY <2>1 DEF Counts, Spent, OneRotates
<1>3. ASSUME Working(q, "update_profile") PROVE profile'[t] = profile[t]
    <2>1. t \in Profiles /\ profile[t] \in Live /\ Holds(q, {"update_profile"}, t)
        BY <1>1, <1>3 DEF Checked, Working, Holds
    <2>2. profile[t] # NoProfile /\ ProfileLocked(t) /\ ~Holds(r, {"update_profile"}, t)
        BY <2>1 DEF Live, NoProfile, ProfileLocked, Inv, OneUpdates
    <2>3. QED
        BY <2>1, <2>2 DEF Counts
<1>4. ASSUME request[q].at = "done", request[q].kind = "rotate"
      PROVE  t \in Providers /\ v < provider'[t].version
    <2>1. t \in Providers /\ v < provider[t].version
        BY <1>1, <1>4 DEF Expected
    <2>2. CASE provider'[t] = provider[t]
        BY <2>1, <2>2
    <2>3. CASE Holds(r, {"rotate"}, t) /\ provider'[t].version = request[r].expected + 1
        <3>1. provider[t].version = request[r].expected /\ v \in Nat /\ provider[t].version \in Nat
            BY <2>1, <2>3 DEF Spent, Expected, Working, Holds, Inv, Typed, Transactions
        <3>2. QED
            BY <2>1, <2>3, <3>1
    <2>4. QED
        BY <2>1, <2>2, <2>3 DEF Counts
<1>5. ASSUME request[q].at = "done", request[q].kind = "update_profile"
      PROVE  t \in Profiles /\ (profile'[t] = Deleted \/ v < profile'[t].version)
    <2>1. t \in Profiles /\ (profile[t] = Deleted \/ v < profile[t].version) /\ v \in Nat
        BY <1>1, <1>5 DEF Expected, Inv, Typed, Transactions
    <2>2. CASE profile'[t] = profile[t] \/ profile'[t] = Deleted
        BY <2>1, <2>2
    <2>3. CASE profile[t] = NoProfile
        BY <2>1, <2>3 DEF NoProfile, Deleted
    <2>4. CASE Holds(r, {"update_profile"}, t) /\ profile'[t].version = request[r].expected + 1
        <3>1. /\ profile[t].version = request[r].expected /\ profile[t] \in Live
            BY <2>1, <2>4 DEF Spent, Expected, Working, Holds, Inv, Checked
        <3>2. profile[t].version \in Nat /\ profile[t] # Deleted
            BY <3>1 DEF Live, Deleted
        <3>3. QED
            BY <2>1, <2>4, <3>1, <3>2
    <2>5. QED
        BY <2>1, <2>2, <2>3, <2>4 DEF Counts
<1>6. QED
    BY <1>1, <1>2, <1>3, <1>4, <1>5 DEF Expected, Working, New

LEMMA OneCounts ==
    ASSUME Inv, Spent, Typed', NEW r \in Requests, Counts(r)
    PROVE  Spent'
<1>0. request'[r] \in Transactions /\ Expected(r) /\ request[r] \in Transactions
    BY DEF Typed, Spent, Inv
<1>1. Expected(r)'
    <2>1. CASE request'[r].kind \notin Versioned
        BY <2>1 DEF Counts, Expected, Working, New, Versioned
    <2>2. CASE request'[r].at = "working" /\ request'[r].kind \in Versioned
        BY <2>2 DEF Counts, Expected, Working, New, Versioned
    <2>3. CASE request'[r].at # "working" /\ request'[r].kind \in Versioned
        <3>1. /\ request'[r].at = "done" /\ request'[r].target = request[r].target
              /\ request'[r].expected = request[r].expected /\ request[r].at = "working"
              /\ request'[r].kind = request[r].kind
              /\ request'[r].kind = "rotate" =>
                   provider'[request'[r].target].version = request'[r].expected + 1
              /\ request'[r].kind = "update_profile" =>
                   profile'[request'[r].target].version = request'[r].expected + 1
            BY <2>3 DEF Counts
        <3>2. request'[r].expected \in Nat
            BY <1>0 DEF Transactions
        <3>3. /\ request'[r].kind = "rotate" => request'[r].target \in Providers
              /\ request'[r].kind = "update_profile" => request'[r].target \in Profiles
            BY <1>0, <3>1 DEF Expected, Working
        <3>4. QED
            BY <3>1, <3>2, <3>3 DEF Expected, Working, New
    <2>4. QED
        BY <2>1, <2>2, <2>3
<1>2. \A q \in Requests : Expected(q)'
    BY <1>1, OthersExpect
<1>3. OneRotates'
    <2> SUFFICES ASSUME NEW q1 \in Requests, NEW q2 \in Requests, NEW k \in Providers,
                        Holds(q1, {"rotate"}, k)', Holds(q2, {"rotate"}, k)'
                 PROVE  q1 = q2
        BY DEF OneRotates
    <2>1. ASSUME NEW q \in Requests \ {r}, Holds(q, {"rotate"}, k)'
          PROVE  Holds(q, {"rotate"}, k) /\ ProviderLocked(k)
        BY <2>1 DEF Counts, Holds, ProviderLocked
    <2>2. ASSUME Holds(r, {"rotate"}, k)' PROVE ~ProviderLocked(k)
        BY <2>2 DEF Counts, Holds, Versioned
    <2>3. QED
        BY <2>1, <2>2 DEF Spent, OneRotates
<1>4. OneSuccessPerVersion'
    <2>1. ASSUME NEW q \in Requests \ {r}, request'[r].kind \in Versioned,
                 request'[q].kind = request'[r].kind, request'[q].target = request'[r].target,
                 request'[q].expected = request'[r].expected,
                 request'[r].at = "done", request'[q].at = "done"
          PROVE  FALSE
        <3> DEFINE t == request[r].target
                   v == request[r].expected
        <3>1. /\ request'[r].target = t /\ request'[r].expected = v
              /\ request[r].at = "working" /\ request'[r].kind = request[r].kind
            BY <2>1 DEF Counts
        <3>2. request[q] = request'[q] /\ Expected(q) /\ v \in Nat
            BY <1>0 DEF Counts, Spent, Transactions
        <3>3. CASE request[r].kind = "rotate"
            <4>1. provider[t].version = v
                BY <1>0, <3>1, <3>3 DEF Expected, Working
            <4>2. v < provider[t].version
                BY <2>1, <3>1, <3>2, <3>3 DEF Expected
            <4>3. QED
                BY <3>2, <4>1, <4>2
        <3>4. CASE request[r].kind = "update_profile"
            <4>1. profile[t] \in Live /\ profile[t].version = v
                BY <1>0, <3>1, <3>4 DEF Expected, Working, Inv, Checked
            <4>2. profile[t] # Deleted
                BY <4>1 DEF Live, Deleted
            <4>3. v < profile[t].version
                BY <2>1, <3>1, <3>2, <3>4, <4>2 DEF Expected
            <4>4. QED
                BY <3>2, <4>1, <4>3
        <3>5. QED
            BY <2>1, <3>1, <3>3, <3>4 DEF Versioned
    <2>2. ASSUME NEW q1 \in Requests \ {r}, NEW q2 \in Requests \ {r}, q1 # q2,
                 request'[q1].kind \in Versioned,
                 request'[q2].kind = request'[q1].kind, request'[q2].target = request'[q1].target,
                 request'[q2].expected = request'[q1].expected
          PROVE  ~(request'[q1].at = "done" /\ request'[q2].at = "done")
        BY <2>2 DEF Counts, Spent, OneSuccessPerVersion, Versioned
    <2>3. QED
        BY <2>1, <2>2 DEF OneSuccessPerVersion, Versioned
<1>5. QED
    BY <1>2, <1>3, <1>4 DEF Spent

\* An expected version admits one change of a provider or a profile: who succeeds under a version
\* held the row since it checked the version, and leaves it with the next one for good
\* (rotate_provider_credential, update_model_profile).
THEOREM OneChangePerVersion == Spec => []OneSuccessPerVersion
<1>1. ASSUME Init PROVE Spent
    <2>1. \A r \in Requests : request[r].at = "new" /\ request[r].kind = ""
        BY <1>1 DEF Init, Fresh
    <2>2. QED
        BY <2>1 DEF Spent, OneRotates, Holds, Expected, Working, New, OneSuccessPerVersion
<1>2. ASSUME Inv, Spent, [Next]_vars PROVE Spent'
    <2>1. Typed'
        BY <1>2, NextKeeps DEF Inv
    <2>2. CASE \E r \in Requests : Begin(r) \/ Commit(r)
        BY <1>2, <2>1, <2>2, BeginCounts, CommitCounts, OneCounts
    <2>3. CASE UNCHANGED <<provider, profile, request>>
        BY <1>2, <2>3 DEF Spent, OneRotates, Holds, Expected, Working, New, OneSuccessPerVersion
    <2>4. QED
        BY <1>2, <2>2, <2>3 DEF Next, RemoveDomain, vars
<1>3. Inv /\ Spent /\ [Next]_vars => Spent'
    BY <1>2
<1>4. Spent => OneSuccessPerVersion
    BY DEF Spent
<1>5. QED
    BY <1>1, <1>3, <1>4, Invariance, PTL DEF Spec
=============================================================================
