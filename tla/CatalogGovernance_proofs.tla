----------------------- MODULE CatalogGovernance_proofs -----------------------
(***************************************************************************)
(* What overlapping registrations can and cannot do to a catalog, and why  *)
(* no operation is allowed that no release gate ever passed: for every set *)
(* of threads, callers, manifests, requests and reports.                   *)
(***************************************************************************)
EXTENDS CatalogGovernance, TLAPS

\* Where a registration can be.
Places == {"idle", "validate", "gate", "read", "replace", "record"}

\* An open append never holds the id it is about to add.
IdsDiffer ==
    /\ \A k \in Catalogs : Loads(catalog[k])
    /\ \A t \in Threads : at[t] = "replace" =>
          Loads(base[t]) /\ request[t].manifest.id \notin Ids(base[t])

\* The entries whose registration record is written or about to be.
Made(k) == recorded[k] \cup
    {Entry(request[t]) : t \in {u \in Threads : at[u] = "record" /\ request[u].catalog = k}}

\* An undisturbed entry is in the file, and in what any open append has read of it.
MadeStays ==
    \A k \in Catalogs : \A e \in Made(k) \ overlapped[k] :
        /\ e \in ToSet(catalog[k])
        /\ \A t \in Appending(k) : e \in ToSet(base[t])

\* A tool repeats an earlier one's command without a plan, and is none of over.
RepeatsIn(entries, over) ==
    \E i, j \in DOMAIN entries :
        /\ i < j /\ entries[j].manifest.command # None
        /\ entries[i].manifest.command = entries[j].manifest.command
        /\ ~ entries[j].manifest.consolidates /\ entries[j] \notin over

\* Only a tool whose registration overlapped another does so.
Consolidated(entries) == ~ RepeatsIn(entries, overlapped["tools"])

\* What a thread found of the tools at its validation is still so, unless crossed.
NoRepeats ==
    /\ Consolidated(catalog["tools"])
    /\ \A t \in Appending("tools") : Consolidated(base[t])
    /\ \A t \in Appending("tools") : ~ crossed[t] => base[t] = catalog["tools"]
    /\ \A t \in Validated("tools") : ~ crossed[t] =>
          (Repeats(request[t].manifest, catalog["tools"]) => request[t].manifest.consolidates)

\* The gate has let connector m ship with the operations it has.
Gated(m) == \E g \in gated : g.connector = m.id /\ g.operations = DOMAIN m.operations

EnabledGated(entries) == \A i \in DOMAIN entries : entries[i].enabled => Gated(entries[i].manifest)

\* Whatever is enabled, or past the gate on its way to be, was gated.
GateHolds ==
    /\ report # None /\ report.verdict = "ship" => report \in gated
    /\ EnabledGated(catalog["connectors"])
    /\ \A t \in Threads : at[t] = "replace" /\ request[t].catalog = "connectors" =>
          EnabledGated(base[t])
    /\ \A t \in Threads : at[t] \in {"read", "replace", "record"} /\ Entry(request[t]).enabled =>
          Gated(request[t].manifest)

IInv ==
    /\ TypeOK
    /\ IdsDiffer
    /\ MadeStays
    /\ NoRepeats
    /\ GateHolds
    /\ AllowedWasGated

-----------------------------------------------------------------------------
\* What a registration at work appends is an entry: register.py.
LEMMA EntryTyped ==
    ASSUME NEW r \in Registrations
    PROVE  /\ r.catalog \in Catalogs
           /\ Entry(r) \in Entries
           /\ Entry(r).manifest = r.manifest
           /\ Entry(r).enabled = (r.catalog = "connectors" /\ r.enabled)
  BY CatalogAssumption DEF Entry, Entries

\* What a file holds after an append.
LEMMA AppendHolds ==
    ASSUME NEW s \in Seq(Entries), NEW e \in Entries
    PROVE  /\ Append(s, e) \in Seq(Entries)
           /\ DOMAIN s = 1 .. Len(s)
           /\ Len(s) \in Nat
           /\ DOMAIN Append(s, e) = 1 .. Len(s) + 1
           /\ \A i \in 1 .. Len(s) : Append(s, e)[i] = s[i]
           /\ Append(s, e)[Len(s) + 1] = e
  OBVIOUS

\* The actions a step of the system can be, and what each leaves alone.
LEMMA StepCases ==
    ASSUME [Next]_vars
    PROVE  \/ \E t \in Threads :
                 /\ \/ Receive(t) \/ Validate(t) \/ CheckGate(t) \/ ReadCatalog(t)
                    \/ ReplaceCatalog(t) \/ Record(t) \/ Refuse(t) \/ BreakOff(t)
                 /\ UNCHANGED invocationVars
           \/ RunReleaseGate /\ UNCHANGED invocationVars
           \/ UNCHANGED registrationVars
  BY DEF Next, vars, RegistrationStep

\* The registering threads' variables are well typed, and a thread at work holds
\* a request: what the other lemmas use of TypeOK.
LEMMA Held ==
    ASSUME TypeOK, NEW t \in Threads, at[t] # "idle"
    PROVE  /\ request[t] \in Registrations
           /\ request[t].catalog \in Catalogs
           /\ request[t].manifest \in Manifests
           /\ Entry(request[t]) \in Entries
           /\ Entry(request[t]).manifest = request[t].manifest
           /\ base[t] \in Seq(Entries)
  <1>1. request[t] \in Registrations /\ base[t] \in Seq(Entries)
    BY DEF TypeOK
  <1> QED
    BY <1>1, EntryTyped, CatalogAssumption

\* A thread that leaves keeps the types: Receive's early answers and the end.
LEMMA LeaveTypes ==
    ASSUME TypeOK, NEW t \in Threads, Leave(t)
    PROVE  /\ at' \in [Threads -> Places]
           /\ request' \in [Threads -> Registrations \cup {None}]
           /\ \A u \in Threads : at'[u] # "idle" => request'[u] # None
           /\ base' \in [Threads -> Seq(Entries)]
           /\ crossed' \in [Threads -> BOOLEAN]
  <1>1. <<>> \in Seq(Entries)
    OBVIOUS
  <1>2. base' \in [Threads -> Seq(Entries)]
    BY <1>1 DEF TypeOK, Leave
  <1> QED
    BY <1>2 DEF TypeOK, Leave, Move, Places

\* A step of any thread or caller keeps every variable within its type.
LEMMA StepTypes ==
    ASSUME TypeOK, [Next]_vars
    PROVE  TypeOK'
  <1>1. CASE RunReleaseGate /\ UNCHANGED invocationVars
    BY <1>1 DEF TypeOK, RunReleaseGate, invocationVars
  <1>2. CASE UNCHANGED vars
    BY <1>2 DEF TypeOK, vars, registrationVars, invocationVars
  <1>3. ASSUME NEW t \in Threads, UNCHANGED invocationVars,
               Receive(t) \/ Validate(t) \/ CheckGate(t) \/ ReadCatalog(t)
        PROVE  TypeOK'
    <2>1. CASE Receive(t)
      BY <1>3, <2>1, CatalogAssumption DEF TypeOK, Receive, Move, Places, invocationVars
    <2>2. CASE Validate(t) \/ CheckGate(t)
      BY <1>3, <2>2 DEF TypeOK, Validate, CheckGate, Move, Places, invocationVars
    <2>3. CASE ReadCatalog(t)
      <3>1. request[t].catalog \in Catalogs
        BY <2>3, Held DEF ReadCatalog
      <3> QED
        BY <1>3, <2>3, <3>1 DEF TypeOK, ReadCatalog, Move, Places, invocationVars
    <2> QED BY <1>3, <2>1, <2>2, <2>3
  <1>4. ASSUME NEW t \in Threads, UNCHANGED invocationVars, ReplaceCatalog(t)
        PROVE  TypeOK'
    <2> DEFINE k == request[t].catalog
               e == Entry(request[t])
    <2>1. k \in Catalogs /\ e \in Entries /\ base[t] \in Seq(Entries)
      BY <1>4, Held DEF ReplaceCatalog
    <2>2. Append(base[t], e) \in Seq(Entries)
      BY <2>1, AppendHolds
    <2> HIDE DEF k, e
    <2>3. catalog' \in [Catalogs -> Seq(Entries)]
      BY <1>4, <2>1, <2>2 DEF TypeOK, ReplaceCatalog, Appended, k, e
    <2>4. overlapped' \in [Catalogs -> SUBSET Entries]
      <3>1. PICK now \in SUBSET Entries : overlapped' = [overlapped EXCEPT ![k] = now]
        <4>1. overlapped[k] \in SUBSET Entries
          BY <2>1 DEF TypeOK
        <4> QED BY <4>1, <1>4, <2>1 DEF ReplaceCatalog, k, e
      <3> QED BY <3>1 DEF TypeOK
    <2>5. crossed' \in [Threads -> BOOLEAN]
      BY <1>4 DEF TypeOK, ReplaceCatalog
    <2> QED
      BY <1>4, <2>3, <2>4, <2>5 DEF TypeOK, ReplaceCatalog, Move, Places, invocationVars
  <1>5. ASSUME NEW t \in Threads, UNCHANGED invocationVars,
               Record(t) \/ Refuse(t) \/ BreakOff(t)
        PROVE  TypeOK'
    <2>1. Leave(t) /\ UNCHANGED <<catalog, report, gated, overlapped>>
      BY <1>5 DEF Record, Refuse, BreakOff
    <2>2. recorded' \in [Catalogs -> SUBSET Entries]
      <3>1. CASE Record(t)
        <4>1. Entry(request[t]) \in Entries /\ request[t].catalog \in Catalogs
          BY <3>1, Held DEF Record
        <4> QED BY <3>1, <4>1 DEF TypeOK, Record
      <3>2. CASE Refuse(t) \/ BreakOff(t)
        BY <3>2 DEF TypeOK, Refuse, BreakOff
      <3> QED BY <1>5, <3>1, <3>2
    <2> QED
      BY <1>5, <2>1, <2>2, LeaveTypes DEF TypeOK, Places, invocationVars
  <1>6. ASSUME UNCHANGED registrationVars, InvocationStep
        PROVE  TypeOK'
    <2>1. ASSUME NEW c \in Callers, StartInvocation(c) \/ WriteDecision(c)
          PROVE  TypeOK'
      <3> DEFINE Outcomes == {None} \cup
                    [outcome : {"allowed", "denied", "raised"}, of : Invocations]
      <3>1. None \in Outcomes
        OBVIOUS
      <3>2. decision \in [Callers -> Outcomes]
        BY DEF TypeOK
      <3> HIDE DEF Outcomes
      <3>3. decision' \in [Callers -> Outcomes]
        BY <2>1, <3>1, <3>2 DEF StartInvocation, WriteDecision
      <3>4. call' \in [Callers -> Invocations \cup {None}]
        BY <2>1 DEF TypeOK, StartInvocation, WriteDecision
      <3>5. written' \in [Callers -> SUBSET {"request", "invocation", "run_state"}]
        <4> DEFINE Artifacts == SUBSET {"request", "invocation", "run_state"}
        <4>1. written \in [Callers -> Artifacts]
          BY DEF TypeOK
        <4>2. /\ {"request"} \in Artifacts
              /\ written[c] \cup {"invocation", "run_state"} \in Artifacts
          BY <4>1
        <4> HIDE DEF Artifacts
        <4>3. PICK w \in Artifacts : written' = [written EXCEPT ![c] = w]
          BY <2>1, <4>2 DEF StartInvocation, WriteDecision
        <4>4. written' \in [Callers -> Artifacts]
          BY <4>1, <4>3
        <4> QED BY <4>4 DEF Artifacts
      <3> QED
        BY <1>6, <3>3, <3>4, <3>5 DEF TypeOK, Outcomes, registrationVars
    <2>2. ASSUME NEW c \in Callers, Allow(c) \/ Deny(c) \/ MediationRaises(c)
          PROVE  TypeOK'
      <3>1. PICK o \in {"allowed", "denied", "raised"} : Decide(c, o)
        BY <2>2 DEF Allow, Deny, MediationRaises
      <3>2. [outcome |-> o, of |-> call[c]]
              \in [outcome : {"allowed", "denied", "raised"}, of : Invocations]
        BY <3>1 DEF TypeOK, Decide
      <3>3. /\ decision' \in [Callers -> {None} \cup
                  [outcome : {"allowed", "denied", "raised"}, of : Invocations]]
            /\ written' = written
            /\ call' \in [Callers -> Invocations \cup {None}]
        BY <2>2, <3>1, <3>2 DEF TypeOK, Decide, Allow, Deny, MediationRaises
      <3> QED BY <1>6, <3>3 DEF TypeOK, registrationVars
    <2> QED BY <1>6, <2>1, <2>2 DEF InvocationStep
  <1> QED
    BY <1>1, <1>2, <1>3, <1>4, <1>5, <1>6 DEF Next, vars, RegistrationStep

\* An entry with an id of its own keeps a catalog loadable: catalog.py.
LEMMA AppendLoads ==
    ASSUME NEW s \in Seq(Entries), NEW e \in Entries, Loads(s), e.manifest.id \notin Ids(s)
    PROVE  Loads(Append(s, e))
  <1> DEFINE n == Len(s)
             a == Append(s, e)
  <1>1. /\ n \in Nat /\ DOMAIN a = 1 .. n + 1 /\ DOMAIN s = 1 .. n
        /\ a[n + 1] = e /\ \A i \in 1 .. n : a[i] = s[i]
    BY AppendHolds
  <1>2. \A i \in 1 .. n : s[i].manifest.id # e.manifest.id
    BY <1>1 DEF Ids
  <1> HIDE DEF n, a
  <1>3. SUFFICES ASSUME NEW i \in 1 .. n + 1, NEW j \in 1 .. n + 1,
                        a[i].manifest.id = a[j].manifest.id
                 PROVE  i = j
    BY <1>1 DEF Loads, a
  <1>4. CASE i = n + 1 \/ j = n + 1
    BY <1>1, <1>2, <1>3, <1>4
  <1>5. CASE i # n + 1 /\ j # n + 1
    <2>1. i \in 1 .. n /\ j \in 1 .. n
      BY <1>1, <1>5
    <2>2. s[i].manifest.id = s[j].manifest.id
      BY <1>1, <1>3, <2>1
    <2> QED BY <1>1, <2>1, <2>2 DEF Loads
  <1> QED BY <1>4, <1>5

\* What the steps that neither read a catalog to write it back nor replace it
\* leave alone: both files, and what every open append holds.
LEMMA Aside ==
    ASSUME TypeOK, NEW t \in Threads,
           Receive(t) \/ Validate(t) \/ CheckGate(t) \/ Record(t) \/ Refuse(t) \/ BreakOff(t)
    PROVE  /\ catalog' = catalog
           /\ overlapped' = overlapped
           /\ gated' = gated
           /\ report' = report
           /\ at'[t] \notin {"replace", "record"}
           /\ \A u \in Threads \ {t} :
                 at'[u] = at[u] /\ request'[u] = request[u] /\ base'[u] = base[u]
                 /\ crossed'[u] = crossed[u]
  <1>1. CASE Receive(t)
    BY <1>1 DEF TypeOK, Receive, Move
  <1>2. CASE Validate(t) \/ CheckGate(t)
    BY <1>2 DEF TypeOK, Validate, CheckGate, Move
  <1>3. CASE Record(t) \/ Refuse(t) \/ BreakOff(t)
    <2>1. Leave(t) /\ UNCHANGED <<catalog, report, gated, overlapped>>
      BY <1>3 DEF Record, Refuse, BreakOff
    <2> QED BY <2>1 DEF TypeOK, Leave, Move
  <1> QED BY <1>1, <1>2, <1>3

\* What reading a catalog to write it back changes.
LEMMA Reading ==
    ASSUME TypeOK, NEW t \in Threads, ReadCatalog(t)
    PROVE  /\ UNCHANGED <<catalog, report, request, recorded, gated, crossed, overlapped>>
           /\ at[t] = "read" /\ at'[t] = "replace"
           /\ request[t] \in Registrations
           /\ request[t].catalog \in Catalogs
           /\ request[t].manifest.id \notin Ids(catalog[request[t].catalog])
           /\ base'[t] = catalog[request[t].catalog]
           /\ \A u \in Threads \ {t} : at'[u] = at[u] /\ base'[u] = base[u]
  <1>1. request[t] \in Registrations /\ request[t].catalog \in Catalogs
    BY Held DEF ReadCatalog
  <1> QED BY <1>1 DEF TypeOK, ReadCatalog, Appendable, Move

\* What replacing a catalog changes.
LEMMA Replacing ==
    ASSUME TypeOK, NEW t \in Threads, ReplaceCatalog(t)
    PROVE  /\ UNCHANGED <<report, request, base, recorded, gated>>
           /\ at[t] = "replace" /\ at'[t] = "record"
           /\ \A u \in Threads \ {t} : at'[u] = at[u]
           /\ catalog'[request[t].catalog] = Append(base[t], Entry(request[t]))
           /\ \A k \in Catalogs \ {request[t].catalog} :
                 catalog'[k] = catalog[k] /\ overlapped'[k] = overlapped[k]
           /\ overlapped'[request[t].catalog] =
                 IF crossed[t] \/ Appending(request[t].catalog) # {t}
                 THEN overlapped[request[t].catalog] \cup {Entry(request[t])}
                 ELSE overlapped[request[t].catalog] \ {Entry(request[t])}
           /\ \A u \in Threads :
                 crossed'[u] = (crossed[u] \/ u \in Validated(request[t].catalog) \ {t})
  <1>1. request[t].catalog \in Catalogs
    BY Held DEF ReplaceCatalog
  <1> QED BY <1>1 DEF TypeOK, ReplaceCatalog, Appended, Move

\* An open append keeps the id it adds out of what it writes back.
LEMMA StepIds ==
    ASSUME TypeOK, IdsDiffer, [Next]_vars
    PROVE  IdsDiffer'
  <1>1. CASE UNCHANGED registrationVars \/ RunReleaseGate
    BY <1>1 DEF IdsDiffer, Loads, Ids, registrationVars, RunReleaseGate
  <1>2. ASSUME NEW t \in Threads,
               Receive(t) \/ Validate(t) \/ CheckGate(t) \/ Record(t) \/ Refuse(t) \/ BreakOff(t)
        PROVE  IdsDiffer'
    BY <1>2, Aside DEF IdsDiffer, Loads, Ids
  <1>3. ASSUME NEW t \in Threads, ReadCatalog(t)
        PROVE  IdsDiffer'
    <2>1. ASSUME NEW u \in Threads, at'[u] = "replace"
          PROVE  Loads(base'[u]) /\ request'[u].manifest.id \notin Ids(base'[u])
      <3>1. CASE u = t
        <4> DEFINE k == request[t].catalog
        <4>1. k \in Catalogs /\ base'[u] = catalog[k] /\ request'[u] = request[t]
              /\ request[t].manifest.id \notin Ids(catalog[k])
          BY <1>3, <3>1, Reading
        <4> HIDE DEF k
        <4> QED BY <4>1 DEF IdsDiffer
      <3>2. CASE u # t
        <4>1. at[u] = "replace" /\ base'[u] = base[u] /\ request'[u] = request[u]
          BY <1>3, <2>1, <3>2, Reading
        <4> QED BY <4>1 DEF IdsDiffer
      <3> QED BY <3>1, <3>2
    <2>2. catalog' = catalog
      BY <1>3, Reading
    <2> QED BY <2>1, <2>2 DEF IdsDiffer, Loads, Ids
  <1>4. ASSUME NEW t \in Threads, ReplaceCatalog(t)
        PROVE  IdsDiffer'
    <2> DEFINE k == request[t].catalog
               e == Entry(request[t])
    <2>1. /\ k \in Catalogs /\ e \in Entries /\ base[t] \in Seq(Entries)
          /\ e.manifest = request[t].manifest
      BY <1>4, Held DEF ReplaceCatalog
    <2>2. Loads(base[t]) /\ e.manifest.id \notin Ids(base[t])
      BY <1>4, <2>1, Replacing DEF IdsDiffer
    <2>3. catalog'[k] = Append(base[t], e)
      BY <1>4, Replacing
    <2> HIDE DEF k, e
    <2>4. Loads(Append(base[t], e))
      BY <2>1, <2>2, AppendLoads
    <2>5. ASSUME NEW j \in Catalogs PROVE Loads(catalog'[j])
      <3>1. CASE j = k
        BY <2>3, <2>4, <3>1
      <3>2. CASE j # k
        <4>1. catalog'[j] = catalog[j]
          BY <1>4, <3>2, Replacing DEF k
        <4> QED BY <4>1 DEF IdsDiffer
      <3> QED BY <3>1, <3>2
    <2>6. \A u \in Threads : at'[u] = "replace" =>
             Loads(base'[u]) /\ request'[u].manifest.id \notin Ids(base'[u])
      BY <1>4, Replacing DEF IdsDiffer
    <2> QED BY <2>5, <2>6 DEF IdsDiffer, Loads, Ids
  <1> QED
    BY <1>1, <1>2, <1>3, <1>4, StepCases

\* An append keeps what it read and adds its entry.
LEMMA AppendMembers ==
    ASSUME NEW s \in Seq(Entries), NEW e \in Entries
    PROVE  /\ e \in ToSet(Append(s, e))
           /\ \A x \in ToSet(s) : x \in ToSet(Append(s, e))
  <1> DEFINE n == Len(s)
             a == Append(s, e)
  <1>1. /\ n \in Nat /\ DOMAIN a = 1 .. n + 1 /\ DOMAIN s = 1 .. n
        /\ a[n + 1] = e /\ \A i \in 1 .. n : a[i] = s[i]
    BY AppendHolds
  <1> HIDE DEF n, a
  <1>2. e \in ToSet(a)
    BY <1>1 DEF ToSet
  <1>3. ASSUME NEW x \in ToSet(s) PROVE x \in ToSet(a)
    <2>1. PICK i \in 1 .. n : s[i] = x
      BY <1>1, <1>3 DEF ToSet
    <2>2. i \in DOMAIN a /\ a[i] = x
      BY <1>1, <2>1
    <2> QED BY <2>2 DEF ToSet
  <1> QED BY <1>2, <1>3 DEF a

\* An entry a record calls installed is lost to overlapping registrations only.
LEMMA StepMade ==
    ASSUME TypeOK, MadeStays, [Next]_vars
    PROVE  MadeStays'
  <1>1. CASE UNCHANGED registrationVars \/ RunReleaseGate
    BY <1>1 DEF MadeStays, Made, Appending, ToSet, Entry, registrationVars, RunReleaseGate
  <1>2. ASSUME NEW t \in Threads,
               Receive(t) \/ Validate(t) \/ CheckGate(t) \/ Record(t) \/ Refuse(t) \/ BreakOff(t)
        PROVE  MadeStays'
    <2>1. \A k \in Catalogs : Made(k)' \subseteq Made(k)
      <3>1. CASE Record(t)
        <4>1. /\ at[t] = "record" /\ request[t].catalog \in Catalogs
              /\ recorded' = [recorded EXCEPT ![request[t].catalog] =
                                @ \cup {Entry(request[t])}]
          BY <3>1, Held DEF Record
        <4>2. \A k \in Catalogs : recorded'[k] \subseteq Made(k)
          BY <4>1 DEF TypeOK, Made
        <4>3. \A u \in Threads : at'[u] = "record" =>
                 at[u] = "record" /\ request'[u] = request[u]
          BY <1>2, Aside
        <4> QED BY <4>2, <4>3 DEF Made, Entry
      <3>2. CASE ~ Record(t)
        <4>1. recorded' = recorded
          BY <1>2, <3>2 DEF Receive, Validate, CheckGate, Refuse, BreakOff
        <4>2. \A u \in Threads : at'[u] = "record" =>
                 at[u] = "record" /\ request'[u] = request[u]
          BY <1>2, Aside
        <4> QED BY <4>1, <4>2 DEF Made, Entry
      <3> QED BY <3>1, <3>2
    <2>2. catalog' = catalog /\ overlapped' = overlapped
      BY <1>2, Aside
    <2>3. \A k \in Catalogs : \A u \in Appending(k)' : u \in Appending(k) /\ base'[u] = base[u]
      BY <1>2, Aside DEF Appending
    <2> QED BY <2>1, <2>2, <2>3 DEF MadeStays, ToSet
  <1>3. ASSUME NEW t \in Threads, ReadCatalog(t)
        PROVE  MadeStays'
    <2>1. UNCHANGED <<catalog, request, recorded, overlapped>>
      BY <1>3, Reading
    <2>2. \A k \in Catalogs : Made(k)' = Made(k)
      <3>1. \A u \in Threads : at'[u] = "record" <=> at[u] = "record"
        BY <1>3, Reading
      <3> QED BY <2>1, <3>1 DEF Made, Entry
    <2>3. ASSUME NEW k \in Catalogs, NEW e \in (Made(k) \ overlapped[k])', NEW u \in Appending(k)'
          PROVE  e \in ToSet(base[u])'
      <3>1. e \in Made(k) \ overlapped[k]
        BY <2>1, <2>2
      <3>2. CASE u = t
        BY <1>3, <2>1, <2>3, <3>1, <3>2, Reading DEF MadeStays, Appending, ToSet
      <3>3. CASE u # t
        <4>1. u \in Appending(k) /\ base'[u] = base[u]
          BY <1>3, <2>1, <2>3, <3>3, Reading DEF Appending
        <4> QED BY <3>1, <4>1 DEF MadeStays, ToSet
      <3> QED BY <3>2, <3>3
    <2> QED BY <2>1, <2>2, <2>3 DEF MadeStays, ToSet
  <1>4. ASSUME NEW t \in Threads, ReplaceCatalog(t)
        PROVE  MadeStays'
    <2>1. /\ request[t].catalog \in Catalogs /\ Entry(request[t]) \in Entries
          /\ base[t] \in Seq(Entries) /\ t \in Appending(request[t].catalog)
      BY <1>4, Held DEF ReplaceCatalog, Appending
    <2>2. UNCHANGED <<request, base, recorded>>
      BY <1>4, Replacing
    <2>3. \A k \in Catalogs : Appending(k)' = Appending(k) \ {t}
      BY <1>4, <2>2, Replacing DEF Appending
    <2>4. \A k \in Catalogs : \A e \in Made(k)' :
             e \in Made(k) \/ (k = request[t].catalog /\ e = Entry(request[t]))
      <3>1. \A u \in Threads : at'[u] = "record" => at[u] = "record" \/ u = t
        BY <1>4, Replacing
      <3> QED BY <2>2, <3>1 DEF Made, Entry
    <2>5. ASSUME NEW k \in Catalogs, NEW e \in (Made(k) \ overlapped[k])'
          PROVE  /\ (e \in ToSet(catalog[k]))'
                 /\ \A u \in Appending(k)' : (e \in ToSet(base[u]))'
      <3>1. CASE k # request[t].catalog
        <4>1. e \in Made(k) \ overlapped[k] /\ catalog'[k] = catalog[k]
          BY <1>4, <2>5, <2>4, <3>1, Replacing
        <4> QED BY <2>2, <2>3, <4>1 DEF MadeStays, ToSet
      <3>2. CASE k = request[t].catalog /\ e = Entry(request[t])
        <4>1. catalog'[k] = Append(base[t], e)
          BY <1>4, <3>2, Replacing
        <4>2. Appending(k) = {t}
          BY <1>4, <2>5, <3>2, Replacing
        <4> QED BY <2>1, <2>3, <3>2, <4>1, <4>2, AppendMembers DEF ToSet
      <3>3. CASE k = request[t].catalog /\ e # Entry(request[t])
        <4>1. e \in Made(k) \ overlapped[k]
          <5>1. \/ overlapped'[k] = overlapped[k] \cup {Entry(request[t])}
                \/ overlapped'[k] = overlapped[k] \ {Entry(request[t])}
            BY <1>4, <3>3, Replacing
          <5>2. e \notin overlapped[k]
            BY <2>5, <3>3, <5>1
          <5> QED BY <2>5, <2>4, <3>3, <5>2
        <4>2. catalog'[k] = Append(base[t], Entry(request[t]))
          BY <1>4, <3>3, Replacing
        <4>3. e \in ToSet(base[t])
          BY <2>1, <3>3, <4>1 DEF MadeStays
        <4>4. e \in ToSet(Append(base[t], Entry(request[t])))
          BY <2>1, <4>3, AppendMembers
        <4> QED BY <2>2, <2>3, <4>1, <4>2, <4>4 DEF MadeStays, ToSet
      <3> QED BY <3>1, <3>2, <3>3
    <2> QED BY <2>5 DEF MadeStays
  <1> QED
    BY <1>1, <1>2, <1>3, <1>4, StepCases

\* The append of an entry that overlapped, or repeats nothing without a plan.
LEMMA AppendRepeats ==
    ASSUME NEW s \in Seq(Entries), NEW e \in Entries, NEW over, ~ RepeatsIn(s, over),
           \/ e \in over
           \/ Repeats(e.manifest, s) => e.manifest.consolidates
    PROVE  ~ RepeatsIn(Append(s, e), over)
  <1> DEFINE n == Len(s)
             a == Append(s, e)
  <1>1. /\ n \in Nat /\ DOMAIN a = 1 .. n + 1 /\ DOMAIN s = 1 .. n
        /\ a[n + 1] = e /\ \A i \in 1 .. n : a[i] = s[i]
    BY AppendHolds
  <1> HIDE DEF n, a
  <1>2. SUFFICES ASSUME NEW i \in 1 .. n + 1, NEW j \in 1 .. n + 1,
                        i < j, a[j].manifest.command # None,
                        a[i].manifest.command = a[j].manifest.command
                 PROVE  a[j].manifest.consolidates \/ a[j] \in over
    BY <1>1 DEF RepeatsIn, a
  <1>3. i \in 1 .. n /\ a[i] = s[i]
    BY <1>1, <1>2
  <1>4. CASE j \in 1 .. n
    <2>1. a[j] = s[j]
      BY <1>1, <1>4
    <2> QED BY <1>1, <1>2, <1>3, <1>4, <2>1 DEF RepeatsIn
  <1>5. CASE j = n + 1
    <2>1. a[j] = e
      BY <1>1, <1>5
    <2>2. Repeats(e.manifest, s)
      BY <1>1, <1>2, <1>3, <2>1 DEF Repeats
    <2> QED BY <2>1, <2>2
  <1> QED BY <1>1, <1>4, <1>5

\* A repetition without a plan overlapped the registration it repeats.
LEMMA StepRepeats ==
    ASSUME TypeOK, IdsDiffer, NoRepeats, [Next]_vars
    PROVE  NoRepeats'
  <1> USE DEF Catalogs
  <1>1. CASE UNCHANGED registrationVars \/ RunReleaseGate
    BY <1>1 DEF NoRepeats, Consolidated, Appending, Validated, Repeats,
                registrationVars, RunReleaseGate
  <1>2. ASSUME NEW t \in Threads, Validate(t)
        PROVE  NoRepeats'
    <2>1. /\ catalog' = catalog /\ overlapped' = overlapped /\ request' = request
          /\ base' = base /\ crossed' = crossed
          /\ at'[t] = "gate" /\ \A u \in Threads \ {t} : at'[u] = at[u]
      BY <1>2 DEF TypeOK, Validate, Move
    <2>2. Appending("tools")' = Appending("tools")
      BY <1>2, <2>1 DEF Appending, Validate
    <2>3. \A u \in Validated("tools")' : u \in Validated("tools") \/ u = t
      BY <2>1 DEF Validated
    <2>4. request[t].catalog = "tools" =>
             (Repeats(request[t].manifest, catalog["tools"]) => request[t].manifest.consolidates)
      BY <1>2 DEF Validate, Admitted, SafeTool
    <2>5. \A u \in Validated("tools")' : request[u].catalog = "tools"
      BY <2>1 DEF Validated
    <2> QED
      BY <2>1, <2>2, <2>3, <2>4, <2>5 DEF NoRepeats, Consolidated, Repeats
  <1>3. ASSUME NEW t \in Threads,
               Receive(t) \/ CheckGate(t) \/ Record(t) \/ Refuse(t) \/ BreakOff(t)
        PROVE  NoRepeats'
    <2>1. /\ catalog' = catalog /\ overlapped' = overlapped
          /\ \A u \in Threads \ {t} :
                at'[u] = at[u] /\ request'[u] = request[u] /\ base'[u] = base[u]
                /\ crossed'[u] = crossed[u]
          /\ at'[t] # "replace"
      BY <1>3, Aside
    <2>2. at'[t] \in {"gate", "read"} =>
             at[t] = "gate" /\ request'[t] = request[t] /\ crossed'[t] = crossed[t]
      BY <1>3 DEF TypeOK, Receive, CheckGate, Record, Refuse, BreakOff, Leave, Move
    <2>3. \A u \in Appending("tools")' :
             u \in Appending("tools") /\ base'[u] = base[u] /\ crossed'[u] = crossed[u]
      BY <2>1 DEF Appending
    <2>4. \A u \in Validated("tools")' :
             /\ u \in Validated("tools") /\ request'[u] = request[u]
             /\ crossed'[u] = crossed[u]
      BY <2>1, <2>2 DEF Validated
    <2> QED
      BY <2>1, <2>3, <2>4 DEF NoRepeats, Consolidated, Repeats
  <1>4. ASSUME NEW t \in Threads, ReadCatalog(t)
        PROVE  NoRepeats'
    <2>1. /\ UNCHANGED <<catalog, request, crossed, overlapped>>
          /\ at[t] = "read" /\ at'[t] = "replace"
          /\ base'[t] = catalog[request[t].catalog]
          /\ \A u \in Threads \ {t} : at'[u] = at[u] /\ base'[u] = base[u]
      BY <1>4, Reading
    <2>2. Validated("tools")' = Validated("tools")
      BY <2>1 DEF Validated
    <2>3. \A u \in Appending("tools")' :
             \/ u \in Appending("tools") /\ base'[u] = base[u]
             \/ base'[u] = catalog["tools"]
      BY <2>1 DEF Appending
    <2> QED
      BY <2>1, <2>2, <2>3 DEF NoRepeats, Consolidated, Repeats
  <1>5. ASSUME NEW t \in Threads, ReplaceCatalog(t)
        PROVE  NoRepeats'
    <2> DEFINE e == Entry(request[t])
    <2>1. /\ request[t].catalog \in Catalogs /\ e \in Entries
          /\ e.manifest = request[t].manifest /\ base[t] \in Seq(Entries)
          /\ t \in Appending(request[t].catalog)
      BY <1>5, Held DEF ReplaceCatalog, Appending
    <2> HIDE DEF e
    <2>2. UNCHANGED <<request, base>>
      BY <1>5, Replacing
    <2>3. \A k \in Catalogs : /\ Appending(k)' = Appending(k) \ {t}
                              /\ Validated(k)' = Validated(k) \ {t}
                              /\ Appending(k) \subseteq Validated(k)
      BY <1>5, <2>2, Replacing DEF Appending, Validated
    <2>4. CASE request[t].catalog = "connectors"
      <3>1. /\ catalog'["tools"] = catalog["tools"] /\ overlapped'["tools"] = overlapped["tools"]
            /\ \A u \in Threads : ~ crossed'[u] => ~ crossed[u]
        BY <1>5, <2>4, Replacing
      <3>2. Validated("tools") \subseteq Threads /\ Appending("tools") \subseteq Threads
        BY DEF Validated, Appending
      <3> QED
        BY <2>2, <2>3, <3>1, <3>2 DEF NoRepeats, Consolidated, Repeats
    <2>5. CASE request[t].catalog = "tools"
      <3>1. \A u \in Validated("tools")' : crossed'[u]
        <4>1. \A u \in Validated("tools")' : u \in Threads /\ u \in Validated("tools") \ {t}
          BY <2>3 DEF Validated
        <4> QED BY <1>5, <2>5, <4>1, Replacing
      <3>2. Appending("tools")' \subseteq Validated("tools")'
        BY DEF Appending, Validated
      <3>3. catalog'["tools"] = Append(base[t], e)
        BY <1>5, <2>5, Replacing DEF e
      <3>4. t \in Appending("tools") /\ t \in Validated("tools")
        BY <2>1, <2>3, <2>5
      <3>5. CASE crossed[t] \/ Appending("tools") # {t}
        <4>1. overlapped'["tools"] = overlapped["tools"] \cup {e}
          <5>1. overlapped'["tools"] =
                   IF crossed[t] \/ Appending("tools") # {t}
                   THEN overlapped["tools"] \cup {e} ELSE overlapped["tools"] \ {e}
            BY <1>5, <2>5, Replacing DEF e
          <5> QED BY <3>5, <5>1, Zenon
        <4>2. \A s : Consolidated(s) => ~ RepeatsIn(s, overlapped'["tools"])
          BY <4>1 DEF Consolidated, RepeatsIn
        <4>3. ~ RepeatsIn(base[t], overlapped'["tools"])
          BY <3>4, <4>2 DEF NoRepeats
        <4>4. ~ RepeatsIn(Append(base[t], e), overlapped'["tools"])
          BY <2>1, <4>1, <4>3, AppendRepeats
        <4>5. \A u \in Appending("tools")' : ~ RepeatsIn(base[u], overlapped'["tools"])
          BY <2>3, <4>2 DEF NoRepeats
        <4>6. Consolidated(catalog["tools"])'
          BY <3>3, <4>4 DEF Consolidated, RepeatsIn
        <4>7. \A u \in Appending("tools")' : Consolidated(base[u])'
          BY <2>2, <4>5 DEF Consolidated, RepeatsIn
        <4> QED
          BY <3>1, <3>2, <4>6, <4>7 DEF NoRepeats
      <3>6. CASE ~ crossed[t] /\ Appending("tools") = {t}
        <4>1. overlapped'["tools"] = overlapped["tools"] \ {e}
          BY <1>5, <2>5, <3>6, Replacing DEF e
        <4>2. /\ base[t] = catalog["tools"]
              /\ Repeats(e.manifest, base[t]) => e.manifest.consolidates
              /\ ~ RepeatsIn(base[t], overlapped["tools"])
          BY <2>1, <3>4, <3>6 DEF NoRepeats, Consolidated
        <4>3. \A j \in DOMAIN base[t] : base[t][j] # e
          <5>1. e.manifest.id \notin Ids(base[t])
            BY <1>5, <2>1, Replacing DEF IdsDiffer
          <5> QED BY <5>1 DEF Ids
        <4>4. ~ RepeatsIn(base[t], overlapped'["tools"])
          BY <4>1, <4>2, <4>3 DEF RepeatsIn
        <4>5. ~ RepeatsIn(Append(base[t], e), overlapped'["tools"])
          BY <2>1, <4>2, <4>4, AppendRepeats
        <4>6. Consolidated(catalog["tools"])'
          BY <3>3, <4>5 DEF Consolidated, RepeatsIn
        <4>7. Appending("tools")' = {}
          BY <2>3, <3>6
        <4> QED
          BY <3>1, <4>6, <4>7 DEF NoRepeats
      <3> QED BY <3>5, <3>6
    <2> QED BY <2>1, <2>4, <2>5
  <1> QED
    BY <1>1, <1>2, <1>3, <1>4, <1>5, StepCases

\* A connector is enabled with the operations some report let ship.
LEMMA StepGate ==
    ASSUME TypeOK, GateHolds, [Next]_vars
    PROVE  GateHolds' /\ gated \subseteq gated'
  <1> USE DEF Catalogs
  <1>1. CASE UNCHANGED registrationVars
    BY <1>1 DEF GateHolds, EnabledGated, Gated, Entry, registrationVars
  <1>2. CASE RunReleaseGate
    <2>1. /\ UNCHANGED <<catalog, at, request, base>>
          /\ gated \subseteq gated'
          /\ report'.verdict = "ship" => report' \in gated'
      BY <1>2 DEF RunReleaseGate
    <2>2. \A m : Gated(m) => Gated(m)'
      BY <2>1 DEF Gated
    <2> QED
      BY <2>1, <2>2 DEF GateHolds, EnabledGated, Entry
  <1>3. ASSUME NEW t \in Threads,
               Receive(t) \/ Validate(t) \/ CheckGate(t) \/ Record(t) \/ Refuse(t) \/ BreakOff(t)
        PROVE  GateHolds' /\ gated \subseteq gated'
    <2>1. /\ catalog' = catalog /\ gated' = gated /\ report' = report
          /\ at'[t] \notin {"replace", "record"}
          /\ \A u \in Threads \ {t} :
                at'[u] = at[u] /\ request'[u] = request[u] /\ base'[u] = base[u]
      BY <1>3, Aside
    <2>2. at'[t] = "read" => CheckGate(t)
      BY <1>3 DEF TypeOK, Receive, Validate, Record, Refuse, BreakOff, Leave, Move
    <2>3. ASSUME CheckGate(t), Entry(request[t]).enabled
          PROVE  Gated(request[t].manifest)
      <3>1. Ships(request[t])
        BY <2>3 DEF CheckGate, PassesGate
      <3> QED BY <3>1 DEF Ships, GateHolds, Gated
    <2>4. CheckGate(t) => request'[t] = request[t]
      BY DEF CheckGate
    <2>5. \A u \in Threads :
             at'[u] \in {"read", "replace", "record"} /\ Entry(request'[u]).enabled
             => Gated(request'[u].manifest)
      BY <2>1, <2>2, <2>3, <2>4 DEF GateHolds
    <2> QED
      BY <2>1, <2>5 DEF GateHolds, EnabledGated, Gated, Entry
  <1>4. ASSUME NEW t \in Threads, ReadCatalog(t)
        PROVE  GateHolds' /\ gated \subseteq gated'
    <2>1. /\ UNCHANGED <<catalog, report, request, gated>>
          /\ at[t] = "read" /\ at'[t] = "replace"
          /\ base'[t] = catalog[request[t].catalog]
          /\ \A u \in Threads \ {t} : at'[u] = at[u] /\ base'[u] = base[u]
      <3>1. gated' = gated
        BY <1>4 DEF ReadCatalog
      <3> QED BY <1>4, <3>1, Reading
    <2> QED
      BY <2>1 DEF GateHolds, EnabledGated, Gated, Entry
  <1>5. ASSUME NEW t \in Threads, ReplaceCatalog(t)
        PROVE  GateHolds' /\ gated \subseteq gated'
    <2> DEFINE e == Entry(request[t])
    <2>1. /\ request[t].catalog \in Catalogs /\ e \in Entries
          /\ e.manifest = request[t].manifest /\ base[t] \in Seq(Entries)
      BY <1>5, Held DEF ReplaceCatalog
    <2>2. /\ UNCHANGED <<report, request, base, gated>>
          /\ at[t] = "replace" /\ at'[t] = "record"
          /\ \A u \in Threads \ {t} : at'[u] = at[u]
      BY <1>5, Replacing
    <2>3. EnabledGated(catalog'["connectors"])
      <3>1. CASE request[t].catalog = "tools"
        <4>1. catalog'["connectors"] = catalog["connectors"]
          BY <1>5, <3>1, Replacing
        <4> QED BY <4>1 DEF GateHolds
      <3>2. CASE request[t].catalog = "connectors"
        <4>1. catalog'["connectors"] = Append(base[t], e)
          BY <1>5, <3>2, Replacing
        <4>2. EnabledGated(base[t]) /\ (e.enabled => Gated(e.manifest))
          BY <2>1, <2>2, <3>2 DEF GateHolds
        <4> HIDE DEF e
        <4>3. EnabledGated(Append(base[t], e))
          BY <2>1, <4>2, AppendHolds DEF EnabledGated
        <4> QED BY <4>1, <4>3
      <3> QED BY <2>1, <3>1, <3>2
    <2>4. \A m : Gated(m) <=> Gated(m)'
      BY <2>2 DEF Gated
    <2>5. EnabledGated(catalog["connectors"])'
      BY <2>3, <2>4 DEF EnabledGated
    <2> QED
      BY <2>2, <2>4, <2>5 DEF GateHolds, EnabledGated, Entry
  <1> QED
    BY <1>1, <1>2, <1>3, <1>4, <1>5, StepCases

\* What is allowed is an operation of an enabled connector, as it was loaded.
LEMMA StepAllowed ==
    ASSUME TypeOK, GateHolds, AllowedWasGated, gated \subseteq gated', [Next]_vars
    PROVE  AllowedWasGated'
  <1>1. ASSUME NEW c \in Callers, Allow(c), UNCHANGED registrationVars
        PROVE  AllowedWasGated'
    <2> DEFINE q == call[c]
               entries == catalog["connectors"]
               e == Loaded(q, entries)
    <2>1. decision' = [decision EXCEPT ![c] = [outcome |-> "allowed", of |-> q]]
      BY <1>1 DEF Allow, Decide
    <2>2. Invocable(q, entries)
      BY <1>1 DEF Allow, Allowed, Permitted
    <2>3. PICK i \in DOMAIN entries : e = entries[i] /\ e.manifest.id = q.connector
      <3>1. \E i \in DOMAIN entries : entries[i].manifest.id = q.connector
        BY <2>2 DEF Invocable, Found
      <3> QED BY <3>1 DEF Loaded
    <2>4. e.enabled /\ q.operation \in DOMAIN e.manifest.operations
      BY <2>2 DEF Invocable
    <2>5. PICK g \in gated : g.connector = q.connector /\ q.operation \in g.operations
      BY <2>3, <2>4 DEF GateHolds, EnabledGated, Gated
    <2> HIDE DEF q
    <2>6. ASSUME NEW d \in Callers, decision'[d] # None, decision'[d].outcome = "allowed"
          PROVE  \E h \in gated : h.connector = decision'[d].of.connector
                                  /\ decision'[d].of.operation \in h.operations
      <3>1. CASE d = c
        <4>1. decision'[d].of = q
          BY <2>1, <3>1 DEF TypeOK
        <4> QED BY <2>5, <4>1
      <3>2. CASE d # c
        <4>1. decision'[d] = decision[d]
          BY <2>1, <3>2 DEF TypeOK
        <4> QED BY <2>6, <4>1 DEF AllowedWasGated
      <3> QED BY <3>1, <3>2
    <2> QED BY <2>6 DEF AllowedWasGated
  <1>2. ASSUME \A c \in Callers : decision'[c] = decision[c] \/ decision'[c] = None
                                  \/ decision'[c].outcome # "allowed"
        PROVE  AllowedWasGated'
    BY <1>2 DEF AllowedWasGated
  <1>3. ASSUME NEW c \in Callers,
               StartInvocation(c) \/ MediationRaises(c) \/ Deny(c) \/ WriteDecision(c)
        PROVE  AllowedWasGated'
    <2>1. \A d \in Callers : decision'[d] = decision[d] \/ decision'[d] = None
                             \/ decision'[d].outcome # "allowed"
      BY <1>3 DEF TypeOK, StartInvocation, MediationRaises, Deny, WriteDecision, Decide
    <2> QED BY <1>2, <2>1
  <1>4. CASE UNCHANGED invocationVars
    BY <1>2, <1>4 DEF invocationVars
  <1>5. CASE InvocationStep /\ UNCHANGED registrationVars
    BY <1>1, <1>3, <1>5 DEF InvocationStep
  <1> QED
    BY <1>4, <1>5 DEF Next, vars

-----------------------------------------------------------------------------
LEMMA InitInvariant == Init => IInv
  <1> SUFFICES ASSUME Init PROVE IInv
    OBVIOUS
  <1> USE DEF Init, RegistrationInit, InvocationInit, Catalogs
  <1>1. TypeOK
    <2>1. <<>> \in Seq(Entries) /\ SeededTools \in Seq(Entries)
      BY CatalogAssumption
    <2>2. catalog \in [Catalogs -> Seq(Entries)] /\ base \in [Threads -> Seq(Entries)]
      BY <2>1
    <2> QED BY <2>2 DEF TypeOK
  <1>2. IdsDiffer
    <2>1. Loads(SeededTools) /\ Loads(<<>>)
      BY CatalogAssumption DEF Loads
    <2> QED BY <2>1 DEF IdsDiffer
  <1>3. MadeStays
    BY DEF MadeStays, Made
  <1>4. NoRepeats
    <2>1. ~ RepeatsIn(SeededTools, overlapped["tools"])
      BY CatalogAssumption DEF RepeatsIn
    <2> QED BY <2>1 DEF NoRepeats, Consolidated, Appending, Validated
  <1>5. GateHolds
    BY CatalogAssumption DEF GateHolds, EnabledGated
  <1>6. AllowedWasGated
    BY DEF AllowedWasGated
  <1> QED BY <1>1, <1>2, <1>3, <1>4, <1>5, <1>6 DEF IInv

LEMMA StepInvariant == IInv /\ [Next]_vars => IInv'
  <1> SUFFICES ASSUME IInv, [Next]_vars PROVE IInv'
    OBVIOUS
  <1>1. TypeOK /\ IdsDiffer /\ MadeStays /\ NoRepeats /\ GateHolds /\ AllowedWasGated
    BY DEF IInv
  <1>2. GateHolds' /\ gated \subseteq gated'
    BY <1>1, StepGate
  <1> QED
    BY <1>1, <1>2, StepTypes, StepIds, StepMade, StepRepeats, StepAllowed DEF IInv

\* The invariant of every behaviour of registrations, reports and invocations.
THEOREM GovernanceInvariant == Spec => []IInv
  BY InitInvariant, StepInvariant, PTL DEF Spec

\* No variable leaves the values the code can store: register.py, invoke.py.
THEOREM GovernanceTypes == Spec => []TypeOK
  <1>1. IInv => TypeOK
    BY DEF IInv
  <1> QED BY <1>1, GovernanceInvariant, PTL

\* However many registrations overlap, no catalog lists an id twice, so that
\* both stay loadable: append_runtime_connector, append_runtime_tool.
THEOREM CatalogsStayLoadable == Spec => []CatalogsLoad
  <1>1. IInv => CatalogsLoad
    BY DEF IInv, IdsDiffer, CatalogsLoad
  <1> QED BY <1>1, GovernanceInvariant, PTL

\* What a record calls installed leaves the catalog only when registrations of
\* the same catalog overlap: register.py, append_runtime_connector.
THEOREM InstalledEntriesStay == Spec => []InstalledStays
  <1>1. IInv => InstalledStays
    BY DEF IInv, MadeStays, Made, InstalledStays
  <1> QED BY <1>1, GovernanceInvariant, PTL

\* A tool repeats a command without a plan only when its registration overlapped
\* another one: tools/catalog.py, validate_tool_admission_manifest.
THEOREM RepeatsStayConsolidated == Spec => []RepeatsAreConsolidated
  <1>1. IInv => RepeatsAreConsolidated
    BY DEF IInv, NoRepeats, Consolidated, RepeatsIn, RepeatsAreConsolidated
  <1> QED BY <1>1, GovernanceInvariant, PTL

\* No operation is allowed that no release gate ever let ship: mediator.py,
\* load_enabled_connector; register.py, validate_release_gate_report.
THEOREM AllowedOperationsWereGated == Spec => []AllowedWasGated
  <1>1. IInv => AllowedWasGated
    BY DEF IInv
  <1> QED BY <1>1, GovernanceInvariant, PTL

=============================================================================
