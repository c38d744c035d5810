------------------------ MODULE SkillLifecycle_proofs ------------------------
(***************************************************************************)
(* One request at a time: what a rolled-back change of the skill registry  *)
(* leaves, that the registry loads whenever the next request may come, and *)
(* that the backups suffice wherever a change stops: for every set of      *)
(* skills, every batch, every bound on versions.                           *)
(***************************************************************************)
EXTENDS SkillLifecycle, TLAPS

\* The client sends a request once the one before it has ended.  The service
\* does not enforce it; with two threads the run skills_stale shows the registry
\* losing a promotion.
OneAtATime == \E t : Threads = {t}

Places == {"idle", "admitted", "install", "writeRegistry", "writeCases", "writeBody",
           "check", "report"} \cup Restoring

\* A manifest of skills.
Manifest(m, values) == m \in [DOMAIN m -> values] /\ DOMAIN m \subseteq Skills

Registry(f) ==
    /\ f = [registry |-> f.registry, cases |-> f.cases, bodies |-> f.bodies]
    /\ Manifest(f.registry, Entry)
    /\ Manifest(f.cases, 1..MaxVersion)
    /\ Manifest(f.bodies, 0..MaxVersion)

\* A thread has a request exactly while it is not idle.
ThreadShapes ==
    /\ at \in [Threads -> Places]
    /\ DOMAIN request = Threads
    /\ \A t \in Threads : request[t] = None \/ request[t] \in Requests
    /\ \A t \in Threads : (at[t] = "idle") <=> (request[t] = None)
    /\ DOMAIN snapshot = Threads /\ DOMAIN backup = Threads
    /\ installed \in [Threads -> Seq(Skills)]

Shapes ==
    /\ Registry(files) /\ Registry(ack)
    /\ ThreadShapes
    /\ disturbed \in BOOLEAN

\* What validation found of the request, said of the files as they were made.
Fits(r, registry, cases) ==
    \/ r.workflow = "register" /\ Target(r) \cap (DOMAIN registry \cup DOMAIN cases) = {}
    \/ r.workflow = "promote" /\ Target(r) \subseteq Active(registry)
    \/ /\ r.workflow = "update" /\ Target(r) \subseteq DOMAIN registry
       /\ \A s \in Target(r) : registry[s].version < MaxVersion
    \/ r.workflow = "deprecate" /\ Target(r) \subseteq Active(registry)

\* The state of each file: as the last successful request left it, or as r writes it.
RegistryOld == files.registry = ack.registry
RegistryNew(r) == files.registry = RegistryAfter(ack.registry, r)
CasesOld == files.cases = ack.cases
CasesNew(r) == files.cases = CasesAfter(ack.cases, r, NewVersion(ack.registry, r))

\* Bodies of skills not registered are never loaded: they may be anything.
BodiesOld(ids) ==
    \A s \in ids \cap DOMAIN ack.registry :
        s \in DOMAIN files.bodies /\ files.bodies[s] = ack.bodies[s]
BodiesNew(r) ==
    \A s \in Target(r) :
        s \in DOMAIN files.bodies /\ files.bodies[s] = NewVersion(ack.registry, r)

Read(t) == snapshot[t] = [registry |-> ack.registry, cases |-> ack.cases]
BackedUp(t) ==
    backup[t] = [registry |-> ack.registry, cases |-> ack.cases,
                 bodies |-> [s \in BodiesKept(request[t]) |-> ack.bodies[s]]]

\* Which files a request has replaced or brought back, place by place.
Progress(t) ==
    /\ at[t] \in {"idle", "admitted", "install", "writeRegistry", "restoreCases",
                  "restoreBodies"} => RegistryOld
    /\ at[t] \in {"writeCases", "writeBody", "check", "report"} => RegistryNew(request[t])
    /\ at[t] \in {"idle", "admitted", "install", "writeRegistry", "writeCases",
                  "restoreBodies"} => CasesOld
    /\ at[t] \in {"writeBody", "check", "report"} => CasesNew(request[t])
    /\ at[t] \in {"idle", "admitted", "install", "writeRegistry", "writeCases",
                  "writeBody"} => BodiesOld(Skills)
    /\ Changing(t) => BodiesOld(Skills \ BodiesKept(request[t]))
    /\ at[t] \in {"check", "report"} /\ RestoresBodies(request[t]) => BodiesNew(request[t])
    /\ at[t] \in {"writeRegistry", "writeCases"} /\ request[t].workflow = "register" =>
          BodiesNew(request[t])
    /\ at[t] = "report" => Usable(files)

\* What a request in progress holds, place by place.
Holds(t) ==
    /\ at[t] # "idle" => Fits(request[t], ack.registry, ack.cases) /\ Read(t)
    /\ Changing(t) => BackedUp(t)
    /\ at[t] # "idle" /\ ~RestoresCases(request[t]) => CasesOld
    /\ at[t] = "install" => request[t].workflow = "register"
    /\ at[t] = "writeCases" => WritesCases(request[t])
    /\ at[t] = "writeBody" => WritesBody(request[t])
    /\ at[t] = "restoreCases" => RestoresCases(request[t])
    /\ at[t] = "restoreBodies" => RestoresBodies(request[t])

\* The bodies a registration has put in place are the first of its batch.
Installing(t) ==
    /\ ~Changing(t) => installed[t] = <<>>
    /\ Changing(t) /\ request[t].workflow # "register" => installed[t] = <<>>
    /\ Changing(t) => ToSet(installed[t]) \subseteq Target(request[t])
    /\ at[t] = "install" =>
          /\ Len(installed[t]) <= Len(request[t].skills)
          /\ \A i \in 1..Len(installed[t]) :
                /\ installed[t][i] = request[t].skills[i]
                /\ installed[t][i] \in DOMAIN files.bodies
                /\ files.bodies[installed[t][i]] = 1

SkillInv ==
    /\ Shapes
    /\ Usable(ack)
    /\ disturbed => \A t \in Threads : at[t] = "idle"
    /\ ~disturbed => \A t \in Threads : Progress(t) /\ Holds(t) /\ Installing(t)

-----------------------------------------------------------------------------
(* The operators of the model.                                             *)

\* The elements of a sequence.
LEMMA Elements ==
    ASSUME NEW S, NEW q \in Seq(S)
    PROVE  /\ ToSet(q) = {q[i] : i \in 1..Len(q)}
           /\ ToSet(q) \subseteq S
<1>1. ToSet(q) = {q[i] : i \in 1..Len(q)}
    BY DEF ToSet
<1>2. \A i \in 1..Len(q) : q[i] \in S
    OBVIOUS
<1> QED BY <1>1, <1>2

LEMMA Singleton ==
    ASSUME NEW s \in Skills
    PROVE  <<s>> \in Seq(Skills) /\ Head(<<s>>) = s /\ ToSet(<<s>>) = {s}
<1>1. <<s>> \in Seq(Skills) /\ Head(<<s>>) = s /\ Len(<<s>>) = 1 /\ <<s>>[1] = s
    OBVIOUS
<1>2. ToSet(<<s>>) = {<<s>>[i] : i \in 1..1}
    BY <1>1, Elements
<1> QED BY <1>1, <1>2

\* What the requests of each workflow ask for.
LEMMA RequestFacts ==
    ASSUME NEW r \in Requests
    PROVE  /\ r.workflow \in {"register", "promote", "update", "deprecate"}
           /\ r.skills \in Seq(Skills) /\ Target(r) \subseteq Skills
           /\ r.workflow # "update" => r.parts = {}
           /\ r.workflow = "deprecate" => r.replacement \in Skills
           /\ r.workflow = "update" => Head(r.skills) \in Target(r)
<1>1. /\ r.workflow \in {"register", "promote", "update", "deprecate"}
      /\ r.workflow # "update" => r.parts = {}
      /\ r.workflow = "deprecate" => r.replacement \in Skills
      /\ r.skills \in Batches \/ \E s \in Skills : r.skills = <<s>>
      /\ r.workflow = "update" => \E s \in Skills : r.skills = <<s>>
    BY DEF Requests
<1>2. r.skills \in Seq(Skills)
    BY <1>1, Singleton, SkillAssumption
<1>3. Target(r) \subseteq Skills
    BY <1>2, Elements DEF Target
<1>4. r.workflow = "update" => Head(r.skills) \in Target(r)
    BY <1>1, Singleton DEF Target
<1> QED BY <1>1, <1>2, <1>3, <1>4

\* The new entries stand in front of the old ones.
LEMMA OverlayFacts ==
    ASSUME NEW f, NEW g
    PROVE  /\ DOMAIN Overlay(g, f) = DOMAIN g \cup DOMAIN f
           /\ \A s \in DOMAIN g : Overlay(g, f)[s] = g[s]
           /\ \A s \in DOMAIN f \ DOMAIN g : Overlay(g, f)[s] = f[s]
BY DEF Overlay

\* One value for every skill of ids, and the others as they were.
LEMMA OverrideFacts ==
    ASSUME NEW f, NEW ids, NEW v
    PROVE  /\ DOMAIN Override(f, ids, v) = ids \cup DOMAIN f
           /\ \A s \in ids : Override(f, ids, v)[s] = v
           /\ \A s \in DOMAIN f \ ids : Override(f, ids, v)[s] = f[s]
<1>1. DOMAIN [s \in ids |-> v] = ids /\ \A s \in ids : [x \in ids |-> v][s] = v
    OBVIOUS
<1> DEFINE g == [s \in ids |-> v]
<1>2. DOMAIN g = ids /\ \A s \in ids : g[s] = v
    BY <1>1
<1>3. Override(f, ids, v) = Overlay(g, f)
    BY DEF Override
<1>4. /\ DOMAIN Overlay(g, f) = DOMAIN g \cup DOMAIN f
      /\ \A s \in DOMAIN g : Overlay(g, f)[s] = g[s]
      /\ \A s \in DOMAIN f \ DOMAIN g : Overlay(g, f)[s] = f[s]
    BY OverlayFacts
<1> HIDE DEF g
<1> QED BY <1>2, <1>3, <1>4

\* A manifest is a function of its skills, whatever lies on top of it.
LEMMA OverlayManifest ==
    ASSUME NEW values, NEW f, NEW g, Manifest(f, values), Manifest(g, values)
    PROVE  Manifest(Overlay(g, f), values)
BY DEF Overlay, Manifest

LEMMA OverrideManifest ==
    ASSUME NEW values, NEW f, NEW ids \in SUBSET Skills, NEW v \in values, Manifest(f, values)
    PROVE  Manifest(Override(f, ids, v), values)
<1>1. Manifest([s \in ids |-> v], values)
    BY DEF Manifest
<1> QED BY <1>1, OverlayManifest DEF Override

\* A change of an entry is an entry.
LEMMA ChangedEntry ==
    ASSUME NEW r \in Requests, r.workflow # "register", NEW entry \in Entry,
           r.workflow = "update" => entry.version < MaxVersion
    PROVE  Changed(entry, r) \in Entry
<1>1. r.workflow \in {"promote", "update", "deprecate"}
    BY RequestFacts
<1>2. CASE r.workflow = "promote"
    BY <1>2 DEF Changed, Promoted, Entry
<1>3. CASE r.workflow = "update"
    <2>1. entry.version + 1 \in 1..MaxVersion
        BY <1>3, SkillAssumption DEF Entry
    <2> QED BY <1>3, <2>1 DEF Changed, Updated, Bumped, Entry
<1>4. CASE r.workflow = "deprecate"
    BY <1>4, RequestFacts DEF Changed, Deprecated, Entry
<1> QED BY <1>1, <1>2, <1>3, <1>4

\* skills.json after a request holds the entries of before and the request's.
LEMMA RegistryManifest ==
    ASSUME NEW r \in Requests, NEW registry, NEW cases, Manifest(registry, Entry),
           Fits(r, registry, cases)
    PROVE  /\ Manifest(RegistryAfter(registry, r), Entry)
           /\ DOMAIN RegistryAfter(registry, r) = DOMAIN registry \cup Target(r)
<1>1. CASE r.workflow = "register"
    <2>1. Draft \in Entry
        BY SkillAssumption DEF Draft, Entry
    <2>2. RegistryAfter(registry, r) = Override(registry, Target(r), Draft)
        BY <1>1 DEF RegistryAfter
    <2>3. Target(r) \in SUBSET Skills
        BY RequestFacts
    <2>4. Manifest(Override(registry, Target(r), Draft), Entry)
        BY <2>1, <2>3, OverrideManifest
    <2>5. DOMAIN Override(registry, Target(r), Draft) = Target(r) \cup DOMAIN registry
        BY OverrideFacts
    <2> QED BY <2>2, <2>4, <2>5
<1>2. CASE r.workflow # "register"
    <2>1. Target(r) \subseteq DOMAIN registry
        BY <1>2 DEF Fits, Active
    <2>2. \A s \in DOMAIN registry : registry[s] \in Entry
        BY DEF Manifest
    <2>3. \A s \in Target(r) : r.workflow = "update" => registry[s].version < MaxVersion
        BY <1>2 DEF Fits
    <2>4. \A s \in Target(r) : Changed(registry[s], r) \in Entry
        BY <1>2, <2>1, <2>2, <2>3, ChangedEntry
    <2>5. RegistryAfter(registry, r) = [s \in DOMAIN registry |->
              IF s \in Target(r) THEN Changed(registry[s], r) ELSE registry[s]]
        BY <1>2 DEF RegistryAfter
    <2> QED BY <2>1, <2>2, <2>4, <2>5 DEF Manifest
<1> QED BY <1>1, <1>2

\* The version a request writes exists.
LEMMA VersionExists ==
    ASSUME NEW r \in Requests, NEW registry, NEW cases, Manifest(registry, Entry),
           Fits(r, registry, cases), WritesCases(r) \/ WritesBody(r)
    PROVE  NewVersion(registry, r) \in 1..MaxVersion
<1>1. CASE r.workflow = "register"
    BY <1>1, SkillAssumption DEF NewVersion
<1>2. CASE r.workflow # "register"
    <2>1. r.workflow = "update"
        BY <1>2, RequestFacts DEF WritesCases, WritesBody
    <2>2. Head(r.skills) \in DOMAIN registry /\ registry[Head(r.skills)].version < MaxVersion
        BY <2>1, RequestFacts DEF Fits
    <2>3. registry[Head(r.skills)].version \in 1..MaxVersion
        BY <2>2 DEF Manifest, Entry
    <2> QED BY <1>2, <2>2, <2>3, SkillAssumption DEF NewVersion, Bumped
<1> QED BY <1>1, <1>2

\* skill_evals.json and the bodies after a request.
LEMMA CasesManifest ==
    ASSUME NEW r \in Requests, NEW registry, NEW cases, NEW old, Manifest(registry, Entry),
           Fits(r, registry, cases), Manifest(old, 1..MaxVersion)
    PROVE  Manifest(CasesAfter(old, r, NewVersion(registry, r)), 1..MaxVersion)
BY VersionExists, OverrideManifest, RequestFacts DEF CasesAfter

LEMMA BodiesManifest ==
    ASSUME NEW r \in Requests, NEW registry, NEW cases, NEW old, Manifest(registry, Entry),
           Fits(r, registry, cases), Manifest(old, 0..MaxVersion)
    PROVE  Manifest(BodiesAfter(old, r, NewVersion(registry, r)), 0..MaxVersion)
<1>1. WritesCases(r) \/ WritesBody(r) => NewVersion(registry, r) \in 0..MaxVersion
    BY VersionExists, SkillAssumption
<1>2. r.workflow = "register" => WritesCases(r)
    BY DEF WritesCases
<1> QED BY <1>1, <1>2, OverrideManifest, RequestFacts DEF BodiesAfter

-----------------------------------------------------------------------------
(* One file changes, or one thread moves.                                  *)

LEMMA SetRegistry ==
    ASSUME NEW f, NEW g, NEW m, Registry(f), g = [f EXCEPT !.registry = m]
    PROVE  /\ g.registry = m /\ g.cases = f.cases /\ g.bodies = f.bodies
           /\ Manifest(m, Entry) => Registry(g)
<1>1. g = [registry |-> m, cases |-> f.cases, bodies |-> f.bodies]
    BY DEF Registry
<1> QED BY <1>1 DEF Registry

LEMMA SetCases ==
    ASSUME NEW f, NEW g, NEW m, Registry(f), g = [f EXCEPT !.cases = m]
    PROVE  /\ g.registry = f.registry /\ g.cases = m /\ g.bodies = f.bodies
           /\ Manifest(m, 1..MaxVersion) => Registry(g)
<1>1. g = [registry |-> f.registry, cases |-> m, bodies |-> f.bodies]
    BY DEF Registry
<1> QED BY <1>1 DEF Registry

LEMMA SetBodies ==
    ASSUME NEW f, NEW g, NEW m, Registry(f), g = [f EXCEPT !.bodies = m]
    PROVE  /\ g.registry = f.registry /\ g.cases = f.cases /\ g.bodies = m
           /\ Manifest(m, 0..MaxVersion) => Registry(g)
<1>1. g = [registry |-> f.registry, cases |-> f.cases, bodies |-> m]
    BY DEF Registry
<1> QED BY <1>1 DEF Registry

\* A thread goes on with its request.
LEMMA GotoShapes ==
    ASSUME ThreadShapes, NEW t \in Threads, NEW p \in Places \ {"idle"}, Goto(t, p),
           at[t] # "idle", request' = request, DOMAIN snapshot' = Threads,
           DOMAIN backup' = Threads, installed' \in [Threads -> Seq(Skills)]
    PROVE  /\ ThreadShapes' /\ at'[t] = p /\ request'[t] \in Requests
<1>1. at' \in [Threads -> Places] /\ at'[t] = p /\ \A u \in Threads \ {t} : at'[u] = at[u]
    BY DEF ThreadShapes, Goto
<1> QED BY <1>1 DEF ThreadShapes

\* A thread ends its request.
LEMMA DoneShapes ==
    ASSUME ThreadShapes, NEW t \in Threads, Done(t)
    PROVE  /\ ThreadShapes' /\ at'[t] = "idle" /\ request'[t] = None
           /\ installed'[t] = <<>>
<1>1. at' \in [Threads -> Places] /\ at'[t] = "idle"
      /\ \A u \in Threads \ {t} : at'[u] = at[u]
    BY DEF ThreadShapes, Done, Goto, Places
<1>2. DOMAIN request' = Threads /\ request'[t] = None
      /\ \A u \in Threads \ {t} : request'[u] = request[u]
    BY DEF ThreadShapes, Done
<1>3. DOMAIN snapshot' = Threads /\ DOMAIN backup' = Threads
    BY DEF ThreadShapes, Done
<1>4. installed' \in [Threads -> Seq(Skills)] /\ installed'[t] = <<>>
    <2>1. <<>> \in Seq(Skills)
        OBVIOUS
    <2> QED BY <2>1 DEF ThreadShapes, Done
<1> QED BY <1>1, <1>2, <1>3, <1>4 DEF ThreadShapes

\* With one thread, the invariant is what it says of that thread.
LEMMA OneThread ==
    ASSUME OneAtATime, NEW t \in Threads, Shapes', Usable(ack'),
           disturbed' => at'[t] = "idle",
           ~disturbed' => Progress(t)' /\ Holds(t)' /\ Installing(t)'
    PROVE  SkillInv'
BY DEF SkillInv, OneAtATime

\* What the invariant says of the thread that takes a step.
LEMMA Stepping ==
    ASSUME SkillInv, NEW t \in Threads
    PROVE  /\ Registry(files) /\ Registry(ack) /\ ThreadShapes /\ disturbed \in BOOLEAN
           /\ Usable(ack)
           /\ disturbed => at[t] = "idle"
           /\ ~disturbed => Progress(t) /\ Holds(t) /\ Installing(t)
BY DEF SkillInv, Shapes

\* A step that leaves the files alone and does not end the request.
LEMMA FilesStay ==
    ASSUME SkillInv, OneAtATime, NEW t \in Threads, ThreadShapes', Undisturbed,
           files' = files,
           ~disturbed' => Progress(t)' /\ Holds(t)' /\ Installing(t)',
           disturbed => at'[t] = "idle"
    PROVE  SkillInv'
<1>1. Shapes' /\ Usable(ack')
    BY DEF SkillInv, Shapes, Undisturbed
<1> QED BY <1>1, OneThread DEF Undisturbed

-----------------------------------------------------------------------------
(* Up to the backups.                                                      *)

LEMMA InitStep ==
    ASSUME OneAtATime, Init
    PROVE  SkillInv
<1>1. Validated(1) \in Entry
    BY SkillAssumption DEF Validated, Entry
<1>2. Registry(SeededFiles)
    BY <1>1, SkillAssumption DEF Registry, SeededFiles, Manifest
<1>3. Usable(SeededFiles)
    BY DEF Usable, Valid, HasBody, LinksValid, Active, SeededFiles, Validated
<1>4. ThreadShapes
    <2>1. <<>> \in Seq(Skills)
        OBVIOUS
    <2> QED BY <2>1, RequestAssumption DEF ThreadShapes, Init, Places
<1>5. \A t \in Threads : Progress(t) /\ Holds(t) /\ Installing(t)
    <2> SUFFICES ASSUME NEW t \in Threads
                 PROVE  Progress(t) /\ Holds(t) /\ Installing(t)
        OBVIOUS
    <2>1. at[t] = "idle" /\ installed[t] = <<>> /\ files = ack /\ ~Changing(t)
        BY DEF Init, Changing
    <2>2. BodiesOld(Skills)
        BY <2>1, <1>3 DEF BodiesOld, Usable, Valid, HasBody, Init
    <2>3. Progress(t)
        BY <2>1, <2>2 DEF Progress, RegistryOld, CasesOld
    <2>4. Holds(t)
        BY <2>1 DEF Holds
    <2>5. Installing(t)
        BY <2>1 DEF Installing
    <2> QED BY <2>3, <2>4, <2>5
<1> QED BY <1>2, <1>3, <1>4, <1>5 DEF SkillInv, Shapes, Init

LEMMA ValidateStep ==
    ASSUME SkillInv, OneAtATime, NEW t \in Threads, NEW r \in Requests, Validate(t, r)
    PROVE  SkillInv'
<1>1. /\ Registry(files) /\ ThreadShapes /\ Progress(t) /\ Installing(t)
      /\ at[t] = "idle" /\ ~disturbed /\ files' = files /\ ack' = ack /\ Undisturbed
      /\ installed' = installed /\ backup' = backup
    BY Stepping DEF Validate, Undisturbed
<1>2. /\ at'[t] = "admitted" /\ request'[t] = r
      /\ snapshot'[t] = [registry |-> files.registry, cases |-> files.cases]
    BY <1>1 DEF Validate, ThreadShapes, Goto
<1>3. ThreadShapes'
    <2>1. at' \in [Threads -> Places] /\ \A u \in Threads \ {t} : at'[u] = at[u]
        BY <1>1 DEF Validate, ThreadShapes, Goto, Places
    <2>2. DOMAIN request' = Threads /\ \A u \in Threads \ {t} : request'[u] = request[u]
        BY <1>1 DEF Validate, ThreadShapes
    <2>3. DOMAIN snapshot' = Threads
        BY <1>1 DEF Validate, ThreadShapes
    <2> QED BY <1>1, <1>2, <2>1, <2>2, <2>3, RequestAssumption DEF ThreadShapes
<1>4. RegistryOld /\ CasesOld /\ BodiesOld(Skills) /\ installed[t] = <<>> /\ ~Changing(t)
    BY <1>1 DEF Progress, Installing, Changing
<1>5. Fits(r, ack.registry, ack.cases)
    BY <1>4 DEF Validate, Admitted, RegistrationAdmitted, PromotionAdmitted, UpdateAdmitted,
       DeprecationAdmitted, Fits, RegistryOld, CasesOld
<1>6. RegistryOld' /\ CasesOld' /\ BodiesOld(Skills)' /\ ~Changing(t)'
    BY <1>1, <1>2, <1>4 DEF RegistryOld, CasesOld, BodiesOld, Changing
<1>7. Progress(t)'
    BY <1>2, <1>6 DEF Progress
<1>8. Holds(t)'
    BY <1>1, <1>2, <1>4, <1>5, <1>6 DEF Holds, Read, RegistryOld, CasesOld
<1>9. Installing(t)'
    BY <1>1, <1>2, <1>4, <1>6 DEF Installing
<1> QED BY <1>1, <1>3, <1>7, <1>8, <1>9, FilesStay

\* Any end of a request that leaves the files as the successful ones made them.
LEMMA EndStep ==
    ASSUME SkillInv, OneAtATime, NEW t \in Threads, Done(t), Registry(files'), Registry(ack'),
           Usable(ack'), disturbed' \in BOOLEAN,
           ~disturbed' => RegistryOld' /\ CasesOld' /\ BodiesOld(Skills)'
    PROVE  SkillInv'
<1>1. ThreadShapes' /\ at'[t] = "idle" /\ installed'[t] = <<>>
    BY Stepping, DoneShapes
<1>2. ~Changing(t)'
    BY <1>1 DEF Changing
<1>3. ~disturbed' => Progress(t)'
    BY <1>1, <1>2 DEF Progress
<1>4. Holds(t)'
    BY <1>1, <1>2 DEF Holds
<1>5. Installing(t)'
    BY <1>1, <1>2 DEF Installing
<1>6. Shapes'
    BY <1>1 DEF Shapes
<1> QED BY <1>1, <1>3, <1>4, <1>5, <1>6, OneThread

LEMMA PreReportsFailStep ==
    ASSUME SkillInv, OneAtATime, NEW t \in Threads, PreReportsFail(t)
    PROVE  SkillInv'
<1>1. /\ Registry(files) /\ Registry(ack) /\ Usable(ack) /\ disturbed \in BOOLEAN
      /\ ~disturbed => Progress(t) /\ at[t] = "admitted"
      /\ files' = files /\ ack' = ack /\ disturbed' = disturbed /\ Done(t)
    BY Stepping DEF PreReportsFail, Undisturbed
<1>2. ~disturbed => RegistryOld /\ CasesOld /\ BodiesOld(Skills)
    BY <1>1 DEF Progress
<1>3. ~disturbed' => RegistryOld' /\ CasesOld' /\ BodiesOld(Skills)'
    BY <1>1, <1>2 DEF RegistryOld, CasesOld, BodiesOld
<1> QED BY <1>1, <1>3, EndStep

LEMMA UnhandledStep ==
    ASSUME SkillInv, OneAtATime, NEW t \in Threads, Unhandled(t)
    PROVE  SkillInv'
<1>1. /\ Registry(files) /\ Registry(ack) /\ Usable(ack) /\ Done(t)
      /\ files' = files /\ ack' = ack /\ disturbed' = TRUE
    BY Stepping DEF Unhandled
<1> QED BY <1>1, EndStep

LEMMA CrashStep ==
    ASSUME SkillInv, OneAtATime, Crash
    PROVE  SkillInv'
<1>1. PICK t \in Threads : at[t] # "idle"
    BY DEF Crash
<1>2. Threads = {t}
    BY DEF OneAtATime
<1>3. Done(t)
    BY <1>2, Stepping DEF Done, Goto, Crash, ThreadShapes
<1>4. /\ Registry(files) /\ Registry(ack) /\ Usable(ack) /\ disturbed' \in BOOLEAN
      /\ files' = files /\ ack' = ack
      /\ ~disturbed' => ~disturbed /\ ~Changing(t)
    BY Stepping DEF Crash
<1>5. ~disturbed' => at[t] = "admitted" /\ Progress(t)
    BY <1>1, <1>4, Stepping DEF Changing
<1>6. ~disturbed' => RegistryOld /\ CasesOld /\ BodiesOld(Skills)
    BY <1>5 DEF Progress
<1>7. ~disturbed' => RegistryOld' /\ CasesOld' /\ BodiesOld(Skills)'
    BY <1>4, <1>6 DEF RegistryOld, CasesOld, BodiesOld
<1> QED BY <1>3, <1>4, <1>7, EndStep

LEMMA BackUpStep ==
    ASSUME SkillInv, OneAtATime, NEW t \in Threads, BackUp(t)
    PROVE  SkillInv'
<1> DEFINE next == IF request[t].workflow = "register" THEN "install" ELSE "writeRegistry"
<1>1. /\ Registry(files) /\ ThreadShapes /\ at[t] = "admitted" /\ ~disturbed
      /\ Progress(t) /\ Holds(t) /\ Installing(t) /\ files' = files /\ ack' = ack
      /\ Undisturbed /\ request' = request /\ snapshot' = snapshot /\ installed' = installed
      /\ Goto(t, next)
    BY Stepping DEF BackUp, Undisturbed
<1>2. next \in Places \ {"idle"}
    BY DEF Places
<1>3. DOMAIN backup' = Threads
    BY <1>1 DEF BackUp, ThreadShapes
<1> HIDE DEF next
<1>4. ThreadShapes' /\ at'[t] = next /\ request[t] \in Requests
    BY <1>1, <1>2, <1>3, GotoShapes DEF ThreadShapes
<1>5. RegistryOld /\ CasesOld /\ BodiesOld(Skills) /\ installed[t] = <<>>
    BY <1>1 DEF Progress, Installing, Changing
<1>6. Fits(request[t], ack.registry, ack.cases) /\ Read(t)
    BY <1>1 DEF Holds
<1>7. BackedUp(t)'
    <2>1. backup'[t] = [registry |-> files.registry, cases |-> files.cases,
                        bodies |-> [s \in BodiesKept(request[t]) |-> files.bodies[s]]]
        BY <1>1 DEF BackUp, ThreadShapes
    <2>2. \A s \in BodiesKept(request[t]) : s \in Skills \cap DOMAIN ack.registry
        <3>1. WritesBody(request[t]) => request[t].workflow = "update"
            BY <1>4, RequestFacts DEF WritesBody
        <3>2. WritesBody(request[t]) => Target(request[t]) \subseteq DOMAIN ack.registry
            BY <1>6, <3>1 DEF Fits
        <3>3. Target(request[t]) \subseteq Skills
            BY <1>4, RequestFacts
        <3> QED BY <3>2, <3>3 DEF BodiesKept
    <2>3. \A s \in BodiesKept(request[t]) : files.bodies[s] = ack.bodies[s]
        BY <2>2, <1>5 DEF BodiesOld
    <2> QED BY <1>1, <1>5, <2>1, <2>3 DEF BackedUp, RegistryOld, CasesOld
<1>8. RegistryOld' /\ CasesOld' /\ BodiesOld(Skills)' /\ BodiesOld(Skills \ BodiesKept(request[t]))'
    BY <1>1, <1>5 DEF RegistryOld, CasesOld, BodiesOld
<1>9. /\ next = "install" => request[t].workflow = "register"
      /\ next = "writeRegistry" => request[t].workflow # "register"
      /\ next \in {"install", "writeRegistry"}
    BY DEF next
<1>10. Progress(t)'
    BY <1>1, <1>4, <1>8, <1>9 DEF Progress
<1>11. Holds(t)'
    BY <1>1, <1>4, <1>6, <1>7, <1>8, <1>9 DEF Holds, Read
<1>12. Installing(t)'
    <2>1. ToSet(<<>>) = {} /\ Len(<<>>) = 0
        BY DEF ToSet
    <2>2. Len(request[t].skills) \in Nat
        BY <1>4, RequestFacts
    <2> QED BY <1>1, <1>4, <1>5, <1>9, <2>1, <2>2 DEF Installing
<1> QED BY <1>1, <1>4, <1>10, <1>11, <1>12, FilesStay

-----------------------------------------------------------------------------
(* Installing the bodies of a registration.                                *)

\* A request in progress: what the invariant says of it.
LEMMA InProgress ==
    ASSUME SkillInv, NEW t \in Threads, at[t] # "idle"
    PROVE  /\ Registry(files) /\ Registry(ack) /\ Usable(ack) /\ ThreadShapes
           /\ disturbed = FALSE /\ Progress(t) /\ Holds(t) /\ Installing(t)
           /\ request[t] \in Requests /\ Fits(request[t], ack.registry, ack.cases) /\ Read(t)
           /\ Changing(t) => BackedUp(t)
BY Stepping DEF ThreadShapes, Holds, Changing

\* A registration changes bodies only of skills nobody has registered.
LEMMA InstallingApart ==
    ASSUME SkillInv, NEW t \in Threads, at[t] = "install"
    PROVE  /\ request[t].workflow = "register" /\ request[t].skills \in Seq(Skills)
           /\ Target(request[t]) \cap DOMAIN ack.registry = {}
           /\ Target(request[t]) \subseteq Skills
           /\ BodiesKept(request[t]) = {}
           /\ RegistryOld /\ CasesOld /\ BodiesOld(Skills) /\ BackedUp(t)
           /\ \A i \in 1..Len(request[t].skills) : request[t].skills[i] \in Target(request[t])
<1>1. /\ Holds(t) /\ Progress(t) /\ request[t] \in Requests
      /\ Fits(request[t], ack.registry, ack.cases) /\ BackedUp(t)
    BY InProgress DEF Changing
<1>2. request[t].workflow = "register"
    BY <1>1 DEF Holds
<1>3. Target(request[t]) \cap DOMAIN ack.registry = {}
    BY <1>1, <1>2 DEF Fits
<1>4. BodiesKept(request[t]) = {}
    BY <1>1, <1>2, RequestFacts DEF BodiesKept, WritesBody
<1>5. RegistryOld /\ CasesOld /\ BodiesOld(Skills)
    BY <1>1 DEF Progress
<1>6. request[t].skills \in Seq(Skills) /\ Target(request[t]) \subseteq Skills
    BY <1>1, RequestFacts
<1>7. \A i \in 1..Len(request[t].skills) : request[t].skills[i] \in Target(request[t])
    BY <1>6, Elements DEF Target
<1> QED BY <1>1, <1>2, <1>3, <1>4, <1>5, <1>6, <1>7

LEMMA InstallBodyStep ==
    ASSUME SkillInv, OneAtATime, NEW t \in Threads, InstallBody(t)
    PROVE  SkillInv'
<1> DEFINE q == installed[t]
           k == request[t].skills
           b == NextBody(t)
<1>1. /\ at[t] = "install" /\ Len(q) < Len(k) /\ b = k[Len(q) + 1]
      /\ files' = [files EXCEPT !.bodies = Override(files.bodies, {b}, 1)]
      /\ installed' = [installed EXCEPT ![t] = Append(q, b)]
      /\ at' = at /\ request' = request /\ snapshot' = snapshot /\ backup' = backup
      /\ ack' = ack /\ disturbed' = disturbed
    BY DEF InstallBody, BodiesMissing, NextBody, Undisturbed
<1>2. /\ Registry(files) /\ Registry(ack) /\ Usable(ack) /\ ThreadShapes
      /\ disturbed = FALSE /\ Progress(t) /\ Holds(t) /\ Installing(t)
    BY <1>1, InProgress
<1>3. q \in Seq(Skills)
    BY <1>2 DEF ThreadShapes
<1>4. /\ request[t].workflow = "register" /\ k \in Seq(Skills)
      /\ Target(request[t]) \cap DOMAIN ack.registry = {}
      /\ Target(request[t]) \subseteq Skills /\ BodiesKept(request[t]) = {}
      /\ RegistryOld /\ CasesOld /\ BodiesOld(Skills) /\ BackedUp(t)
      /\ \A i \in 1..Len(k) : k[i] \in Target(request[t])
    BY <1>1, InstallingApart
<1> HIDE DEF b
<1>5. b \in Target(request[t]) /\ b \in Skills
    <2>1. Len(q) \in Nat /\ Len(k) \in Nat
        BY <1>3, <1>4
    <2>2. Len(q) + 1 \in 1..Len(k)
        BY <1>1, <2>1
    <2> QED BY <1>1, <1>4, <2>2
<1>6. /\ Registry(files') /\ files'.registry = files.registry /\ files'.cases = files.cases
      /\ files'.bodies = Override(files.bodies, {b}, 1)
    <2>1. Manifest(Override(files.bodies, {b}, 1), 0..MaxVersion)
        <3>1. {b} \in SUBSET Skills /\ 1 \in 0..MaxVersion
            BY <1>5, SkillAssumption
        <3>2. Manifest(files.bodies, 0..MaxVersion)
            BY <1>2 DEF Registry
        <3> QED BY <3>1, <3>2, OverrideManifest
    <2> QED BY <1>1, <1>2, <2>1, SetBodies
<1>7. /\ DOMAIN files'.bodies = {b} \cup DOMAIN files.bodies /\ files'.bodies[b] = 1
      /\ \A s \in DOMAIN files.bodies \ {b} : files'.bodies[s] = files.bodies[s]
    <2> DEFINE after == Override(files.bodies, {b}, 1)
    <2>1. /\ DOMAIN after = {b} \cup DOMAIN files.bodies
          /\ \A s \in {b} : after[s] = 1
          /\ \A s \in DOMAIN files.bodies \ {b} : after[s] = files.bodies[s]
        BY DEF Override, Overlay
    <2>2. files'.bodies = after
        BY <1>6
    <2> HIDE DEF after
    <2> QED BY <2>1, <2>2
<1>8. /\ installed' \in [Threads -> Seq(Skills)] /\ installed'[t] = Append(q, b)
      /\ Append(q, b) \in Seq(Skills)
    BY <1>1, <1>2, <1>3, <1>5 DEF ThreadShapes
<1>9. ThreadShapes'
    BY <1>1, <1>2, <1>8 DEF ThreadShapes
<1>10. BodiesOld(Skills)' /\ BodiesOld(Skills \ BodiesKept(request[t]))'
    BY <1>1, <1>4, <1>5, <1>7 DEF BodiesOld
<1>11. Progress(t)'
    BY <1>1, <1>4, <1>6, <1>10 DEF Progress, RegistryOld, CasesOld
<1>12. Holds(t)'
    BY <1>1, <1>2, <1>4, <1>6 DEF Holds, CasesOld, Read, BackedUp, Changing
<1>13. Installing(t)'
    <2>1. /\ Len(q) <= Len(k) /\ ToSet(q) \subseteq Target(request[t])
          /\ \A i \in 1..Len(q) : q[i] = k[i] /\ q[i] \in DOMAIN files.bodies
                                  /\ files.bodies[q[i]] = 1
        BY <1>1, <1>2 DEF Installing, Changing
    <2>2. /\ Len(Append(q, b)) = Len(q) + 1 /\ Append(q, b)[Len(q) + 1] = b
          /\ \A i \in 1..Len(q) : Append(q, b)[i] = q[i]
          /\ Len(q) \in Nat /\ Len(k) \in Nat
        BY <1>3, <1>4, <1>5
    <2>3. \A i \in 1..(Len(q) + 1) :
              /\ Append(q, b)[i] = k[i] /\ Append(q, b)[i] \in DOMAIN files'.bodies
              /\ files'.bodies[Append(q, b)[i]] = 1
        <3> SUFFICES ASSUME NEW i \in 1..(Len(q) + 1)
                     PROVE  /\ Append(q, b)[i] = k[i] /\ Append(q, b)[i] \in DOMAIN files'.bodies
                            /\ files'.bodies[Append(q, b)[i]] = 1
            OBVIOUS
        <3>1. CASE i = Len(q) + 1
            BY <3>1, <1>1, <1>7, <2>2
        <3>2. CASE i \in 1..Len(q)
            BY <3>2, <1>7, <2>1, <2>2
        <3> QED BY <3>1, <3>2, <2>2
    <2>4. ToSet(Append(q, b)) \subseteq Target(request[t])
        <3>1. ToSet(Append(q, b)) = {Append(q, b)[i] : i \in 1..(Len(q) + 1)}
            BY <1>8, <2>2, Elements
        <3>2. \A i \in 1..(Len(q) + 1) : Append(q, b)[i] \in Target(request[t])
            <4>1. \A i \in 1..(Len(q) + 1) : i \in 1..Len(k)
                BY <1>1, <2>2
            <4> QED BY <4>1, <1>4, <2>3
        <3> QED BY <3>1, <3>2
    <2>5. Len(q) + 1 <= Len(k)
        BY <1>1, <2>2
    <2> QED BY <1>1, <1>4, <1>8, <2>2, <2>3, <2>4, <2>5 DEF Installing, Changing
<1>14. Shapes' /\ Usable(ack')
    BY <1>1, <1>2, <1>6, <1>9 DEF Shapes
<1> QED BY <1>1, <1>2, <1>11, <1>12, <1>13, <1>14, OneThread

LEMMA InstallFailsStep ==
    ASSUME SkillInv, OneAtATime, NEW t \in Threads, InstallFails(t)
    PROVE  SkillInv'
<1> DEFINE b == NextBody(t)
<1>1. /\ at[t] = "install"
      /\ \/ files' = files
         \/ b \notin DOMAIN files.bodies
            /\ files' = [files EXCEPT !.bodies = Override(files.bodies, {b}, 0)]
      /\ installed' = [installed EXCEPT ![t] = <<>>]
      /\ Goto(t, "restoreRegistry") /\ Len(installed[t]) < Len(request[t].skills)
      /\ request' = request /\ snapshot' = snapshot /\ backup' = backup
      /\ ack' = ack /\ disturbed' = disturbed
    BY DEF InstallFails, Undisturbed, BodiesMissing
<1>2. /\ Registry(files) /\ Registry(ack) /\ Usable(ack) /\ ThreadShapes
      /\ disturbed = FALSE /\ Progress(t) /\ Holds(t) /\ Installing(t)
    BY <1>1, InProgress
<1>3. /\ request[t].workflow = "register" /\ request[t].skills \in Seq(Skills)
      /\ Target(request[t]) \cap DOMAIN ack.registry = {}
      /\ Target(request[t]) \subseteq Skills /\ BodiesKept(request[t]) = {}
      /\ RegistryOld /\ CasesOld /\ BodiesOld(Skills) /\ BackedUp(t)
      /\ \A i \in 1..Len(request[t].skills) : request[t].skills[i] \in Target(request[t])
    BY <1>1, InstallingApart
<1>4. b \in Target(request[t])
    <2>1. installed[t] \in Seq(Skills)
        BY <1>2 DEF ThreadShapes
    <2>2. Len(installed[t]) + 1 \in 1..Len(request[t].skills)
        BY <1>1, <1>3, <2>1
    <2> QED BY <1>3, <2>2 DEF NextBody
<1> HIDE DEF b
<1>5. /\ Registry(files') /\ files'.registry = files.registry /\ files'.cases = files.cases
      /\ \A s \in DOMAIN files.bodies \ {b} :
            s \in DOMAIN files'.bodies /\ files'.bodies[s] = files.bodies[s]
    <2>1. CASE files' = files
        BY <2>1, <1>2
    <2>2. CASE files' = [files EXCEPT !.bodies = Override(files.bodies, {b}, 0)]
        <3>1. Manifest(Override(files.bodies, {b}, 0), 0..MaxVersion)
            <4>1. {b} \in SUBSET Skills /\ 0 \in 0..MaxVersion
                BY <1>3, <1>4, SkillAssumption
            <4>2. Manifest(files.bodies, 0..MaxVersion)
                BY <1>2 DEF Registry
            <4> QED BY <4>1, <4>2, OverrideManifest
        <3>2. /\ Registry(files') /\ files'.registry = files.registry
              /\ files'.cases = files.cases /\ files'.bodies = Override(files.bodies, {b}, 0)
            BY <1>2, <2>2, <3>1, SetBodies
        <3> DEFINE after == Override(files.bodies, {b}, 0)
        <3>3. /\ DOMAIN after = {b} \cup DOMAIN files.bodies
              /\ \A s \in DOMAIN files.bodies \ {b} : after[s] = files.bodies[s]
            BY DEF Override, Overlay
        <3>4. files'.bodies = after
            BY <3>2
        <3> HIDE DEF after
        <3> QED BY <3>2, <3>3, <3>4
    <2> QED BY <1>1, <2>1, <2>2
<1>6. /\ ThreadShapes' /\ at'[t] = "restoreRegistry" /\ installed'[t] = <<>>
    <2>1. installed' \in [Threads -> Seq(Skills)] /\ installed'[t] = <<>>
        <3>1. <<>> \in Seq(Skills)
            OBVIOUS
        <3> QED BY <3>1, <1>1, <1>2 DEF ThreadShapes
    <2>2. DOMAIN snapshot' = Threads /\ DOMAIN backup' = Threads
        BY <1>1, <1>2 DEF ThreadShapes
    <2>3. "restoreRegistry" \in Places \ {"idle"}
        BY DEF Places, Restoring
    <2> QED BY <1>1, <1>2, <2>1, <2>2, <2>3, GotoShapes
<1>7. BodiesOld(Skills \ BodiesKept(request[t]))'
    BY <1>1, <1>3, <1>4, <1>5 DEF BodiesOld
<1>8. Progress(t)'
    BY <1>1, <1>6, <1>7 DEF Progress
<1>9. Holds(t)'
    BY <1>1, <1>2, <1>3, <1>5, <1>6 DEF Holds, CasesOld, Read, BackedUp, Changing
<1>10. Installing(t)'
    <2>1. ToSet(<<>>) = {}
        BY DEF ToSet
    <2> QED BY <1>6, <2>1 DEF Installing
<1>11. Shapes' /\ Usable(ack')
    BY <1>1, <1>2, <1>5, <1>6 DEF Shapes
<1> QED BY <1>1, <1>2, <1>8, <1>9, <1>10, <1>11, OneThread

LEMMA ReadManifestsStep ==
    ASSUME SkillInv, OneAtATime, NEW t \in Threads, ReadManifests(t)
    PROVE  SkillInv'
<1>1. /\ at[t] = "install" /\ ~(Len(installed[t]) < Len(request[t].skills))
      /\ snapshot' = [snapshot EXCEPT ![t] =
            [registry |-> files.registry, cases |-> files.cases]]
      /\ Goto(t, "writeRegistry") /\ files' = files /\ request' = request
      /\ backup' = backup /\ installed' = installed /\ ack' = ack /\ disturbed' = disturbed
      /\ Undisturbed
    BY DEF ReadManifests, BodiesMissing, Undisturbed
<1>2. ThreadShapes /\ ~disturbed /\ Progress(t) /\ Holds(t) /\ Installing(t)
    BY <1>1, InProgress
<1>3. /\ request[t].workflow = "register" /\ request[t].skills \in Seq(Skills)
      /\ BodiesKept(request[t]) = {} /\ RegistryOld /\ CasesOld /\ BodiesOld(Skills)
      /\ BackedUp(t)
    BY <1>1, InstallingApart
<1>4. ThreadShapes' /\ at'[t] = "writeRegistry"
    <2>1. DOMAIN snapshot' = Threads /\ DOMAIN backup' = Threads
          /\ installed' \in [Threads -> Seq(Skills)]
        BY <1>1, <1>2 DEF ThreadShapes
    <2>2. "writeRegistry" \in Places \ {"idle"}
        BY DEF Places
    <2> QED BY <1>1, <1>2, <2>1, <2>2, GotoShapes
<1>5. Read(t)'
    BY <1>1, <1>2, <1>3 DEF Read, ThreadShapes, RegistryOld, CasesOld
<1>6. BodiesNew(request[t])'
    <2> DEFINE k == request[t].skills
               q == installed[t]
    <2>1. q \in Seq(Skills)
        BY <1>2 DEF ThreadShapes
    <2>2. Len(q) \in Nat /\ Len(k) \in Nat
        BY <1>3, <2>1
    <2>3. Len(q) = Len(k)
          /\ \A i \in 1..Len(q) : q[i] = k[i] /\ q[i] \in DOMAIN files.bodies
                                  /\ files.bodies[q[i]] = 1
        BY <1>1, <1>2, <2>2 DEF Installing
    <2>4. Target(request[t]) = {k[i] : i \in 1..Len(k)}
        BY <1>3, Elements DEF Target
    <2>5. NewVersion(ack.registry, request[t]) = 1
        BY <1>3 DEF NewVersion
    <2> QED BY <1>1, <2>3, <2>4, <2>5 DEF BodiesNew
<1>7. Progress(t)'
    BY <1>1, <1>3, <1>4, <1>6 DEF Progress, RegistryOld, CasesOld, BodiesOld
<1>8. Holds(t)'
    BY <1>1, <1>2, <1>3, <1>4, <1>5 DEF Holds, CasesOld, BackedUp, Changing
<1>9. Installing(t)'
    BY <1>1, <1>2, <1>3, <1>4 DEF Installing, Changing
<1> QED BY <1>1, <1>2, <1>4, <1>7, <1>8, <1>9, FilesStay

-----------------------------------------------------------------------------
(* The files are replaced and checked.                                     *)

\* A step of a change in progress that goes on to p and writes at most the files.
LEMMA KeptStep ==
    ASSUME SkillInv, OneAtATime, NEW t \in Threads, NEW p \in Places \ {"idle", "admitted"},
           at[t] \notin {"idle", "admitted"}, Goto(t, p), Kept
    PROVE  /\ Registry(files) /\ Registry(ack) /\ Usable(ack) /\ ThreadShapes
           /\ disturbed = FALSE /\ Progress(t) /\ Holds(t) /\ Installing(t)
           /\ request[t] \in Requests /\ Fits(request[t], ack.registry, ack.cases)
           /\ Read(t) /\ BackedUp(t)
           /\ ThreadShapes' /\ at'[t] = p /\ request' = request /\ ack' = ack
           /\ Read(t)' /\ BackedUp(t)'
           /\ p # "install" => Installing(t)'
           /\ (/\ Registry(files') /\ Progress(t)' /\ Installing(t)'
               /\ p = "install" => request[t].workflow = "register"
               /\ p = "writeCases" => WritesCases(request[t])
               /\ p = "writeBody" => WritesBody(request[t])
               /\ p = "restoreCases" => RestoresCases(request[t])
               /\ p = "restoreBodies" => RestoresBodies(request[t])
               /\ ~RestoresCases(request[t]) => CasesOld') => SkillInv'
<1>1. /\ Registry(files) /\ Registry(ack) /\ Usable(ack) /\ ThreadShapes
      /\ disturbed = FALSE /\ Progress(t) /\ Holds(t) /\ Installing(t)
      /\ request[t] \in Requests /\ Fits(request[t], ack.registry, ack.cases) /\ Read(t)
      /\ BackedUp(t)
    BY InProgress DEF Changing
<1>2. /\ request' = request /\ snapshot' = snapshot /\ backup' = backup
      /\ installed' = installed /\ ack' = ack /\ disturbed' = disturbed
    BY DEF Kept, Undisturbed
<1>3. ThreadShapes' /\ at'[t] = p
    <2>1. DOMAIN snapshot' = Threads /\ DOMAIN backup' = Threads
          /\ installed' \in [Threads -> Seq(Skills)]
        BY <1>1, <1>2 DEF ThreadShapes
    <2> QED BY <1>1, <1>2, <2>1, GotoShapes
<1>4. Read(t)' /\ BackedUp(t)'
    BY <1>1, <1>2 DEF Read, BackedUp
<1>5. p # "install" => Installing(t)'
    BY <1>1, <1>2, <1>3 DEF Installing, Changing
<1>6. ASSUME Registry(files'), Progress(t)', Installing(t)',
             p = "install" => request[t].workflow = "register",
             p = "writeCases" => WritesCases(request[t]),
             p = "writeBody" => WritesBody(request[t]),
             p = "restoreCases" => RestoresCases(request[t]),
             p = "restoreBodies" => RestoresBodies(request[t]),
             ~RestoresCases(request[t]) => CasesOld'
      PROVE  SkillInv'
    <2>1. Holds(t)'
        BY <1>1, <1>2, <1>3, <1>4, <1>6 DEF Holds
    <2>2. Shapes' /\ Usable(ack')
        BY <1>1, <1>2, <1>3, <1>6 DEF Shapes
    <2> QED BY <1>1, <1>2, <1>6, <2>1, <2>2, OneThread
<1> QED BY <1>1, <1>2, <1>3, <1>4, <1>5, <1>6

LEMMA WriteRegistryStep ==
    ASSUME SkillInv, OneAtATime, NEW t \in Threads, WriteRegistry(t)
    PROVE  SkillInv'
<1> DEFINE r == request[t]
           p == IF WritesCases(r) THEN "writeCases"
                ELSE IF WritesBody(r) THEN "writeBody" ELSE "check"
<1>1. /\ at[t] = "writeRegistry" /\ Goto(t, p) /\ Kept
      /\ files' = [files EXCEPT !.registry = RegistryAfter(snapshot[t].registry, r)]
    BY DEF WriteRegistry
<1>2. p \in Places \ {"idle", "admitted"}
    BY DEF Places
<1>3. /\ p \in {"writeCases", "writeBody", "check"}
      /\ p = "writeCases" <=> WritesCases(r)
      /\ p = "writeBody" => WritesBody(r) /\ ~WritesCases(r)
      /\ p = "check" => ~WritesBody(r) /\ ~WritesCases(r)
    OBVIOUS
<1> HIDE DEF p
<1>4. /\ Registry(files) /\ Registry(ack) /\ Progress(t) /\ Holds(t) /\ r \in Requests
      /\ Fits(r, ack.registry, ack.cases) /\ Read(t)
      /\ at'[t] = p /\ request' = request /\ ack' = ack /\ Installing(t)'
    BY <1>1, <1>2, <1>3, KeptStep
<1>5. RegistryOld /\ CasesOld /\ BodiesOld(Skills) /\ BodiesOld(Skills \ BodiesKept(r))
      /\ (r.workflow = "register" => BodiesNew(r))
    BY <1>1, <1>4 DEF Progress, Changing
<1>6. /\ Registry(files') /\ files'.cases = files.cases /\ files'.bodies = files.bodies
      /\ files'.registry = RegistryAfter(ack.registry, r)
    <2>1. snapshot[t].registry = ack.registry
        BY <1>4 DEF Read
    <2>2. Manifest(RegistryAfter(ack.registry, r), Entry)
        BY <1>4, RegistryManifest DEF Registry
    <2> QED BY <1>1, <1>4, <2>1, <2>2, SetRegistry
<1>7. RegistryNew(r)' /\ CasesOld' /\ BodiesOld(Skills)' /\ BodiesOld(Skills \ BodiesKept(r))'
    BY <1>4, <1>5, <1>6 DEF RegistryNew, CasesOld, BodiesOld
<1>8. ~WritesCases(r) => CasesNew(r)'
    BY <1>4, <1>7 DEF CasesNew, CasesOld, CasesAfter
<1>9. r.workflow = "register" => WritesCases(r) /\ BodiesNew(r)'
    BY <1>4, <1>5, <1>6 DEF WritesCases, BodiesNew
<1>10. Progress(t)'
    BY <1>3, <1>4, <1>7, <1>8, <1>9 DEF Progress, RestoresBodies, RegistryNew, CasesNew
<1> QED BY <1>1, <1>2, <1>3, <1>4, <1>6, <1>7, <1>10, KeptStep

LEMMA WriteCasesStep ==
    ASSUME SkillInv, OneAtATime, NEW t \in Threads, WriteCases(t)
    PROVE  SkillInv'
<1> DEFINE r == request[t]
           p == IF WritesBody(r) THEN "writeBody" ELSE "check"
<1>1. /\ at[t] = "writeCases" /\ Goto(t, p) /\ Kept
      /\ files' = [files EXCEPT !.cases = CasesAfter(snapshot[t].cases, r, Version(t))]
    BY DEF WriteCases
<1>2. p \in Places \ {"idle", "admitted"}
    BY DEF Places
<1>3. /\ p \in {"writeBody", "check"}
      /\ p = "writeBody" <=> WritesBody(r)
    OBVIOUS
<1> HIDE DEF p
<1>4. /\ Registry(files) /\ Registry(ack) /\ Progress(t) /\ Holds(t) /\ r \in Requests
      /\ Fits(r, ack.registry, ack.cases) /\ Read(t)
      /\ at'[t] = p /\ request' = request /\ ack' = ack /\ Installing(t)'
    BY <1>1, <1>2, <1>3, KeptStep
<1>5. RegistryNew(r) /\ BodiesOld(Skills) /\ BodiesOld(Skills \ BodiesKept(r))
      /\ (r.workflow = "register" => BodiesNew(r)) /\ WritesCases(r)
    BY <1>1, <1>4 DEF Progress, Changing, Holds
<1>6. /\ Registry(files') /\ files'.registry = files.registry /\ files'.bodies = files.bodies
      /\ files'.cases = CasesAfter(ack.cases, r, NewVersion(ack.registry, r))
    <2>1. snapshot[t].cases = ack.cases /\ Version(t) = NewVersion(ack.registry, r)
        BY <1>4 DEF Read, Version
    <2>2. Manifest(CasesAfter(ack.cases, r, NewVersion(ack.registry, r)), 1..MaxVersion)
        BY <1>4, CasesManifest DEF Registry
    <2> QED BY <1>1, <1>4, <2>1, <2>2, SetCases
<1>7. RegistryNew(r)' /\ CasesNew(r)' /\ BodiesOld(Skills)' /\ BodiesOld(Skills \ BodiesKept(r))'
      /\ (r.workflow = "register" => BodiesNew(r)')
    BY <1>4, <1>5, <1>6 DEF RegistryNew, CasesNew, BodiesOld, BodiesNew
<1>8. Progress(t)'
    BY <1>3, <1>4, <1>7 DEF Progress, RestoresBodies, RegistryNew, CasesNew
<1>9. RestoresCases(r)
    BY <1>4, <1>5, RequestFacts DEF RestoresCases, WritesCases
<1> QED BY <1>1, <1>2, <1>3, <1>4, <1>6, <1>8, <1>9, KeptStep

LEMMA WriteBodyStep ==
    ASSUME SkillInv, OneAtATime, NEW t \in Threads, WriteBody(t)
    PROVE  SkillInv'
<1> DEFINE r == request[t]
<1>1. /\ at[t] = "writeBody" /\ Goto(t, "check") /\ Kept
      /\ files' = [files EXCEPT !.bodies = BodiesAfter(files.bodies, r, Version(t))]
      /\ "check" \in Places \ {"idle", "admitted"}
    BY DEF WriteBody, Places
<1>2. /\ Registry(files) /\ Registry(ack) /\ Progress(t) /\ Holds(t) /\ r \in Requests
      /\ Fits(r, ack.registry, ack.cases) /\ Read(t)
      /\ at'[t] = "check" /\ request' = request /\ ack' = ack /\ Installing(t)'
    BY <1>1, KeptStep
<1>3. RegistryNew(r) /\ CasesNew(r) /\ BodiesOld(Skills) /\ WritesBody(r)
    BY <1>1, <1>2 DEF Progress, Holds
<1>4. /\ Registry(files') /\ files'.registry = files.registry /\ files'.cases = files.cases
      /\ files'.bodies = Override(files.bodies, Target(r), NewVersion(ack.registry, r))
    <2>1. Version(t) = NewVersion(ack.registry, r)
        BY <1>2 DEF Read, Version
    <2>2. Manifest(BodiesAfter(files.bodies, r, NewVersion(ack.registry, r)), 0..MaxVersion)
        BY <1>2, BodiesManifest DEF Registry
    <2>3. BodiesAfter(files.bodies, r, NewVersion(ack.registry, r))
              = Override(files.bodies, Target(r), NewVersion(ack.registry, r))
        BY <1>3 DEF BodiesAfter
    <2> QED BY <1>1, <1>2, <2>1, <2>2, <2>3, SetBodies
<1>5. /\ \A s \in Target(r) : s \in DOMAIN files'.bodies
                              /\ files'.bodies[s] = NewVersion(ack.registry, r)
      /\ \A s \in DOMAIN files.bodies \ Target(r) :
            s \in DOMAIN files'.bodies /\ files'.bodies[s] = files.bodies[s]
    BY <1>4 DEF Override, Overlay
<1>6. RegistryNew(r)' /\ CasesNew(r)' /\ BodiesNew(r)' /\ BodiesOld(Skills \ BodiesKept(r))'
    BY <1>2, <1>3, <1>4, <1>5 DEF RegistryNew, CasesNew, BodiesNew, BodiesOld, BodiesKept
<1>7. Progress(t)'
    BY <1>2, <1>6 DEF Progress, RegistryNew, CasesNew, BodiesNew
<1>8. RestoresCases(r)
    BY <1>2, <1>3, RequestFacts DEF RestoresCases, WritesBody
<1> QED BY <1>1, <1>2, <1>4, <1>7, <1>8, KeptStep

\* A failure is followed by the rollback; no file has changed.
LEMMA FailureStep ==
    ASSUME SkillInv, OneAtATime, NEW t \in Threads, Goto(t, "restoreRegistry"),
           files' = files, Kept, at[t] \notin {"idle", "admitted"}
    PROVE  SkillInv'
<1>1. "restoreRegistry" \in Places \ {"idle", "admitted"}
    BY DEF Places, Restoring
<1>2. /\ Registry(files) /\ Progress(t) /\ Holds(t) /\ request' = request /\ ack' = ack
      /\ at'[t] = "restoreRegistry" /\ Installing(t)'
    BY <1>1, KeptStep
<1>3. BodiesOld(Skills \ BodiesKept(request[t]))'
    BY <1>2 DEF Progress, Changing, BodiesOld
<1>4. Progress(t)'
    BY <1>2, <1>3 DEF Progress
<1>5. ~RestoresCases(request[t]) => CasesOld'
    BY <1>2 DEF Holds, CasesOld
<1> QED BY <1>1, <1>2, <1>4, <1>5, KeptStep

LEMMA CheckPassesStep ==
    ASSUME SkillInv, OneAtATime, NEW t \in Threads, CheckPasses(t)
    PROVE  SkillInv'
<1>1. /\ at[t] = "check" /\ Usable(files) /\ Goto(t, "report") /\ files' = files /\ Kept
      /\ "report" \in Places \ {"idle", "admitted"}
    BY DEF CheckPasses, Accepted, Places
<1>2. /\ Registry(files) /\ Progress(t) /\ Holds(t) /\ request' = request /\ ack' = ack
      /\ at'[t] = "report" /\ Installing(t)'
    BY <1>1, KeptStep
<1>3. Progress(t)'
    BY <1>1, <1>2 DEF Progress, RegistryNew, CasesNew, BodiesNew, BodiesOld, Changing
<1>4. ~RestoresCases(request[t]) => CasesOld'
    BY <1>1, <1>2 DEF Holds, CasesOld
<1> QED BY <1>1, <1>2, <1>3, <1>4, KeptStep

\* What the request asked for is what the files now hold: it counts as made.
LEMMA ReportStep ==
    ASSUME SkillInv, OneAtATime, NEW t \in Threads, Report(t)
    PROVE  SkillInv'
<1> DEFINE r == request[t]
           v == NewVersion(ack.registry, r)
<1>1. /\ at[t] = "report" /\ ack' = Applied(ack, r, Version(t)) /\ Done(t)
      /\ files' = files /\ disturbed' = disturbed
    BY DEF Report
<1>2. /\ Registry(files) /\ Registry(ack) /\ Usable(ack) /\ disturbed = FALSE /\ Progress(t)
      /\ Holds(t) /\ r \in Requests /\ Fits(r, ack.registry, ack.cases) /\ Read(t)
    BY <1>1, InProgress
<1>3. /\ RegistryNew(r) /\ CasesNew(r) /\ BodiesOld(Skills \ BodiesKept(r))
      /\ RestoresBodies(r) => BodiesNew(r)
    BY <1>1, <1>2 DEF Progress, Changing
<1>4. Usable(files)
    BY <1>1, <1>2 DEF Progress
<1>5. Version(t) = v
    BY <1>2 DEF Read, Version
<1>6. /\ ack'.registry = RegistryAfter(ack.registry, r)
      /\ ack'.cases = CasesAfter(ack.cases, r, v)
      /\ ack'.bodies = BodiesAfter(ack.bodies, r, v)
      /\ ack' = [registry |-> ack'.registry, cases |-> ack'.cases, bodies |-> ack'.bodies]
    BY <1>1, <1>5 DEF Applied
<1>7. Registry(ack')
    <2>1. Manifest(ack.registry, Entry) /\ Manifest(ack.cases, 1..MaxVersion)
          /\ Manifest(ack.bodies, 0..MaxVersion)
        BY <1>2 DEF Registry
    <2>2. Manifest(ack'.registry, Entry)
        BY <1>2, <1>6, <2>1, RegistryManifest
    <2>3. Manifest(ack'.cases, 1..MaxVersion)
        BY <1>2, <1>6, <2>1, CasesManifest
    <2>4. Manifest(ack'.bodies, 0..MaxVersion)
        BY <1>2, <1>6, <2>1, BodiesManifest
    <2> QED BY <1>6, <2>2, <2>3, <2>4 DEF Registry
<1>8. files.registry = ack'.registry /\ files.cases = ack'.cases
    BY <1>3, <1>6 DEF RegistryNew, CasesNew
<1>9. DOMAIN ack'.registry = DOMAIN ack.registry \cup Target(r)
    BY <1>2, <1>6, RegistryManifest DEF Registry
<1>10. \A s \in DOMAIN ack'.registry :
          /\ s \in DOMAIN files.bodies /\ s \in DOMAIN ack'.bodies
          /\ files.bodies[s] = ack'.bodies[s]
    <2> SUFFICES ASSUME NEW s \in DOMAIN ack'.registry
                 PROVE  /\ s \in DOMAIN files.bodies /\ s \in DOMAIN ack'.bodies
                        /\ files.bodies[s] = ack'.bodies[s]
        OBVIOUS
    <2>1. \A x \in DOMAIN ack.registry : x \in DOMAIN ack.bodies
        BY <1>2 DEF Usable, Valid, HasBody
    <2>2. s \in Skills
        BY <1>7 DEF Registry, Manifest
    <2>3. CASE RestoresBodies(r) /\ s \in Target(r)
        <3>1. ack'.bodies = Override(ack.bodies, Target(r), v)
            BY <1>6, <2>3 DEF BodiesAfter, RestoresBodies
        <3>2. s \in DOMAIN ack'.bodies /\ ack'.bodies[s] = v
            BY <2>3, <3>1 DEF Override, Overlay
        <3> QED BY <1>3, <2>3, <3>2 DEF BodiesNew
    <2>4. CASE RestoresBodies(r) /\ s \notin Target(r)
        <3>1. ack'.bodies = Override(ack.bodies, Target(r), v)
            BY <1>6, <2>4 DEF BodiesAfter, RestoresBodies
        <3>2. s \in DOMAIN ack.registry /\ s \in DOMAIN ack.bodies
            BY <1>9, <2>1, <2>4
        <3>3. s \in DOMAIN ack'.bodies /\ ack'.bodies[s] = ack.bodies[s]
            BY <2>4, <3>1, <3>2 DEF Override, Overlay
        <3> QED BY <1>3, <2>2, <2>4, <3>2, <3>3 DEF BodiesOld, BodiesKept
    <2>5. CASE ~RestoresBodies(r)
        <3>1. ack'.bodies = ack.bodies /\ BodiesKept(r) = {}
            BY <1>6, <2>5 DEF BodiesAfter, RestoresBodies, BodiesKept
        <3>2. Target(r) \subseteq DOMAIN ack.registry
            BY <1>2, <2>5 DEF Fits, RestoresBodies, Active
        <3>3. s \in DOMAIN ack.registry
            BY <1>9, <3>2
        <3> QED BY <1>3, <2>1, <2>2, <3>1, <3>3 DEF BodiesOld
    <2> QED BY <2>3, <2>4, <2>5
<1>11. Usable(ack')
    <2>1. \A s \in DOMAIN files.registry : HasBody(files, s) /\ s \in DOMAIN files.cases
        BY <1>4 DEF Usable, Valid
    <2>2. \A s \in DOMAIN ack'.registry : HasBody(ack', s)
        BY <1>8, <1>10, <2>1 DEF HasBody
    <2> QED BY <1>4, <1>8, <2>1, <2>2 DEF Usable, Valid
<1>12. RegistryOld' /\ CasesOld' /\ BodiesOld(Skills)'
    BY <1>1, <1>8, <1>10 DEF RegistryOld, CasesOld, BodiesOld
<1> QED BY <1>1, <1>2, <1>7, <1>11, <1>12, EndStep

-----------------------------------------------------------------------------
(* Rollback.                                                               *)

LEMMA RestoreRegistryStep ==
    ASSUME SkillInv, OneAtATime, NEW t \in Threads, RestoreRegistry(t)
    PROVE  SkillInv'
<1> DEFINE r == request[t]
<1>1. /\ at[t] = "restoreRegistry"
      /\ files' = [files EXCEPT !.registry = backup[t].registry]
    BY DEF RestoreRegistry
<1>2. /\ Registry(files) /\ Registry(ack) /\ Usable(ack) /\ disturbed = FALSE /\ Progress(t)
      /\ Holds(t) /\ r \in Requests /\ BackedUp(t)
    BY <1>1, InProgress DEF Changing
<1>3. BodiesOld(Skills \ BodiesKept(r)) /\ (~RestoresCases(r) => CasesOld)
    BY <1>1, <1>2 DEF Progress, Holds, Changing
<1>4. /\ Registry(files') /\ files'.registry = ack.registry
      /\ files'.cases = files.cases /\ files'.bodies = files.bodies
    <2>1. backup[t].registry = ack.registry /\ Manifest(ack.registry, Entry)
        BY <1>2 DEF BackedUp, Registry
    <2> QED BY <1>1, <1>2, <2>1, SetRegistry
<1>5. CASE RestoresCases(r)
    <2>1. /\ Goto(t, "restoreCases") /\ Kept
          /\ "restoreCases" \in Places \ {"idle", "admitted"}
        BY <1>5 DEF RestoreRegistry, Places, Restoring
    <2>2. /\ request' = request /\ ack' = ack /\ at'[t] = "restoreCases" /\ Installing(t)'
        BY <1>1, <2>1, KeptStep
    <2>3. RegistryOld' /\ BodiesOld(Skills \ BodiesKept(r))'
        BY <1>3, <1>4, <2>2 DEF RegistryOld, BodiesOld
    <2>4. Progress(t)'
        BY <2>2, <2>3 DEF Progress
    <2> QED BY <1>1, <1>4, <1>5, <2>1, <2>2, <2>4, KeptStep
<1>6. CASE ~RestoresCases(r)
    <2>1. Done(t) /\ ack' = ack /\ disturbed' = disturbed
        BY <1>6 DEF RestoreRegistry, Undisturbed
    <2>2. BodiesKept(r) = {}
        BY <1>2, <1>6, RequestFacts DEF RestoresCases, BodiesKept, WritesBody
    <2>3. RegistryOld' /\ CasesOld' /\ BodiesOld(Skills)'
        BY <1>3, <1>4, <1>6, <2>1, <2>2 DEF RegistryOld, CasesOld, BodiesOld
    <2> QED BY <1>2, <1>4, <2>1, <2>3, EndStep
<1> QED BY <1>5, <1>6

LEMMA RestoreCasesStep ==
    ASSUME SkillInv, OneAtATime, NEW t \in Threads, RestoreCases(t)
    PROVE  SkillInv'
<1> DEFINE r == request[t]
<1>1. /\ at[t] = "restoreCases"
      /\ files' = [files EXCEPT !.cases = backup[t].cases]
    BY DEF RestoreCases
<1>2. /\ Registry(files) /\ Registry(ack) /\ Usable(ack) /\ disturbed = FALSE /\ Progress(t)
      /\ Holds(t) /\ r \in Requests /\ BackedUp(t)
    BY <1>1, InProgress DEF Changing
<1>3. RegistryOld /\ BodiesOld(Skills \ BodiesKept(r)) /\ RestoresCases(r)
    BY <1>1, <1>2 DEF Progress, Holds, Changing
<1>4. /\ Registry(files') /\ files'.registry = files.registry
      /\ files'.cases = ack.cases /\ files'.bodies = files.bodies
    <2>1. backup[t].cases = ack.cases /\ Manifest(ack.cases, 1..MaxVersion)
        BY <1>2 DEF BackedUp, Registry
    <2> QED BY <1>1, <1>2, <2>1, SetCases
<1>5. CASE RestoresBodies(r)
    <2>1. /\ Goto(t, "restoreBodies") /\ Kept
          /\ "restoreBodies" \in Places \ {"idle", "admitted"}
        BY <1>5 DEF RestoreCases, Places, Restoring
    <2>2. /\ request' = request /\ ack' = ack /\ at'[t] = "restoreBodies" /\ Installing(t)'
        BY <1>1, <2>1, KeptStep
    <2>3. RegistryOld' /\ CasesOld' /\ BodiesOld(Skills \ BodiesKept(r))'
        BY <1>3, <1>4, <2>2 DEF RegistryOld, CasesOld, BodiesOld
    <2>4. Progress(t)'
        BY <2>2, <2>3 DEF Progress
    <2> QED BY <1>1, <1>3, <1>4, <1>5, <2>1, <2>2, <2>3, <2>4, KeptStep
<1>6. CASE ~RestoresBodies(r)
    <2>1. Done(t) /\ ack' = ack /\ disturbed' = disturbed
        BY <1>6 DEF RestoreCases, Undisturbed
    <2>2. BodiesKept(r) = {}
        BY <1>6 DEF RestoresBodies, BodiesKept
    <2>3. RegistryOld' /\ CasesOld' /\ BodiesOld(Skills)'
        BY <1>3, <1>4, <2>1, <2>2 DEF RegistryOld, CasesOld, BodiesOld
    <2> QED BY <1>2, <1>4, <2>1, <2>3, EndStep
<1> QED BY <1>5, <1>6

\* The copies come back, and only bodies the registration installed go.
LEMMA RestoreBodiesStep ==
    ASSUME SkillInv, OneAtATime, NEW t \in Threads, RestoreBodies(t)
    PROVE  SkillInv'
<1> DEFINE r == request[t]
           q == ToSet(installed[t])
           copies == backup[t].bodies
           rest == Without(files.bodies, q)
<1>1. /\ at[t] = "restoreBodies" /\ Done(t) /\ ack' = ack /\ disturbed' = disturbed
      /\ files' = [files EXCEPT !.bodies = Overlay(copies, rest)]
    BY DEF RestoreBodies, Undisturbed
<1>2. /\ Registry(files) /\ Registry(ack) /\ Usable(ack) /\ disturbed = FALSE /\ Progress(t)
      /\ Holds(t) /\ Installing(t) /\ r \in Requests /\ Fits(r, ack.registry, ack.cases)
      /\ BackedUp(t)
    BY <1>1, InProgress DEF Changing
<1>3. RegistryOld /\ CasesOld /\ BodiesOld(Skills \ BodiesKept(r))
    BY <1>1, <1>2 DEF Progress, Changing
<1>4. copies = [s \in BodiesKept(r) |-> ack.bodies[s]]
    BY <1>2 DEF BackedUp
<1>5. q \cap DOMAIN ack.registry = {}
    <2>1. CASE r.workflow = "register"
        BY <1>1, <1>2, <2>1 DEF Installing, Changing, Fits
    <2>2. CASE r.workflow # "register"
        <3>1. installed[t] = <<>>
            BY <1>1, <1>2, <2>2 DEF Installing, Changing
        <3> QED BY <3>1 DEF ToSet
    <2> QED BY <2>1, <2>2
<1>6. BodiesKept(r) \subseteq DOMAIN ack.bodies
    <2>1. WritesBody(r) => Target(r) \subseteq DOMAIN ack.registry
        BY <1>2, RequestFacts DEF WritesBody, Fits
    <2>2. DOMAIN ack.registry \subseteq DOMAIN ack.bodies
        BY <1>2 DEF Usable, Valid, HasBody
    <2> QED BY <2>1, <2>2 DEF BodiesKept
<1>7. rest = [s \in DOMAIN files.bodies \ q |-> files.bodies[s]]
    BY DEF Without, Restrict
<1> HIDE DEF copies, rest, q
<1>8. Registry(files') /\ files'.registry = files.registry /\ files'.cases = files.cases
      /\ files'.bodies = Overlay(copies, rest)
    <2>1. Manifest(copies, 0..MaxVersion)
        BY <1>2, <1>4, <1>6 DEF Registry, Manifest
    <2>2. Manifest(rest, 0..MaxVersion)
        BY <1>2, <1>7 DEF Registry, Manifest
    <2>3. Manifest(Overlay(copies, rest), 0..MaxVersion)
        BY <2>1, <2>2, OverlayManifest
    <2> QED BY <1>1, <1>2, <2>3, SetBodies
<1>9. BodiesOld(Skills)'
    <2> SUFFICES ASSUME NEW s \in Skills \cap DOMAIN ack.registry
                 PROVE  s \in DOMAIN files'.bodies /\ files'.bodies[s] = ack.bodies[s]
        BY <1>1 DEF BodiesOld
    <2>1. CASE s \in BodiesKept(r)
        BY <1>4, <1>8, <2>1 DEF Overlay
    <2>2. CASE s \notin BodiesKept(r)
        <3>1. s \in DOMAIN files.bodies /\ files.bodies[s] = ack.bodies[s]
            BY <1>3, <2>2 DEF BodiesOld
        <3>2. s \in DOMAIN rest /\ rest[s] = ack.bodies[s] /\ s \notin DOMAIN copies
            BY <1>4, <1>5, <1>7, <2>2, <3>1
        <3> QED BY <1>8, <3>2 DEF Overlay
    <2> QED BY <2>1, <2>2
<1>10. RegistryOld' /\ CasesOld'
    BY <1>1, <1>3, <1>8 DEF RegistryOld, CasesOld
<1> QED BY <1>1, <1>2, <1>8, <1>9, <1>10, EndStep

-----------------------------------------------------------------------------
(* The theorems.                                                           *)

LEMMA NextStep ==
    ASSUME OneAtATime, SkillInv, [Next]_vars
    PROVE  SkillInv'
<1>1. CASE Crash
    BY <1>1, CrashStep
<1>2. ASSUME NEW t \in Threads, Step(t)
      PROVE  SkillInv'
    <2>1. CASE \E r \in Requests : Validate(t, r)
        BY <2>1, ValidateStep
    <2>2. CASE PreReportsFail(t)
        BY <2>2, PreReportsFailStep
    <2>3. CASE BackUp(t)
        BY <2>3, BackUpStep
    <2>4. CASE InstallBody(t)
        BY <2>4, InstallBodyStep
    <2>5. CASE InstallFails(t)
        BY <2>5, InstallFailsStep
    <2>6. CASE ReadManifests(t)
        BY <2>6, ReadManifestsStep
    <2>7. CASE WriteRegistry(t)
        BY <2>7, WriteRegistryStep
    <2>8. CASE WriteCases(t)
        BY <2>8, WriteCasesStep
    <2>9. CASE WriteBody(t)
        BY <2>9, WriteBodyStep
    <2>10. CASE WriteFails(t)
        BY <2>10, FailureStep DEF WriteFails
    <2>11. CASE CheckPasses(t)
        BY <2>11, CheckPassesStep
    <2>12. CASE CheckFails(t)
        BY <2>12, FailureStep DEF CheckFails
    <2>13. CASE Report(t)
        BY <2>13, ReportStep
    <2>14. CASE RestoreRegistry(t)
        BY <2>14, RestoreRegistryStep
    <2>15. CASE RestoreCases(t)
        BY <2>15, RestoreCasesStep
    <2>16. CASE RestoreBodies(t)
        BY <2>16, RestoreBodiesStep
    <2>17. CASE Unhandled(t)
        BY <2>17, UnhandledStep
    <2> QED BY <1>2, <2>1, <2>2, <2>3, <2>4, <2>5, <2>6, <2>7, <2>8, <2>9, <2>10, <2>11,
               <2>12, <2>13, <2>14, <2>15, <2>16, <2>17 DEF Step
<1>3. CASE UNCHANGED vars
    <2>1. /\ files' = files /\ at' = at /\ request' = request /\ snapshot' = snapshot
          /\ backup' = backup /\ installed' = installed /\ ack' = ack /\ disturbed' = disturbed
        BY <1>3 DEF vars
    <2> QED BY <2>1 DEF SkillInv, Shapes, ThreadShapes, Progress, Holds, Installing,
               RegistryOld, RegistryNew, CasesOld, CasesNew, BodiesOld, BodiesNew,
               Read, BackedUp, Changing
<1> QED BY <1>1, <1>2, <1>3 DEF Next

\* The strengthening is an invariant.
THEOREM SkillInvariant == ASSUME OneAtATime PROVE Spec => []SkillInv
<1>1. Init => SkillInv
    BY InitStep
<1>2. SkillInv /\ [Next]_vars => SkillInv'
    BY NextStep
<1> QED BY <1>1, <1>2, PTL DEF Spec

LEMMA SkillTypes == SkillInv => TypeOK
<1> SUFFICES ASSUME SkillInv PROVE TypeOK
    OBVIOUS
<1>1. Registry(files) /\ Registry(ack) /\ ThreadShapes /\ disturbed \in BOOLEAN
    BY DEF SkillInv, Shapes
<1>2. ASSUME NEW f, Registry(f)
      PROVE  FilesOK(f)
    <2>1. DOMAIN f = {"registry", "cases", "bodies"}
        BY <1>2 DEF Registry
    <2> QED BY <1>2, <2>1 DEF FilesOK, Registry, Manifest
<1>3. FilesOK(files) /\ FilesOK(ack)
    BY <1>1, <1>2
<1>4. \A t \in Threads : ToSet(installed[t]) \subseteq Skills
    BY <1>1, Elements DEF ThreadShapes
<1> QED BY <1>1, <1>3, <1>4 DEF TypeOK, ThreadShapes

\* The manifests are well formed at every step, and versions stay within their
\* bound: an update is validated against the version it then bumps.
THEOREM TypeCorrect == ASSUME OneAtATime PROVE Spec => []TypeOK
<1>1. Spec => []SkillInv
    BY SkillInvariant
<1>2. SkillInv => TypeOK
    BY SkillTypes
<1> QED BY <1>1, <1>2, PTL

\* Files that agree on what is registered are the same to a reader.
LEMMA SameLoaded ==
    ASSUME NEW f, NEW g,
           f = [registry |-> f.registry, cases |-> f.cases, bodies |-> f.bodies],
           g = [registry |-> g.registry, cases |-> g.cases, bodies |-> g.bodies],
           f.registry = g.registry, f.cases = g.cases,
           \A s \in DOMAIN g.registry : /\ s \in DOMAIN f.bodies /\ s \in DOMAIN g.bodies
                                        /\ f.bodies[s] = g.bodies[s]
    PROVE  Loaded(f) = Loaded(g)
<1> DEFINE R == DOMAIN g.registry
<1>1. DOMAIN f.bodies \cap R = R /\ DOMAIN g.bodies \cap R = R
    OBVIOUS
<1>2. [s \in R |-> f.bodies[s]] = [s \in R |-> g.bodies[s]]
    OBVIOUS
<1>3. Loaded(f) = [registry |-> f.registry, cases |-> f.cases,
                   bodies |-> [s \in R |-> f.bodies[s]]]
    BY <1>1 DEF Loaded, Restrict
<1>4. Loaded(g) = [registry |-> g.registry, cases |-> g.cases,
                   bodies |-> [s \in R |-> g.bodies[s]]]
    BY <1>1 DEF Loaded, Restrict
<1> QED BY <1>2, <1>3, <1>4

\* Between requests the files are those the successful requests made.
LEMMA QuietFiles ==
    ASSUME OneAtATime, SkillInv, Quiet
    PROVE  /\ Registry(files) /\ Registry(ack) /\ Usable(ack)
           /\ files.registry = ack.registry /\ files.cases = ack.cases
           /\ \A s \in DOMAIN ack.registry :
                 /\ s \in DOMAIN files.bodies /\ s \in DOMAIN ack.bodies
                 /\ files.bodies[s] = ack.bodies[s]
<1>1. PICK t \in Threads : at[t] = "idle" /\ Progress(t)
    BY DEF OneAtATime, SkillInv, Quiet
<1>2. Registry(files) /\ Registry(ack) /\ Usable(ack)
    BY DEF SkillInv, Shapes
<1>3. RegistryOld /\ CasesOld /\ BodiesOld(Skills)
    BY <1>1 DEF Progress
<1>4. \A s \in DOMAIN ack.registry : s \in Skills /\ s \in DOMAIN ack.bodies
    BY <1>2 DEF Usable, Valid, HasBody, Registry, Manifest
<1> QED BY <1>2, <1>3, <1>4 DEF RegistryOld, CasesOld, BodiesOld

LEMMA QuietLoaded == OneAtATime => (SkillInv => FailureLeavesNoTrace)
<1> SUFFICES ASSUME OneAtATime, SkillInv, Quiet
             PROVE  Loaded(files) = Loaded(ack)
    BY DEF FailureLeavesNoTrace
<1> QED BY QuietFiles, SameLoaded DEF Registry

\* A request that was refused, or failed and was rolled back, whichever file its
\* failure came after, leaves nothing in what the registry's readers load.
THEOREM NoTrace == ASSUME OneAtATime PROVE Spec => []FailureLeavesNoTrace
<1>1. Spec => []SkillInv
    BY SkillInvariant
<1>2. SkillInv => FailureLeavesNoTrace
    BY QuietLoaded
<1> QED BY <1>1, <1>2, PTL

LEMMA QuietUsable == OneAtATime => (SkillInv => UsableBetweenRequests)
<1> SUFFICES ASSUME OneAtATime, SkillInv, Quiet
             PROVE  Usable(files)
    BY DEF UsableBetweenRequests
<1> QED BY QuietFiles DEF Usable, Valid, HasBody

\* The next request finds a registry that loads and scales.
THEOREM AlwaysUsable == ASSUME OneAtATime PROVE Spec => []UsableBetweenRequests
<1>1. Spec => []SkillInv
    BY SkillInvariant
<1>2. SkillInv => UsableBetweenRequests
    BY QuietUsable
<1> QED BY <1>1, <1>2, PTL

LEMMA UndoneLoaded ==
    ASSUME SkillInv, disturbed = FALSE, NEW t \in Threads, Changing(t)
    PROVE  Loaded(Undone(t)) = Loaded(ack)
<1> DEFINE r == request[t]
           copies == backup[t].bodies
           rest == IF r.workflow = "register" THEN Without(files.bodies, Target(r))
                   ELSE files.bodies
<1>1. /\ Registry(ack) /\ Usable(ack) /\ Progress(t) /\ Holds(t) /\ r \in Requests
      /\ Fits(r, ack.registry, ack.cases) /\ BackedUp(t)
    BY InProgress DEF Changing
<1>2. BodiesOld(Skills \ BodiesKept(r)) /\ (~RestoresCases(r) => CasesOld)
    BY <1>1 DEF Progress, Holds, Changing
<1>3. /\ backup[t].registry = ack.registry /\ backup[t].cases = ack.cases
      /\ copies = [s \in BodiesKept(r) |-> ack.bodies[s]]
    BY <1>1 DEF BackedUp
<1>4. \A s \in DOMAIN ack.registry : s \in Skills /\ s \in DOMAIN ack.bodies
    BY <1>1 DEF Usable, Valid, HasBody, Registry, Manifest
<1>5. r.workflow = "deprecate" => files.cases = ack.cases
    BY <1>2 DEF RestoresCases, CasesOld
<1>6. Undone(t) = [registry |-> ack.registry, cases |-> ack.cases,
                   bodies |-> Overlay(copies, rest)]
    BY <1>3, <1>5 DEF Undone
<1>7. \A s \in DOMAIN ack.registry \ BodiesKept(r) :
          s \in DOMAIN rest /\ rest[s] = ack.bodies[s]
    <2>1. CASE r.workflow = "register"
        <3>1. rest = [s \in DOMAIN files.bodies \ Target(r) |-> files.bodies[s]]
            BY <2>1 DEF Without, Restrict
        <3>2. Target(r) \cap DOMAIN ack.registry = {}
            BY <1>1, <2>1 DEF Fits
        <3> QED BY <1>2, <1>4, <3>1, <3>2 DEF BodiesOld
    <2>2. CASE r.workflow # "register"
        BY <1>2, <1>4, <2>2 DEF BodiesOld
    <2> QED BY <2>1, <2>2
<1> HIDE DEF copies, rest
<1>8. \A s \in DOMAIN ack.registry :
          s \in DOMAIN Overlay(copies, rest) /\ Overlay(copies, rest)[s] = ack.bodies[s]
    BY <1>3, <1>7 DEF Overlay
<1> DEFINE f == Undone(t)
<1>9. /\ f = [registry |-> f.registry, cases |-> f.cases, bodies |-> f.bodies]
      /\ f.registry = ack.registry /\ f.cases = ack.cases
      /\ f.bodies = Overlay(copies, rest)
    BY <1>6
<1> HIDE DEF f
<1>10. Loaded(f) = Loaded(ack)
    BY <1>1, <1>4, <1>8, <1>9, SameLoaded DEF Registry
<1> QED BY <1>10 DEF f

LEMMA UndoneRight == SkillInv => BackupsSuffice
<1> SUFFICES ASSUME SkillInv, ~disturbed, NEW t \in Threads, Changing(t)
             PROVE  Loaded(Undone(t)) = Loaded(ack)
    BY DEF BackupsSuffice
<1>1. disturbed = FALSE
    BY DEF SkillInv, Shapes
<1> QED BY <1>1, UndoneLoaded

\* Wherever a change stops, an operator who copies its backups back has the
\* registry the successful requests made.
THEOREM BackupsAlwaysSuffice == ASSUME OneAtATime PROVE Spec => []BackupsSuffice
<1>1. Spec => []SkillInv
    BY SkillInvariant
<1>2. SkillInv => BackupsSuffice
    BY UndoneRight
<1> QED BY <1>1, <1>2, PTL

\* What PromotesOnlyRequested says of one step.
PromotesRequested ==
    \A t \in Threads :
        at[t] = "writeRegistry" /\ at'[t] = "check" /\ request[t].workflow = "promote" =>
            \A s \in DOMAIN files.registry \ Target(request[t]) :
                s \in DOMAIN files'.registry /\ files'.registry[s] = files.registry[s]

LEMMA PromotionStep ==
    ASSUME OneAtATime, SkillInv, [Next]_vars
    PROVE  PromotesRequested
<1> SUFFICES ASSUME NEW t \in Threads, at[t] = "writeRegistry", at'[t] = "check",
                    request[t].workflow = "promote",
                    NEW s \in DOMAIN files.registry \ Target(request[t])
             PROVE  s \in DOMAIN files'.registry /\ files'.registry[s] = files.registry[s]
    BY DEF PromotesRequested
<1>1. Registry(files) /\ ThreadShapes /\ Progress(t) /\ Holds(t)
    BY InProgress
<1>2. PICK u \in Threads : Step(u)
    BY DEF Next, vars, Crash
<1>3. u = t
    BY DEF OneAtATime
<1>4. \A p : Goto(t, p) => at'[t] = p
    BY <1>1 DEF Goto, ThreadShapes
<1>5. WriteRegistry(t)
    BY <1>2, <1>3, <1>4 DEF Step, Validate, PreReportsFail, BackUp, InstallBody, InstallFails,
       ReadManifests, WriteCases, WriteBody, WriteFails, CheckPasses, CheckFails, Report,
       RestoreRegistry, RestoreCases, RestoreBodies, Unhandled, Restoring
<1>6. snapshot[t].registry = files.registry
    BY <1>1 DEF Holds, Read, Progress, RegistryOld
<1>7. files'.registry = RegistryAfter(files.registry, request[t])
    BY <1>1, <1>5, <1>6, SetRegistry DEF WriteRegistry
<1> QED BY <1>7 DEF RegistryAfter

\* The promotion the run skills_stale sees lost is lost to the other thread's
\* write alone: with one request at a time a promotion touches no other entry.
THEOREM PromotionsStayPut == ASSUME OneAtATime PROVE Spec => PromotesOnlyRequested
<1>1. Spec => []SkillInv
    BY SkillInvariant
<1>2. SkillInv /\ [Next]_vars => PromotesRequested
    BY PromotionStep
<1>3. [][PromotesRequested]_vars => PromotesOnlyRequested
    BY DEF PromotesRequested, PromotesOnlyRequested
<1> QED BY <1>1, <1>2, <1>3, PTL DEF Spec

=============================================================================
