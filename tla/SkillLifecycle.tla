--------------------------- MODULE SkillLifecycle ---------------------------
(***************************************************************************)
(* The skill registry under config_root and the four workflows that change *)
(* it: skill_batch.register, skill_eval.promote, skill.update and          *)
(* skill.deprecate.  The registry is three kinds of files that must agree: *)
(* runtime/skills.json, runtime/skill_evals.json and one SKILL.md body per *)
(* skill.  A workflow validates a request against the files, copies        *)
(* backups, replaces the files one after the other, checks the result, and *)
(* on a failure copies the backups back, again file by file.               *)
(*                                                                         *)
(* The controller service runs each request on a thread of its own and     *)
(* nothing locks the registry.  Reading the files for the validation, and  *)
(* copying the backups, are one step each; a file is replaced atomically   *)
(* (write a temporary file, then rename) and restored by copying over it.  *)
(*                                                                         *)
(* The content of a skill, of its eval case and of its body is the version *)
(* that wrote it; every skill has one eval case, and all are route-        *)
(* compatible.  What the eval cases and the selector say of that content   *)
(* is free: a check may fail whatever the files hold.                      *)
(*                                                                         *)
(* Nothing in the code recovers the files after a request that ended in    *)
(* mid-change without its rollback (the service stopped, or the rollback   *)
(* itself failed): an operator copies the backups back.  The model follows *)
(* the service up to the first such end and starts no request after it.    *)
(***************************************************************************)
EXTENDS Integers, SequencesExt, Functions

CONSTANTS
    Skills,      \* skill ids
    Seeded,      \* the skills registered, validated, before the first request
    Batches,     \* the skill batches that may be proposed, as sequences of skills
    Threads,     \* the service's threads
    MaxVersion,  \* bound on a skill's version
    None

ASSUME SkillAssumption ==
    /\ Seeded \subseteq Skills
    /\ Batches \subseteq Seq(Skills)
    /\ MaxVersion \in Nat \ {0}
    /\ None \notin Skills

VARIABLES
    files,     \* registry (skills.json), cases (skill_evals.json), bodies (SKILL.md)
    at,        \* where each thread's request is
    request,   \* the request each thread works on
    snapshot,  \* the manifests the request will write from
    backup,    \* the copies in the request's backups directory
    installed, \* the installed_paths a rollback of a registration removes
    ack,       \* the files as the successful requests, in turn, made them
    disturbed  \* some request ended in mid-change with no rollback

vars == <<files, at, request, snapshot, backup, installed, ack, disturbed>>

Parts == {"case", "body"}

\* Every update bumps the version in skills.json; its parts are optional.
Requests ==
    [workflow : {"register"}, skills : Batches, parts : {{}}, replacement : {None}]
    \cup [workflow : {"promote"}, skills : {<<s>> : s \in Skills} \cup Batches, parts : {{}},
          replacement : {None}]
    \cup [workflow : {"update"}, skills : {<<s>> : s \in Skills}, parts : SUBSET Parts,
          replacement : {None}]
    \cup [workflow : {"deprecate"}, skills : {<<s>> : s \in Skills}, parts : {{}},
          replacement : Skills]

ASSUME RequestAssumption == None \notin Requests

Target(r) == ToSet(r.skills)

\* f with the entries of g in place of its own, or added to them.
Overlay(g, f) ==
    [s \in DOMAIN g \cup DOMAIN f |-> IF s \in DOMAIN g THEN g[s] ELSE f[s]]

Override(f, ids, value) == Overlay([s \in ids |-> value], f)

-----------------------------------------------------------------------------
(* What a manifest says of a skill, and when the three files agree.        *)

Draft == [status |-> "draft", version |-> 1, replacedBy |-> None]
Validated(v) == [status |-> "validated", version |-> v, replacedBy |-> None]

Active(registry) == {s \in DOMAIN registry : registry[s].status # "deprecated"}

\* A body directory can exist without a body: version 0.
HasBody(f, s) == s \in DOMAIN f.bodies /\ f.bodies[s] > 0

LinksValid(registry) ==
    \A s \in DOMAIN registry \ Active(registry) :
        registry[s].replacedBy \in Active(registry) \ {s}

\* load_skill_registry accepts the files.
Valid(f) ==
    /\ \A s \in DOMAIN f.registry : HasBody(f, s) /\ s \in DOMAIN f.cases
    /\ LinksValid(f.registry)

\* The scale report also refuses an eval case no skill refers to.
Usable(f) == Valid(f) /\ DOMAIN f.cases = DOMAIN f.registry

\* What each workflow writes, given the manifests it read.
\* Mutant: a combined update bumps the version twice.
BumpedTwice(v) == v + 2

Bumped(v) == v + 1

Promoted(entry) == [entry EXCEPT !.status = "validated"]
Updated(entry) == [entry EXCEPT !.version = Bumped(@)]
Deprecated(entry, replacement) ==
    [entry EXCEPT !.status = "deprecated", !.replacedBy = replacement]

Changed(entry, r) ==
    CASE r.workflow = "promote" -> Promoted(entry)
      [] r.workflow = "update" -> Updated(entry)
      [] r.workflow = "deprecate" -> Deprecated(entry, r.replacement)

RegistryAfter(registry, r) ==
    IF r.workflow = "register" THEN Override(registry, Target(r), Draft)
    ELSE [s \in DOMAIN registry |->
            IF s \in Target(r) THEN Changed(registry[s], r) ELSE registry[s]]

NewVersion(registry, r) ==
    IF r.workflow = "register" THEN 1 ELSE Bumped(registry[Head(r.skills)].version)

WritesCases(r) == r.workflow = "register" \/ "case" \in r.parts
WritesBody(r) == "body" \in r.parts

CasesAfter(cases, r, v) == IF WritesCases(r) THEN Override(cases, Target(r), v) ELSE cases

BodiesAfter(bodies, r, v) ==
    IF WritesBody(r) \/ r.workflow = "register" THEN Override(bodies, Target(r), v) ELSE bodies

Applied(f, r, v) ==
    [registry |-> RegistryAfter(f.registry, r), cases |-> CasesAfter(f.cases, r, v),
     bodies |-> BodiesAfter(f.bodies, r, v)]

-----------------------------------------------------------------------------
SeededFiles ==
    [registry |-> [s \in Seeded |-> Validated(1)], cases |-> [s \in Seeded |-> 1],
     bodies |-> [s \in Seeded |-> 1]]

Init ==
    /\ files = SeededFiles
    /\ at = [t \in Threads |-> "idle"]
    /\ request = [t \in Threads |-> None]
    /\ snapshot = [t \in Threads |-> None]
    /\ backup = [t \in Threads |-> None]
    /\ installed = [t \in Threads |-> <<>>]
    /\ ack = SeededFiles
    /\ disturbed = FALSE

Goto(t, step) == at' = [at EXCEPT ![t] = step]

\* The request ends and its thread forgets it.
Done(t) ==
    /\ Goto(t, "idle")
    /\ request' = [request EXCEPT ![t] = None]
    /\ snapshot' = [snapshot EXCEPT ![t] = None]
    /\ backup' = [backup EXCEPT ![t] = None]
    /\ installed' = [installed EXCEPT ![t] = <<>>]

Undisturbed == UNCHANGED <<ack, disturbed>>
Kept == UNCHANGED <<request, snapshot, backup, installed>> /\ Undisturbed

-----------------------------------------------------------------------------
(* Validation against the files as they are now; a refusal changes nothing.*)

RegistrationAdmitted(r) ==
    /\ r.workflow = "register"
    /\ Target(r) \cap (DOMAIN files.registry \cup DOMAIN files.cases) = {}

\* Promoting a validated skill again takes allow_repromotion.
PromotionAdmitted(r) ==
    /\ r.workflow = "promote"
    /\ Target(r) \subseteq Active(files.registry)

\* MaxVersion bounds the updates.
UpdateAdmitted(r) ==
    /\ r.workflow = "update"
    /\ Target(r) \subseteq DOMAIN files.registry
    /\ \A s \in Target(r) : /\ files.registry[s].status = "validated"
                            /\ files.registry[s].version < MaxVersion

DeprecationAdmitted(r) ==
    /\ r.workflow = "deprecate"
    /\ Target(r) \cup {r.replacement} \subseteq Active(files.registry)
    /\ r.replacement \notin Target(r)

Admitted(r) ==
    /\ Valid(files)
    /\ \/ RegistrationAdmitted(r) \/ PromotionAdmitted(r)
       \/ UpdateAdmitted(r) \/ DeprecationAdmitted(r)

Validate(t, r) ==
    /\ at[t] = "idle" /\ ~disturbed
    /\ Admitted(r)
    /\ request' = [request EXCEPT ![t] = r]
    /\ snapshot' = [snapshot EXCEPT ![t] = [registry |-> files.registry, cases |-> files.cases]]
    /\ Goto(t, "admitted")
    /\ UNCHANGED <<files, backup, installed>> /\ Undisturbed

\* The eval and scale reports before a change failed.
PreReportsFail(t) ==
    /\ at[t] = "admitted" /\ request[t].workflow # "register"
    /\ Done(t)
    /\ UNCHANGED files /\ Undisturbed

\* Mutant: an update keeps no copy of the body it replaces.
NoBodyKept(r) == {}

BodiesKept(r) == IF WritesBody(r) THEN Target(r) ELSE {}

BackUp(t) ==
    /\ at[t] = "admitted"
    /\ request[t].workflow = "register" \/ Usable(files)
    /\ backup' = [backup EXCEPT ![t] =
            [registry |-> files.registry, cases |-> files.cases,
             bodies |-> [s \in BodiesKept(request[t]) |-> files.bodies[s]]]]
    /\ Goto(t, IF request[t].workflow = "register" THEN "install" ELSE "writeRegistry")
    /\ UNCHANGED <<files, request, snapshot, installed>> /\ Undisturbed

-----------------------------------------------------------------------------
(* install_skill_bodies: a registration copies the bodies one by one.      *)

NextBody(t) == request[t].skills[Len(installed[t]) + 1]
BodiesMissing(t) == Len(installed[t]) < Len(request[t].skills)

InstallBody(t) ==
    /\ at[t] = "install" /\ BodiesMissing(t)
    /\ NextBody(t) \notin DOMAIN files.bodies
    /\ files' = [files EXCEPT !.bodies = Override(@, {NextBody(t)}, 1)]
    /\ installed' = [installed EXCEPT ![t] = Append(@, NextBody(t))]
    /\ UNCHANGED <<at, request, snapshot, backup>> /\ Undisturbed

\* The directory exists already, or creating it or copying the body failed.
\* The list of bodies is lost with the exception: the rollback has none.
InstallFails(t) ==
    /\ at[t] = "install" /\ BodiesMissing(t)
    /\ \/ UNCHANGED files
       \/ /\ NextBody(t) \notin DOMAIN files.bodies
          /\ files' = [files EXCEPT !.bodies = Override(@, {NextBody(t)}, 0)]
    /\ installed' = [installed EXCEPT ![t] = <<>>]
    /\ Goto(t, "restoreRegistry")
    /\ UNCHANGED <<request, snapshot, backup>> /\ Undisturbed

\* A registration reads the manifests again once its bodies are in place.
ReadManifests(t) ==
    /\ at[t] = "install" /\ ~BodiesMissing(t)
    /\ snapshot' = [snapshot EXCEPT ![t] = [registry |-> files.registry, cases |-> files.cases]]
    /\ Goto(t, "writeRegistry")
    /\ UNCHANGED <<files, request, backup, installed>> /\ Undisturbed

-----------------------------------------------------------------------------
(* The files are replaced one after the other, then checked.               *)

Version(t) == NewVersion(snapshot[t].registry, request[t])

WriteRegistry(t) ==
    /\ at[t] = "writeRegistry"
    /\ files' = [files EXCEPT !.registry = RegistryAfter(snapshot[t].registry, request[t])]
    /\ Goto(t, IF WritesCases(request[t]) THEN "writeCases"
               ELSE IF WritesBody(request[t]) THEN "writeBody" ELSE "check")
    /\ Kept

WriteCases(t) ==
    /\ at[t] = "writeCases"
    /\ files' = [files EXCEPT !.cases = CasesAfter(snapshot[t].cases, request[t], Version(t))]
    /\ Goto(t, IF WritesBody(request[t]) THEN "writeBody" ELSE "check")
    /\ Kept

WriteBody(t) ==
    /\ at[t] = "writeBody"
    /\ files' = [files EXCEPT !.bodies = BodiesAfter(@, request[t], Version(t))]
    /\ Goto(t, "check")
    /\ Kept

WriteFails(t) ==
    /\ at[t] \in {"writeRegistry", "writeCases", "writeBody"}
    /\ Goto(t, "restoreRegistry")
    /\ UNCHANGED files /\ Kept

\* Only what the request asked for has changed since the backups were taken.
ChangedAsExpected(t) ==
    /\ request[t].workflow # "register" /\ ~WritesCases(request[t])
            => files.cases = backup[t].cases
    /\ request[t].workflow = "deprecate" => files.registry # backup[t].registry

\* Mutant: the files are not validated once they are written.
AcceptedUnseen(t) == ChangedAsExpected(t)

Accepted(t) == Usable(files) /\ ChangedAsExpected(t)

CheckPasses(t) ==
    /\ at[t] = "check" /\ Accepted(t)
    /\ Goto(t, "report")
    /\ UNCHANGED files /\ Kept

CheckFails(t) ==
    /\ at[t] = "check"
    /\ Goto(t, "restoreRegistry")
    /\ UNCHANGED files /\ Kept

\* The artifacts of the change are written and the request succeeds.
Report(t) ==
    /\ at[t] = "report"
    /\ ack' = Applied(ack, request[t], Version(t))
    /\ Done(t)
    /\ UNCHANGED <<files, disturbed>>

-----------------------------------------------------------------------------
(* Rollback, in the order of the code.                                     *)

\* Mutant: only a registration restores the eval cases.
RestoresOwnCases(r) == r.workflow = "register"

RestoresCases(r) == r.workflow # "deprecate"

RestoresBodies(r) == r.workflow = "register" \/ WritesBody(r)

RestoreRegistry(t) ==
    /\ at[t] = "restoreRegistry"
    /\ files' = [files EXCEPT !.registry = backup[t].registry]
    /\ IF RestoresCases(request[t]) THEN Goto(t, "restoreCases") /\ Kept
                                    ELSE Done(t) /\ Undisturbed

RestoreCases(t) ==
    /\ at[t] = "restoreCases"
    /\ files' = [files EXCEPT !.cases = backup[t].cases]
    /\ IF RestoresBodies(request[t]) THEN Goto(t, "restoreBodies") /\ Kept
                                     ELSE Done(t) /\ Undisturbed

Without(bodies, ids) == Restrict(bodies, DOMAIN bodies \ ids)

RestoreBodies(t) ==
    /\ at[t] = "restoreBodies"
    /\ files' = [files EXCEPT !.bodies =
            Overlay(backup[t].bodies, Without(@, ToSet(installed[t])))]
    /\ Done(t)
    /\ Undisturbed

Restoring == {"restoreRegistry", "restoreCases", "restoreBodies"}

\* An OSError nothing handles: in a rollback, in a report after the change (a
\* registration's are inside its try), or in an artifact of the result.
Unhandled(t) ==
    /\ \/ at[t] \in Restoring \cup {"report"}
       \/ at[t] = "check" /\ request[t].workflow # "register"
    /\ disturbed' = TRUE
    /\ Done(t)
    /\ UNCHANGED <<files, ack>>

Changing(t) == at[t] \notin {"idle", "admitted"}

\* The service stops; the files stay as they are.
Crash ==
    /\ \E t \in Threads : at[t] # "idle"
    /\ disturbed' = (disturbed \/ \E t \in Threads : Changing(t))
    /\ at' = [t \in Threads |-> "idle"]
    /\ request' = [t \in Threads |-> None]
    /\ snapshot' = [t \in Threads |-> None]
    /\ backup' = [t \in Threads |-> None]
    /\ installed' = [t \in Threads |-> <<>>]
    /\ UNCHANGED <<files, ack>>

Step(t) ==
    \/ \E r \in Requests : Validate(t, r)
    \/ PreReportsFail(t)
    \/ BackUp(t)
    \/ InstallBody(t)
    \/ InstallFails(t)
    \/ ReadManifests(t)
    \/ WriteRegistry(t)
    \/ WriteCases(t)
    \/ WriteBody(t)
    \/ WriteFails(t)
    \/ CheckPasses(t)
    \/ CheckFails(t)
    \/ Report(t)
    \/ RestoreRegistry(t)
    \/ RestoreCases(t)
    \/ RestoreBodies(t)
    \/ Unhandled(t)

Next == Crash \/ \E t \in Threads : Step(t)

Spec == Init /\ [][Next]_vars

-----------------------------------------------------------------------------
(* Properties.                                                             *)

Quiet == ~disturbed /\ \A t \in Threads : at[t] = "idle"

Entry == [status : {"draft", "validated", "deprecated"}, version : 1..MaxVersion,
          replacedBy : Skills \cup {None}]

FilesOK(f) ==
    /\ DOMAIN f = {"registry", "cases", "bodies"}
    /\ \A s \in DOMAIN f.registry : s \in Skills /\ f.registry[s] \in Entry
    /\ \A s \in DOMAIN f.cases : s \in Skills /\ f.cases[s] \in 1..MaxVersion
    /\ \A s \in DOMAIN f.bodies : s \in Skills /\ f.bodies[s] \in 0..MaxVersion

\* The files hold manifests of skills at versions that exist, and a thread has
\* a request exactly while it is not idle.
TypeOK ==
    /\ FilesOK(files) /\ FilesOK(ack)
    /\ \A t \in Threads :
        /\ (at[t] = "idle") <=> (request[t] = None)
        /\ request[t] \in Requests \cup {None}
        /\ ToSet(installed[t]) \subseteq Skills
    /\ disturbed \in BOOLEAN

\* What the registry is read for: bodies outside it are never loaded.
Loaded(f) == [f EXCEPT !.bodies = Restrict(@, DOMAIN @ \cap DOMAIN f.registry)]

\* With one request at a time, the files between requests are what the
\* successful requests made, exactly: a refused or rolled-back one leaves no
\* trace in what is loaded, whichever file its failure came after.
FailureLeavesNoTrace == Quiet => Loaded(files) = Loaded(ack)

\* With one request at a time, the next request finds a registry that loads and
\* scales, though a deprecation may be admitted that breaks an earlier one's link.
UsableBetweenRequests == Quiet => Usable(files)

Undone(t) ==
    [registry |-> backup[t].registry,
     cases |-> IF request[t].workflow = "deprecate" THEN files.cases ELSE backup[t].cases,
     bodies |-> Overlay(backup[t].bodies,
                IF request[t].workflow = "register"
                THEN Without(files.bodies, Target(request[t])) ELSE files.bodies)]

\* With one request at a time, wherever a change stops, the backups it has made
\* are enough to bring back what the successful requests made.
BackupsSuffice ==
    ~disturbed => \A t \in Threads : Changing(t) => Loaded(Undone(t)) = Loaded(ack)

\* A promotion changes the entries it was asked to promote and no other.
PromotesOnlyRequested ==
    [][\A t \in Threads :
        at[t] = "writeRegistry" /\ at'[t] = "check" /\ request[t].workflow = "promote" =>
            \A s \in DOMAIN files.registry \ Target(request[t]) :
                s \in DOMAIN files'.registry /\ files'.registry[s] = files.registry[s]]_vars
=============================================================================
