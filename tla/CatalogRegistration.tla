------------------------- MODULE CatalogRegistration -------------------------
(***************************************************************************)
(* The two runtime catalogs that are changed by request, connectors.json   *)
(* and tools.json, and the workflows that append to them:                  *)
(* connector_catalog.register and tool_catalog.register.  A registration   *)
(* validates its manifest against the catalog, asks the release gate's     *)
(* report when it is to enable a connector, reads the catalog again and    *)
(* replaces the whole file with what it read and its own entry after it.   *)
(*                                                                         *)
(* The controller service runs every request on a thread of its own and    *)
(* nothing locks a catalog.  A file is read, and replaced, in one step: it *)
(* is written aside and renamed.  A registration may end in the middle     *)
(* (an artifact cannot be written, the service stops); nothing is undone.  *)
(*                                                                         *)
(* Manifests are well formed; what the requests' approvals must say, and   *)
(* what admission checks of a manifest's policy, is modelled.              *)
(***************************************************************************)
EXTENDS Integers, SequencesExt

CONSTANTS
    Threads,        \* the service's threads that register
    Manifests,      \* the admission manifests that may be proposed
    Registrations,  \* the requests that may come
    Reports,        \* the release gate reports that may be written
    SeededTools,    \* the tools of the catalog before the first request
    None

Catalogs == {"connectors", "tools"}

Entries == [manifest : Manifests, enabled : BOOLEAN]

ASSUME CatalogAssumption ==
    /\ \A r \in Registrations :
          r.catalog \in Catalogs /\ r.manifest \in Manifests /\ r.enabled \in BOOLEAN
    /\ None \notin Registrations \cup Reports
    /\ SeededTools \in Seq(Entries)
    /\ \A i, j \in DOMAIN SeededTools :
          SeededTools[i].manifest.id = SeededTools[j].manifest.id => i = j
    /\ \A i, j \in DOMAIN SeededTools :
          i < j => \/ SeededTools[j].manifest.consolidates
                   \/ SeededTools[j].manifest.command = None
                   \/ SeededTools[i].manifest.command # SeededTools[j].manifest.command

VARIABLES
    catalog,    \* the two files, each a sequence of entries
    report,     \* the release gate report at the path the requests give
    at,         \* where each thread's registration is
    request,    \* the registration each thread works on
    base,       \* the catalog as the append read it
    recorded,   \* the entries a registration record calls installed
    gated,      \* every report that has let a connector ship
    crossed,    \* the catalog was replaced since the thread's validation
    overlapped  \* the entries whose registration overlapped another's

registrationVars ==
    <<catalog, report, at, request, base, recorded, gated, crossed, overlapped>>

Ids(entries) == {entries[i].manifest.id : i \in DOMAIN entries}

\* A catalog that lists an id twice is refused by everyone who loads it.
Loads(entries) ==
    \A i, j \in DOMAIN entries : entries[i].manifest.id = entries[j].manifest.id => i = j

\* What a registration appends.  Only a connector's entry can be enabled.
Entry(r) == [manifest |-> r.manifest, enabled |-> r.catalog = "connectors" /\ r.enabled]

-----------------------------------------------------------------------------
(* What a request must bring: its approval and its manifest.               *)

Approved(r) ==
    /\ "registration" \in r.scopes
    /\ r.refs
    /\ r.catalog = "connectors" /\ r.enabled => "enablement" \in r.scopes /\ r.proof

\* An operation that names no scopes of its own needs all of the connector's.
RequiredScopes(connector, operation) ==
    LET own == connector.operations[operation].scopes
    IN  IF own = {} THEN connector.scopes ELSE own

SafeConnector(m) ==
    /\ m.auth = "oauth_user_scope" => m.scopes # {}
    /\ m.auth = "none_for_stub" => m.protocol = "local_stub"
    /\ \A op \in DOMAIN m.operations :
          LET o == m.operations[op]
          IN  /\ o.class = "write" => o.approvalRequired /\ m.auth # "service_read_only"
              /\ o.scopes # {} => m.auth = "oauth_user_scope"
              /\ o.scopes \subseteq m.scopes

\* Mutant: only an entry of the same id is taken for a repetition.
RepeatsItself(m, entries) ==
    m.command # None /\ \E i \in DOMAIN entries : entries[i].manifest = m

\* The manifest names a command some entry has already.
Repeats(m, entries) ==
    m.command # None /\ \E i \in DOMAIN entries : entries[i].manifest.command = m.command

\* The tool is supported and exposed, and does what no other tool does.
SafeTool(m, entries) == m.exposed /\ (Repeats(m, entries) => m.consolidates)

Admitted(r, entries) ==
    /\ Loads(entries)
    /\ r.manifest.id \notin Ids(entries)
    /\ IF r.catalog = "connectors" THEN SafeConnector(r.manifest)
                                   ELSE SafeTool(r.manifest, entries)

\* Mutant: the report of another set of operations still counts.
ShipsAnyOperations(r) ==
    /\ report # None
    /\ report.verdict = "ship"
    /\ report.connector = r.manifest.id

\* The report lets the connector of r ship with the operations it has now.
Ships(r) ==
    /\ report # None
    /\ report.verdict = "ship"
    /\ report.connector = r.manifest.id
    /\ report.operations = DOMAIN r.manifest.operations

-----------------------------------------------------------------------------
(* The steps of a registration.                                            *)

RegistrationInit ==
    /\ catalog = [k \in Catalogs |-> IF k = "tools" THEN SeededTools ELSE <<>>]
    /\ report = None
    /\ at = [t \in Threads |-> "idle"]
    /\ request = [t \in Threads |-> None]
    /\ base = [t \in Threads |-> <<>>]
    /\ recorded = [k \in Catalogs |-> {}]
    /\ gated = {}
    /\ crossed = [t \in Threads |-> FALSE]
    /\ overlapped = [k \in Catalogs |-> {}]

Move(t, place) == at' = [at EXCEPT ![t] = place]

\* Mutant: what the thread held is gone before it has left.
LeaveInPlace(t) ==
    /\ UNCHANGED at
    /\ request' = [request EXCEPT ![t] = None]
    /\ base' = [base EXCEPT ![t] = <<>>]
    /\ crossed' = [crossed EXCEPT ![t] = FALSE]

\* The answer is sent: what the thread held is gone.
Leave(t) ==
    /\ Move(t, "idle")
    /\ request' = [request EXCEPT ![t] = None]
    /\ base' = [base EXCEPT ![t] = <<>>]
    /\ crossed' = [crossed EXCEPT ![t] = FALSE]

\* A request without its approval is answered before anything is done.
Receive(t) ==
    /\ at[t] = "idle"
    /\ \E r \in {q \in Registrations : Approved(q)} : request' = [request EXCEPT ![t] = r]
    /\ Move(t, "validate")
    /\ UNCHANGED <<catalog, report, base, recorded, gated, crossed, overlapped>>

Validate(t) ==
    /\ at[t] = "validate"
    /\ Admitted(request[t], catalog[request[t].catalog])
    /\ Move(t, "gate")
    /\ UNCHANGED <<catalog, report, request, base, recorded, gated, crossed, overlapped>>

\* Only the entry of a connector to be enabled needs the gate's report.
PassesGate(r) == Entry(r).enabled => Ships(r)

CheckGate(t) ==
    /\ at[t] = "gate"
    /\ PassesGate(request[t])
    /\ Move(t, "read")
    /\ UNCHANGED <<catalog, report, request, base, recorded, gated, crossed, overlapped>>

\* Mutant: the append relies on the validation.
AppendsAlways(r, entries) == TRUE

\* The id is looked for once more, in what will be written back.
Appendable(r, entries) == r.manifest.id \notin Ids(entries)

ReadCatalog(t) ==
    /\ at[t] = "read"
    /\ Appendable(request[t], catalog[request[t].catalog])
    /\ base' = [base EXCEPT ![t] = catalog[request[t].catalog]]
    /\ Move(t, "replace")
    /\ UNCHANGED <<catalog, report, request, recorded, gated, crossed, overlapped>>

Refuse(t) ==
    /\ \/ at[t] = "validate" /\ ~ Admitted(request[t], catalog[request[t].catalog])
       \/ at[t] = "gate" /\ ~ PassesGate(request[t])
       \/ at[t] = "read" /\ ~ Appendable(request[t], catalog[request[t].catalog])
    /\ Leave(t)
    /\ UNCHANGED <<catalog, report, recorded, gated, overlapped>>

\* The threads whose manifest has been compared with catalog k.
Validated(k) == {t \in Threads : at[t] \in {"gate", "read", "replace"} /\ request[t].catalog = k}

\* The threads that have read catalog k to write it back.
Appending(k) == {t \in Threads : at[t] = "replace" /\ request[t].catalog = k}

\* What the append of thread t makes of the file.
Appended(t) == Append(base[t], Entry(request[t]))

ReplaceCatalog(t) ==
    LET k == request[t].catalog
        e == Entry(request[t])
    IN  /\ at[t] = "replace"
        /\ catalog' = [catalog EXCEPT ![k] = Appended(t)]
        /\ overlapped' = [overlapped EXCEPT ![k] =
              IF crossed[t] \/ Appending(k) # {t} THEN @ \cup {e} ELSE @ \ {e}]
        /\ crossed' = [u \in Threads |-> crossed[u] \/ u \in Validated(k) \ {t}]
        /\ Move(t, "record")
        /\ UNCHANGED <<report, request, base, recorded, gated>>

\* Rollback instructions, the registration record and the run state.
Record(t) ==
    LET k == request[t].catalog
    IN  /\ at[t] = "record"
        /\ recorded' = [recorded EXCEPT ![k] = @ \cup {Entry(request[t])}]
        /\ Leave(t)
        /\ UNCHANGED <<catalog, report, gated, overlapped>>

\* Mutant: a registration that fails puts back the catalog it had read.
BreakOffRestores(t) ==
    /\ at[t] # "idle"
    /\ catalog' = IF at[t] = "record" THEN [catalog EXCEPT ![request[t].catalog] = base[t]]
                                     ELSE catalog
    /\ Leave(t)
    /\ UNCHANGED <<report, recorded, gated, overlapped>>

\* An exception or a stop of the service ends the request where it is.
BreakOff(t) ==
    /\ at[t] # "idle"
    /\ Leave(t)
    /\ UNCHANGED <<catalog, report, recorded, gated, overlapped>>

\* The release gate's script writes the report of a packet over the last one.
RunReleaseGate ==
    /\ \E r \in Reports :
          /\ report' = r
          /\ gated' = IF r.verdict = "ship" THEN gated \cup {r} ELSE gated
    /\ UNCHANGED <<catalog, at, request, base, recorded, crossed, overlapped>>

RegistrationStep ==
    \/ \E t \in Threads :
          \/ Receive(t) \/ Validate(t) \/ CheckGate(t) \/ ReadCatalog(t) \/ Refuse(t)
          \/ ReplaceCatalog(t) \/ Record(t) \/ BreakOff(t)
    \/ RunReleaseGate

=============================================================================
