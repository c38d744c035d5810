-------------------------- MODULE CatalogGovernance --------------------------
(***************************************************************************)
(* The controller service's governed catalogs: the registrations that      *)
(* append to them (CatalogRegistration) together with connector.invoke,    *)
(* which mediates one operation of an enabled connector.  An invocation    *)
(* writes its request, loads the connector catalog once, decides, and      *)
(* writes what it decided; a connector is a local stub, so nothing else    *)
(* happens.  Invocations and registrations run on threads of their own and *)
(* share the catalog file and nothing else.                                *)
(***************************************************************************)
EXTENDS CatalogRegistration

CONSTANTS
    Callers,      \* the service's threads that invoke connectors
    Invocations   \* the requests they may get

VARIABLES
    call,      \* the invocation each caller works on
    decision,  \* what its mediation came to
    written    \* the artifacts of its run directory

invocationVars == <<call, decision, written>>
vars == <<registrationVars, invocationVars>>

-----------------------------------------------------------------------------
(* The mediator's policy for request q, given the entries it loaded.       *)

Found(q, entries) == \E i \in DOMAIN entries : entries[i].manifest.id = q.connector
Loaded(q, entries) ==
    entries[CHOOSE i \in DOMAIN entries : entries[i].manifest.id = q.connector]

\* The connector may be invoked, and has the operation.
Invocable(q, entries) ==
    /\ Loads(entries)
    /\ Found(q, entries)
    /\ LET e == Loaded(q, entries)
       IN  /\ e.enabled
           /\ e.manifest.protocol = "local_stub"
           /\ q.operation \in DOMAIN e.manifest.operations

\* The actor has the scopes, where the connector asks for the user's.
Authorized(q, connector) ==
    connector.auth = "oauth_user_scope" =>
        RequiredScopes(connector, q.operation) \subseteq q.granted

\* The approval was given to this actor for this operation.
Bound(q) ==
    /\ q.approval # None
    /\ q.approval.connector = q.connector
    /\ q.approval.operation = q.operation
    /\ q.approval.actor = q.actor
    /\ q.approval.granted = q.granted

Class(q, connector) == connector.operations[q.operation].class

\* Up to the approval's references, which are looked at last.
Permitted(q, entries) ==
    /\ q.actorValid
    /\ Invocable(q, entries)
    /\ LET connector == Loaded(q, entries).manifest
       IN  /\ q.argumentsFit
           /\ Authorized(q, connector)
           /\ Class(q, connector) = "write" =>
                 connector.auth # "service_read_only" /\ Bound(q)

NeedsReferences(q, entries) == Class(q, Loaded(q, entries).manifest) = "write"

Allowed(q, entries) ==
    /\ Permitted(q, entries)
    /\ NeedsReferences(q, entries) => q.approval.refs
    /\ Class(q, Loaded(q, entries).manifest) # "read" => q.dryRun

-----------------------------------------------------------------------------
(* The steps of an invocation.                                             *)

InvocationInit ==
    /\ call = [c \in Callers |-> None]
    /\ decision = [c \in Callers |-> None]
    /\ written = [c \in Callers |-> {}]

\* request.json is written before the actor is looked at.
StartInvocation(c) ==
    /\ call[c] = None
    /\ \E q \in Invocations : call' = [call EXCEPT ![c] = q]
    /\ decision' = [decision EXCEPT ![c] = None]
    /\ written' = [written EXCEPT ![c] = {"request"}]

Decide(c, outcome) ==
    /\ call[c] # None
    /\ decision[c] = None
    /\ decision' = [decision EXCEPT ![c] = [outcome |-> outcome, of |-> call[c]]]

\* Approval references that are missing raise an error no one turns into a
\* denial: the request is answered, with nothing more written.
Raises(q, entries) ==
    Permitted(q, entries) /\ NeedsReferences(q, entries) /\ ~ q.approval.refs

MediationRaises(c) ==
    /\ Decide(c, "raised")
    /\ Raises(call[c], catalog["connectors"])
    /\ call' = [call EXCEPT ![c] = None]
    /\ UNCHANGED written

Allow(c) ==
    /\ Decide(c, "allowed")
    /\ Allowed(call[c], catalog["connectors"])
    /\ UNCHANGED <<call, written>>

Deny(c) ==
    /\ Decide(c, "denied")
    /\ ~ Allowed(call[c], catalog["connectors"])
    /\ ~ Raises(call[c], catalog["connectors"])
    /\ UNCHANGED <<call, written>>

\* connector-invocation.json with its audit, then the run state.
WriteDecision(c) ==
    /\ call[c] # None
    /\ decision[c] # None
    /\ written' = [written EXCEPT ![c] = @ \cup {"invocation", "run_state"}]
    /\ call' = [call EXCEPT ![c] = None]
    /\ UNCHANGED decision

InvocationStep ==
    \E c \in Callers :
        StartInvocation(c) \/ MediationRaises(c) \/ Allow(c) \/ Deny(c) \/ WriteDecision(c)

Init == RegistrationInit /\ InvocationInit

Next ==
    \/ RegistrationStep /\ UNCHANGED invocationVars
    \/ InvocationStep /\ UNCHANGED registrationVars

Spec == Init /\ [][Next]_vars

-----------------------------------------------------------------------------
\* The variables stay within what the code can store in them.
TypeOK ==
    /\ catalog \in [Catalogs -> Seq(Entries)]
    /\ report \in Reports \cup {None}
    /\ at \in [Threads -> {"idle", "validate", "gate", "read", "replace", "record"}]
    /\ request \in [Threads -> Registrations \cup {None}]
    /\ \A t \in Threads : at[t] # "idle" => request[t] # None
    /\ base \in [Threads -> Seq(Entries)]
    /\ recorded \in [Catalogs -> SUBSET Entries]
    /\ gated \subseteq Reports
    /\ crossed \in [Threads -> BOOLEAN]
    /\ overlapped \in [Catalogs -> SUBSET Entries]
    /\ call \in [Callers -> Invocations \cup {None}]
    /\ decision \in [Callers -> {None} \cup
          [outcome : {"allowed", "denied", "raised"}, of : Invocations]]
    /\ written \in [Callers -> SUBSET {"request", "invocation", "run_state"}]

\* No order of overlapping registrations lists an id twice.  One catalog with a
\* double entry refuses every validation, every invocation and, for tools.json,
\* the tool policy of every workflow: catalog.py, runtime_connectors_by_id and
\* runtime_tools_by_id.
CatalogsLoad == \A k \in Catalogs : Loads(catalog[k])

\* An entry whose registration record says "installed" is in the catalog, unless
\* its registration overlapped another one of the same catalog: register.py,
\* append_runtime_connector and append_runtime_tool.
InstalledStays ==
    \A k \in Catalogs : recorded[k] \ overlapped[k] \subseteq ToSet(catalog[k])

\* A tool that repeats an earlier tool's command has a consolidation plan, unless
\* its registration overlapped another one: the command is compared at validation
\* only and the append looks at nothing but the id.  tools/catalog.py,
\* validate_tool_admission_manifest; README.tool-policy.md.
RepeatsAreConsolidated ==
    \A i, j \in DOMAIN catalog["tools"] :
        LET earlier == catalog["tools"][i].manifest
            later == catalog["tools"][j]
        IN  i < j /\ later.manifest.command # None /\ earlier.command = later.manifest.command
            => later.manifest.consolidates \/ later \in overlapped["tools"]

\* An operation is allowed to a caller only if the release gate once let its
\* connector ship with that operation evaluated, however registrations, reports
\* and invocations interleave: register.py, validate_release_gate_report;
\* mediator.py, load_enabled_connector.
AllowedWasGated ==
    \A c \in Callers : decision[c] # None /\ decision[c].outcome = "allowed" =>
        \E g \in gated : g.connector = decision[c].of.connector
                         /\ decision[c].of.operation \in g.operations

=============================================================================
