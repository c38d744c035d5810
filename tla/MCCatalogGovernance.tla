------------------------- MODULE MCCatalogGovernance -------------------------
(***************************************************************************)
(* Instance of CatalogGovernance: two designs of one connector, and two    *)
(* tools with one command, one of them with a consolidation plan.          *)
(***************************************************************************)
EXTENDS CatalogGovernance, TLC

CONSTANTS tickets, lookup, update, readScope, writeScope, alice

Operation(class, scopes) ==
    [class |-> class, approvalRequired |-> class = "write", scopes |-> scopes]

Connector(id, protocol, auth, scopes, operations) ==
    [id |-> id, protocol |-> protocol, auth |-> auth, scopes |-> scopes,
     operations |-> operations]

Stub == Connector(tickets, "local_stub", "none_for_stub", {}, lookup :> Operation("read", {}))
Scoped == Connector(tickets, "local_stub", "oauth_user_scope", {readScope, writeScope},
                    lookup :> Operation("read", {readScope}) @@ update :> Operation("write", {}))

Tool(id, command, exposed, consolidates) ==
    [id |-> id, command |-> command, exposed |-> exposed, consolidates |-> consolidates]

Listing == Tool("git_ls_files", "ls", TRUE, FALSE)
Scan == Tool("scan_files", "grep", TRUE, FALSE)
PlannedGrep == Tool("git_grep", "grep", TRUE, TRUE)

MCManifests == {Stub, Scoped, Listing, Scan, PlannedGrep}
MCSeededTools == <<[manifest |-> Listing, enabled |-> FALSE]>>

Request(manifest, catalogName, enabled, scopes) ==
    [catalog |-> catalogName, manifest |-> manifest, enabled |-> enabled, scopes |-> scopes,
     refs |-> TRUE, proof |-> TRUE]

Draft(m) == Request(m, "connectors", FALSE, {"registration"})
Enabling(m) == Request(m, "connectors", TRUE, {"registration", "enablement"})
Adding(m) == Request(m, "tools", FALSE, {"registration"})

MCRegistrations ==
    {Draft(Stub), Enabling(Scoped), Request(Stub, "connectors", TRUE, {"registration"})}
    \cup {Adding(m) : m \in {Scan, PlannedGrep}}

Report(m, operations, verdict) ==
    [connector |-> m.id, operations |-> operations, verdict |-> verdict]
MCReports == {Report(Stub, {lookup}, "ship"), Report(Scoped, {lookup, update}, "ship")}

Approval(actor, granted, refs) ==
    [connector |-> tickets, operation |-> update, actor |-> actor, granted |-> granted,
     refs |-> refs]
Invocation(operation, granted, approval) ==
    [connector |-> tickets, operation |-> operation, actor |-> alice, actorValid |-> TRUE,
     granted |-> granted, argumentsFit |-> TRUE, dryRun |-> TRUE, approval |-> approval]

\* One call of which all is in order, and one whose approval has no references.
All == {readScope, writeScope}
MCInvocations ==
    {Invocation(update, All, Approval(alice, All, TRUE)),
     Invocation(update, All, Approval(alice, All, FALSE))}
ThreadSymmetry == Permutations(Threads)
=============================================================================
