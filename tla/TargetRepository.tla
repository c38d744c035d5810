--------------------------- MODULE TargetRepository ---------------------------
(***************************************************************************)
(* The repository a request names as its target_root, and everybody else   *)
(* who edits it: developers, other tools, real apply runs.  No controller  *)
(* locks it, so it may change between any two of a workflow's steps.       *)
(***************************************************************************)
EXTENDS PacketOperations

CONSTANTS
    InitialTree,   \* InitialTree[f]: the content of f at the beginning
    Revisions,     \* the contents an editor gives a file
    MaxEdits       \* bound: how often somebody edits

VARIABLES
    source,        \* source[f]: the content of f in the target repository
    edits,         \* how often somebody has edited it
    operations     \* request.packet_operations: what to do to it

Tree == [Files -> Content \cup {Absent}]

ASSUME RepositoryAssumption ==
    /\ InitialTree \in Tree
    /\ Revisions \subseteq Content \cup {Absent}
    /\ MaxEdits \in Nat

RepositoryTypeOK ==
    /\ source \in Tree
    /\ edits \in 0 .. MaxEdits
    /\ operations \in Seq(Operation)

RepositoryInit ==
    /\ source = InitialTree
    /\ edits = 0

Targets == {operations[i].path : i \in DOMAIN operations}

\* Somebody writes, deletes or restores a file.
Edit(f) ==
    /\ edits < MaxEdits
    /\ \E content \in (Revisions \cup {InitialTree[f]}) \ {source[f]} :
           source' = [source EXCEPT ![f] = content]
    /\ edits' = edits + 1
    /\ UNCHANGED operations

=============================================================================
