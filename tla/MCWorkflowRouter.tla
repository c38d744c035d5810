--------------------------- MODULE MCWorkflowRouter ---------------------------
(***************************************************************************)
(* Instance of WorkflowRouter: docs/a.md and docs-a.md, which share a      *)
(* backup name, and a file that is not tracked.  An editor may delete any  *)
(* of them and bring it back.                                              *)
(***************************************************************************)
EXTENDS WorkflowRouter

CONSTANTS docs_slash_a, docs_dash_a, notes, x, y

MCFiles == {docs_slash_a, docs_dash_a, notes}
MCTexts == {x, y}
MCInitialTree == docs_slash_a :> <<x>> @@ docs_dash_a :> <<y>> @@ notes :> <<x>>
MCRevisions == {<<x, x>>, Absent}
MCTracked == {docs_slash_a, docs_dash_a}
MCBackupNames == {"docs-a.md.bak", "notes.bak"}
MCBackupName == [f \in MCFiles |-> IF f = notes THEN "notes.bak" ELSE "docs-a.md.bak"]

Replace(f, old, text) == [kind |-> "replace_text", path |-> f, old |-> old, text |-> text]
Added(f, text) == [kind |-> "append_text", path |-> f, old |-> text, text |-> text]
Create(f, text) == [kind |-> "create_file", path |-> f, old |-> text, text |-> text]

MCRequests ==
    { <<Added(docs_slash_a, y), Replace(notes, x, y)>>,         \* two files
      <<Added(docs_slash_a, y), Replace(docs_dash_a, y, x)>>,   \* one backup name
      <<Added(docs_slash_a, y), Replace(docs_slash_a, x, y)>>,  \* one file twice
      <<Replace(docs_slash_a, x, y), Replace(docs_slash_a, y, x)>>,   \* comes to nothing
      <<Create(notes, x)>> }

MCPrompts == {[tokens |-> 4, rough |-> 3], [tokens |-> 9, rough |-> 4], [tokens |-> 7, rough |-> 9]}

=============================================================================
