---------------------- MODULE MCImplementationWorkflow ----------------------
(***************************************************************************)
(* Small instances of ImplementationWorkflow for TLC.                      *)
(***************************************************************************)
EXTENDS ImplementationWorkflow

CONSTANTS f1, f2, f3, p1, p2, p3, a, b, c, d

\* f3 is to be created.
MCOriginal == (f1 :> <<a>>) @@ (f2 :> <<b>>) @@ (f3 :> Absent)

AppendTo(id, file, text) ==
    [id |-> id, kind |-> "append_text", path |-> file, old |-> text, text |-> text]
Replace(id, file, old, text) ==
    [id |-> id, kind |-> "replace_text", path |-> file, old |-> old, text |-> text]
Create(id, file, text) ==
    [id |-> id, kind |-> "create_file", path |-> file, old |-> text, text |-> text]

\* Can be completed in both modes.
MCEdits == <<AppendTo(p1, f1, c), Replace(p2, f2, b, c), AppendTo(p3, f2, d)>>

\* Its last packet is refused in apply mode.
MCCreation == <<AppendTo(p1, f1, c), Replace(p2, f1, a, b), Create(p3, f3, d)>>

MCPlans == {MCEdits, MCCreation}

\* Two packets of one id.
MCSameIdPlans == {<<AppendTo(p1, f1, b), AppendTo(p1, f1, c), AppendTo(p3, f2, d)>>}

=============================================================================
