--------------------------- MODULE PacketOperations ---------------------------
(***************************************************************************)
(* The operations a packet may ask for, as implementation/workflow.py      *)
(* carries them out.  A file's content is seen as far as the operations    *)
(* look at it: a sequence of pieces of text, or Absent.                    *)
(***************************************************************************)
EXTENDS Naturals, Sequences, FiniteSets, SequencesExt

CONSTANTS
    Files, Texts,   \* paths, pieces of text
    Absent          \* the content of a file that does not exist

Content == Seq(Texts)

Operation == [kind : {"append_text", "replace_text", "create_file"},
              path : Files, old : Texts, text : Texts]

\* apply_operation_to_content: when it does not raise.
Applicable(operation, content) ==
    CASE operation.kind = "append_text"  -> content # Absent
      [] operation.kind = "replace_text" ->
            content # Absent
            /\ Cardinality({i \in DOMAIN content : content[i] = operation.old}) = 1
      [] operation.kind = "create_file"  -> content = Absent

\* What it returns.
Applied(operation, content) ==
    CASE operation.kind = "append_text"  -> Append(content, operation.text)
      [] operation.kind = "replace_text" -> ReplaceAll(content, operation.old, operation.text)
      [] operation.kind = "create_file"  -> <<operation.text>>

=============================================================================
