------------------------ MODULE MCStreamingDocumenter ------------------------
(***************************************************************************)
(* Small instances of StreamingDocumenter for TLC.                         *)
(***************************************************************************)
EXTENDS StreamingDocumenter

Subject(d, q, m) == [doc |-> d, query |-> q, mode |-> m]

\* Three headings, one of which chunks of two or three bytes cut, and a mark
\* within a line; a query that overlaps itself, and one that chunks cut.
Outlined  == <<"h", "a", "n", "a", "h", "a", "b", "n", "h">>
Repeating == <<"a", "a", "a", "n", "h", "h", "a", "b">>
Short     == <<"a", "b", "n", "h", "a">>

MCSubjects == {Subject(d, q, "token_count") :
                  d \in {Outlined, Repeating}, q \in {<<"a", "b">>, <<"a", "a">>}}
              \cup {Subject(Short, <<"b">>, m) :
                        m \in {"context_presence", "coverage", "extract_facts", "classify"}}
              \cup {Subject(Repeating, <<"b">>, "summarize"),
                    Subject(Outlined, <<"a">>, "outline")}

Argument(chunk, bytes, chunks, timed, after, changes) ==
    [chunkBytes |-> chunk, maxBytes |-> bytes, maxChunks |-> chunks,
     timed |-> timed, stopAfter |-> after, allowChanges |-> changes]

MCArguments == {Argument(2, NoLimit, NoLimit, FALSE, NoLimit, FALSE),
                Argument(2, NoLimit, NoLimit, FALSE, 1, FALSE),
                Argument(3, 5, 2, TRUE, NoLimit, TRUE),
                Argument(3, NoLimit, NoLimit, FALSE, 2, TRUE)}

MCCitations == {<<3, 5>>}

=============================================================================
