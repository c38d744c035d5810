------------------------- MODULE MCDocumenterReview -------------------------
(***************************************************************************)
(* Small instances of DocumenterReview for TLC.                            *)
(***************************************************************************)
EXTENDS DocumenterReview

CONSTANTS d1, d2, d3, d4, d5, d6

\* The seed document of two chunks, and one more from the manifest; the four
\* others are one too many for the limit on follow-ups, and follow-ups of
\* follow-ups of follow-ups would be too deep.
MCInitialTargets == <<d1, d2>>
MCChunkCount == [doc \in Docs |-> IF doc \in {d1, d3} THEN 2 ELSE 1]

=============================================================================
