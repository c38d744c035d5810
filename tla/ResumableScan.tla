---------------------------- MODULE ResumableScan ----------------------------
(***************************************************************************)
(* What a run promises that reads one document from its first byte to its  *)
(* last and may be stopped and taken up again anywhere: the stretches it   *)
(* has covered follow each other without gap or overlap, what is covered   *)
(* stays covered, and the run is complete only at the end of the document. *)
(* The streaming documenter implements it.                                 *)
(***************************************************************************)
EXTENDS Naturals, Sequences

CONSTANT Sizes      \* possible lengths of the document

VARIABLES
    size,     \* the length of the document
    covered,  \* the stretches <<first, behind>> read so far, in order
    phase     \* "none", "open", "complete" or "lost"

vars == <<size, covered, phase>>

Position == IF covered = <<>> THEN 0 ELSE covered[Len(covered)][2]

Init == size \in Sizes /\ covered = <<>> /\ phase = "none"

Open ==
    /\ phase = "none"
    /\ phase' = "open"
    /\ UNCHANGED <<size, covered>>

Advance ==
    /\ phase = "open"
    /\ \E behind \in Position + 1 .. size :
           covered' = Append(covered, <<Position, behind>>)
    /\ UNCHANGED <<size, phase>>

Complete ==
    /\ phase = "open"
    /\ Position = size
    /\ phase' = "complete"
    /\ UNCHANGED <<size, covered>>

\* The durable state becomes unreadable.
Lose ==
    /\ phase # "lost"
    /\ phase' = "lost"
    /\ covered' = <<>>
    /\ UNCHANGED size

Next == Open \/ Advance \/ Complete \/ Lose

Spec == Init /\ [][Next]_vars

=============================================================================
