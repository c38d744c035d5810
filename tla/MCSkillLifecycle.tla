-------------------------- MODULE MCSkillLifecycle --------------------------
(* Three skills: one is registered from the start, two arrive in one batch, *)
(* so that installing it can fail half-way and that a replacement can be    *)
(* asked to be deprecated in its turn.                                      *)
EXTENDS SkillLifecycle

CONSTANTS s1, s2, s3

MCSeeded == {s1}
MCBatches == {<<s2, s3>>}
=============================================================================
