------------------------------- MODULE MCExec -------------------------------
(* Two calls on one container, with the same command or with different ones. *)
EXTENDS Exec, TLC

Symmetric == Permutations(Call)
=============================================================================
