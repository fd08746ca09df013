----------------------------- MODULE MCTestimony -----------------------------
(* One who may save and one who has to ask, for model checking Testimony. *)
EXTENDS Testimony

CONSTANTS keeper, player

=============================================================================
