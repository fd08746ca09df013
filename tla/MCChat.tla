------------------------------- MODULE MCChat -------------------------------
(* Two ids that change hands, for model checking Chat. *)
EXTENDS Chat, TLC

CONSTANTS first, second, ann, phoenix

Ids == Permutations(Clients)

=============================================================================
