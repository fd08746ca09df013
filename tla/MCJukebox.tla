----------------------------- MODULE MCJukebox ------------------------------
(***************************************************************************)
(* Instances of Jukebox for TLC.                                           *)
(***************************************************************************)
EXTENDS Jukebox, TLC

CONSTANTS r1, r2, s1, s2, k1, k2     \* songs and categories

\* r1 is a song of the root list and k1 its category.
OneOfRoot == [n \in {r1, k1} |-> IF n = r1 THEN 2 ELSE 0]

\* Two songs of the root list.
TwoOfRoot == [n \in {r1, r2} |-> 2]

\* No duration, a duration, and one below zero.
EveryLength == {-1, 0, 1}

=============================================================================
