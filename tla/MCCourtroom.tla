----------------------------- MODULE MCCourtroom -----------------------------
(* A moderator and a player in two areas, one piece of evidence for all and  *)
(* one for a witness, for model checking Courtroom.                          *)
EXTENDS Courtroom

CONSTANTS
  moderator, player, lobby, court, letter, knife, wit,
  MaxTouched     \* bound on the aspects of all areas that differ from the
                 \* configured ones, in the states from which the search goes on

Addressees == [e \in Evidence |-> IF e = letter THEN {} ELSE {wit}]

OutOfRange == {-1, 2}

\* The judge log apart.
AsConfigured ==
  [health |-> [s \in Sides |-> MaxHealth], scene |-> DefaultScene, bgLocked |-> FALSE,
   mode |-> DefaultMode, evidence |-> << >>, timer |-> Idle]

Touched ==
  {<<a, aspect>> \in Areas \X DOMAIN AsConfigured : room[a][aspect] # AsConfigured[aspect]}

FewTouched == Cardinality(Touched) + (IF clock = Idle THEN 0 ELSE 1) <= MaxTouched

=============================================================================
