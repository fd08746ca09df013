------------------------------- MODULE MCBans -------------------------------
(* Two clients at one address with a machine each, and one of the machines  *)
(* at another address too, for model checking Bans.                         *)
EXTENDS Bans, TLC

CONSTANTS c1, c2, c3, home, work, laptop, desktop

Addresses == (c1 :> home) @@ (c2 :> home) @@ (c3 :> work)
Machines == (c1 :> laptop) @@ (c2 :> desktop) @@ (c3 :> laptop)

\* Never ending, refused, over at once, and one tick long.
Forever == -2
TypedTimes == {-2, -1, 0, 1}
PacketMinutes == {-2, 1}

\* The moderator comes first and does not leave; the others come and go.
ModeratorStays == Len(list') > 0 => list'[1] = c2 /\ conn'[c2].phase # "finished"

=============================================================================
