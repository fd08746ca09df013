------------------------------ MODULE MCKenji -------------------------------
(***************************************************************************)
(* Instances of Kenji for TLC.                                             *)
(***************************************************************************)
EXTENDS Kenji, TLC

CONSTANTS c1, c2, c3, c4, c5,      \* client objects
          home, world, exile       \* addresses

TwoClients == {c1, c2}
ThreeClients == {c1, c2, c3}
AllClients == {c1, c2, c3, c4, c5}

\* Everybody connects from one loopback address.
FromLoopback == [c \in AllClients |-> world]

\* c1 and c2 share an address, c3 and c4 are on loopback and c5 is banned.
FromHome ==
  [c \in AllClients |-> CASE c \in {c3, c4} -> world [] c = c5 -> exile [] OTHER -> home]

\* Every character, and an id that is out of range and accepted.
AnyId == {-2} \cup Characters

\* Kenji with users that connect, move and choose characters and send no
\* other command about areas.
CharactersNext ==
  \/ \E c \in Clients : \/ ConnectionEvent(c)
                       \/ CharacterEvent(c)
                       \/ \E a \in Areas : JoinArea(c, a)
  \/ Halted

CharactersSpec == Init /\ [][CharactersNext]_vars

\* c1, the moderator, has id 0 and stays, is never cursed itself and asks for
\* no id out of range.
ModeratorPresides ==
  /\ client'[c1].phase # "finished" /\ client'[c1].id \in {NoId, 0}
  /\ client'[c1].curseList = {} /\ client'[c1].charId # -2

AnyClient == Permutations(ThreeClients)

=============================================================================
