----------------------------- MODULE PlayerIds ------------------------------
(***************************************************************************)
(* What the registry of clients promises about user ids: an id belongs to  *)
(* nobody and may be handed out, or belongs to one client until that       *)
(* client is removed.  In which order free ids are handed out is left      *)
(* open.                                                                   *)
(***************************************************************************)
CONSTANTS Ids, Clients, NoClient

VARIABLES
  free,      \* the ids that may be handed out
  holder     \* the client of an id, NoClient when it has none

Init == free = Ids /\ holder = [i \in Ids |-> NoClient]

HandOut(i, c) ==
  /\ i \in free
  /\ \A j \in Ids : holder[j] # c
  /\ free' = free \ {i}
  /\ holder' = [holder EXCEPT ![i] = c]

TakeBack(i) ==
  /\ holder[i] # NoClient
  /\ free' = free \cup {i}
  /\ holder' = [holder EXCEPT ![i] = NoClient]

Next == \E i \in Ids : TakeBack(i) \/ \E c \in Clients : HandOut(i, c)

Spec == Init /\ [][Next]_<<free, holder>>

=============================================================================
