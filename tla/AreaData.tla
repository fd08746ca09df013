------------------------------ MODULE AreaData ------------------------------
(***************************************************************************)
(* The part of class AreaData that decides who is in an area, who runs it, *)
(* who may enter it and which characters are in use there, as operators    *)
(* on a record.  An area is                                                *)
(*   joined       m_joined_ids        clients that receive area broadcasts *)
(*   playerCount  m_playerCount       the number shown in the area list    *)
(*   taken        m_charactersTaken   characters in use                    *)
(*   owners       m_owners            case makers (CMs)                    *)
(*   invited      m_invited           clients that may pass the lock       *)
(*   locked       m_locked                                                 *)
(* The code keeps lists, removes from them with removeAll only and reads   *)
(* them with contains and isEmpty only: sets lose nothing.                 *)
(***************************************************************************)
EXTENDS Integers

NoCharacter == -1          \* kal::NoCharacterId

LockStatus == {"FREE", "LOCKED", "SPECTATABLE"}

\* The values an area can take when the clients' ids are Users.
AreaRecord(Users) ==
  [joined: SUBSET Users, playerCount: Int, taken: SUBSET Int,
   owners: SUBSET Users, invited: SUBSET Users, locked: LockStatus]

NewArea ==
  [joined |-> {}, playerCount |-> 0, taken |-> {},
   owners |-> {}, invited |-> {}, locked |-> "FREE"]

-----------------------------------------------------------------------------
(* Membership *)

Freed(taken, char) == IF char = NoCharacter THEN taken ELSE taken \ {char}

\* Mutant: a client that leaves still hears the area.
RemoveClientListening(A, char, id) ==
  [A EXCEPT !.playerCount = @ - 1, !.taken = Freed(@, char)]

RemoveClient(A, char, id) ==
  [A EXCEPT !.playerCount = @ - 1,
            !.taken = Freed(@, char),
            !.joined = @ \ {id}]

AddClient(A, char, id) ==
  [A EXCEPT !.playerCount = @ + 1,
            !.taken = IF char = NoCharacter THEN @ ELSE @ \cup {char},
            !.joined = @ \cup {id}]

-----------------------------------------------------------------------------
(* Ownership, invitations and the lock *)

\* Mutant: an owner is not invited.
AddOwnerUninvited(A, id) == [A EXCEPT !.owners = @ \cup {id}]

AddOwner(A, id) ==
  [A EXCEPT !.owners = @ \cup {id}, !.invited = @ \cup {id}]

\* Mutant: looks whether anybody owns the area before the owner is removed.
ReleasesLockLate(A, id) == A.owners = {} /\ A.locked # "FREE"

\* The result of removeOwner(id): the lock goes, and must be announced, when
\* nobody owns the area any more, whoever id is.
ReleasesLock(A, id) == A.owners \ {id} = {} /\ A.locked # "FREE"

RemoveOwner(A, id) ==
  [A EXCEPT !.owners = @ \ {id},
            !.invited = @ \ {id},
            !.locked = IF ReleasesLock(A, id) THEN "FREE" ELSE @]

Invite(A, id) == [A EXCEPT !.invited = @ \cup {id}]

Uninvite(A, id) == [A EXCEPT !.invited = @ \ {id}]

SetLock(A, status) == [A EXCEPT !.locked = status]

-----------------------------------------------------------------------------
(* Characters *)

\* The result of changeCharacter(from, to).
CharacterAdded(A, to) == to \notin A.taken /\ to # NoCharacter

ChangeCharacter(A, from, to) ==
  [A EXCEPT !.taken = IF to \in @ THEN @
                      ELSE IF to # NoCharacter THEN Freed(@, from) \cup {to}
                      ELSE Freed(@, from)]

=============================================================================
