---------------------------- MODULE AreaCommands ----------------------------
(***************************************************************************)
(* The commands of commands/area.cpp, and cmdClearCM, that change who is   *)
(* in an area, who owns it, who is invited and how it is locked.  c is the *)
(* client that sends the command, t the user id it names.                  *)
(***************************************************************************)
EXTENDS Server

\* JoinAreaPacket and /area.
JoinArea(c, a) ==
  /\ Active(c)
  /\ Moves(c, a)
  /\ LET as == AreasAfterMove(c, a) IN
       Commit(FALSE, as, ClientsAfterMove(c, a), TellCounts(news, as))

\* Any packet or command that ends in broadcast(packet, area): a chat line, a
\* splash, a track, a health bar.  It changes nothing unless it dies.
BroadcastToArea(c) ==
  /\ Active(c)
  /\ DanglingListener(areas, Here(c))
  /\ Crash

\* /a <area id> and, for each area that the client owns, /s.  /a asks an area
\* for its owners without asking whether there is one of that id.
AreaMessage(c, a) ==
  /\ Active(c)
  /\ \/ a \notin Areas /\ LosesArea
     \/ /\ a \in Areas
        /\ client[c].id \in areas[a].owners
        /\ DanglingListener(areas, a)
        /\ Crash

\* The commands below that talk to the whole area first, or after adding an
\* owner, end like this.
CommitAloud(c, dangling, as, n) ==
  Commit(DanglingListener(areas, Here(c)) \/ dangling, as, client, n)

-----------------------------------------------------------------------------
(* Owners *)

\* Mutant: no area update.
AddsOwnerQuietly(c, id) ==
  LET as == [areas EXCEPT ![Here(c)] = Area!AddOwner(@, id)] IN
    CommitAloud(c, DanglingOwner(as), as, news)

AddsOwner(c, id) ==
  LET as == [areas EXCEPT ![Here(c)] = Area!AddOwner(@, id)] IN
    CommitAloud(c, DanglingOwner(as), as, TellOwners(news, as))

\* /cm in an area nobody owns.
BecomeCM(c) ==
  /\ Active(c)
  /\ Here(c) \notin Protected
  /\ areas[Here(c)].owners = {}
  /\ AddsOwner(c, client[c].id)

\* Mutant: anybody may name owners once the area has one.
PromoteCMByAnyone(c, t) ==
  /\ Active(c)
  /\ Here(c) \notin Protected
  /\ areas[Here(c)].owners # {}
  /\ Found(t)
  /\ t \notin areas[Here(c)].owners
  /\ AddsOwner(c, t)

\* Mutant: the id need not be that of a client.
PromoteCMUnfound(c, t) ==
  /\ Active(c)
  /\ Here(c) \notin Protected
  /\ client[c].id \in areas[Here(c)].owners
  /\ t \notin areas[Here(c)].owners
  /\ AddsOwner(c, t)

\* /cm <id> by an owner.
PromoteCM(c, t) ==
  /\ Active(c)
  /\ Here(c) \notin Protected
  /\ client[c].id \in areas[Here(c)].owners
  /\ Found(t)
  /\ t \notin areas[Here(c)].owners
  /\ AddsOwner(c, t)

RemovesOwner(c, id) ==
  LET as == [areas EXCEPT ![Here(c)] = Area!RemoveOwner(@, id)]
      n == IF Area!ReleasesLock(areas[Here(c)], id) THEN TellLocks(news, as)
           ELSE news
  IN Commit(DanglingOwner(as), as, client, TellOwners(n, as))

\* /uncm: a moderator that owns nothing may also say it of itself.
UnCM(c) ==
  /\ Active(c)
  /\ HasCM(c)
  /\ areas[Here(c)].owners # {}
  /\ RemovesOwner(c, client[c].id)

\* /uncm <id>
UnCMOther(c, t) ==
  /\ Active(c)
  /\ IsModerator(c)
  /\ t \in areas[Here(c)].owners
  /\ Found(t)
  /\ RemovesOwner(c, t)

\* Mutant: takes the owners off the list without removeOwner.
ClearCMDirectly(c) ==
  LET as == [areas EXCEPT ![Here(c)].owners = {}]
  IN /\ Active(c)
     /\ IsModerator(c)
     /\ Commit(DanglingOwner(as), as, client, TellOwners(news, as))

\* /clearcm: removeOwner for each owner in turn, its result dropped.
ClearCM(c) ==
  LET here == areas[Here(c)]
      cleared == [here EXCEPT
                    !.owners = {},
                    !.invited = @ \ here.owners,
                    !.locked = IF here.owners # {} THEN "FREE" ELSE @]
      as == [areas EXCEPT ![Here(c)] = cleared]
  IN /\ Active(c)
     /\ IsModerator(c)
     /\ Commit(DanglingOwner(as), as, client, TellOwners(news, as))

-----------------------------------------------------------------------------
(* Invitations and the lock *)

InviteCommand(c, t) ==
  /\ Active(c)
  /\ HasCM(c)
  /\ Found(t)
  /\ t \notin areas[Here(c)].invited
  /\ Commit(FALSE, [areas EXCEPT ![Here(c)] = Area!Invite(@, t)], client, news)

UnInviteCommand(c, t) ==
  /\ Active(c)
  /\ HasCM(c)
  /\ Found(t)
  /\ t \notin areas[Here(c)].owners
  /\ t \in areas[Here(c)].invited
  /\ Commit(FALSE, [areas EXCEPT ![Here(c)] = Area!Uninvite(@, t)], client, news)

\* Mutant: the list keeps the clients that were removed.
IdsListedInWithRemoved(a) ==
  {client[d].id : d \in {e \in Clients : client[e].area = a}}

\* The ids of the clients the list says are in area a: also those that have
\* not shaken hands yet, and those that have left but are not removed.
IdsListedIn(a) == {client[d].id : d \in {e \in Registered : client[e].area = a}}

SetsLock(c, status) ==
  LET here == areas[Here(c)]
      as == [areas EXCEPT ![Here(c)] =
               Area!SetLock([here EXCEPT !.invited = @ \cup IdsListedIn(Here(c))],
                            status)]
  IN CommitAloud(c, FALSE, as, TellLocks(news, as))

\* /area_lock
Lock(c) ==
  /\ Active(c)
  /\ HasCM(c)
  /\ areas[Here(c)].locked # "LOCKED"
  /\ SetsLock(c, "LOCKED")

\* /area_spectate
Spectatable(c) ==
  /\ Active(c)
  /\ HasCM(c)
  /\ areas[Here(c)].locked # "SPECTATABLE"
  /\ SetsLock(c, "SPECTATABLE")

\* /area_unlock
UnLock(c) ==
  LET as == [areas EXCEPT ![Here(c)] = Area!SetLock(@, "FREE")] IN
  /\ Active(c)
  /\ HasCM(c)
  /\ areas[Here(c)].locked # "FREE"
  /\ CommitAloud(c, FALSE, as, TellLocks(news, as))

\* /area_kick: sends the target to area 0 under the target's own rights, then
\* uninvites it whether or not it went.
AreaKick(c, t) ==
  LET d == clientMap[t]
      goes == Moves(d, 0)
      moved == IF goes THEN AreasAfterMove(d, 0) ELSE areas
      as == [moved EXCEPT ![Here(c)] = Area!Uninvite(@, t)]
  IN /\ Active(c)
     /\ HasCM(c)
     /\ t \notin areas[Here(c)].owners
     /\ Found(t)
     /\ Here(d) = Here(c)
     /\ Commit(FALSE, as,
               IF goes THEN ClientsAfterMove(d, 0) ELSE client,
               IF goes THEN TellCounts(news, moved) ELSE news)

=============================================================================
