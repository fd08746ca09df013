---------------------------- MODULE MemberProofs ----------------------------
(***************************************************************************)
(* Areas and their members, for any number of clients, ids, areas and      *)
(* characters: first who owns an area, who is invited, how it is locked    *)
(* and what everybody was told about it; then who is where, who is listed, *)
(* and what the clients' characters and curses keep to.                    *)
(***************************************************************************)
EXTENDS KenjiProofs, FiniteSetTheorems

-----------------------------------------------------------------------------
(* Owners, invitations, locks *)

\* One area at rest: its owners can pass its lock, and without moderators a
\* lock has an owner.
Kept(A) ==
  /\ A.owners \subseteq A.invited
  /\ Moderators = {} /\ A.locked # "FREE" => A.owners # {}

\* One area that has been A and is B.
Rule(A, B) ==
  /\ Kept(B)
  /\ A.owners # {} /\ B.owners = {} => B.locked = "FREE"

\* The area updates n are true of as.
Current(as, n) ==
  \A a \in Areas : /\ n.count[a] = as[a].playerCount
                   /\ n.owners[a] = as[a].owners
                   /\ Moderators = {} => n.locked[a] = as[a].locked

\* No area is locked otherwise than now, as far as that is announced.
SameLocks(as) == Moderators = {} => \A a \in Areas : as[a].locked = areas[a].locked

Order == OwnersAreInvited /\ LockHasOwner /\ NewsIsCurrent

\* What a step has to do.
KeepsOrder ==
  /\ Order'
  /\ \A a \in Areas : areas[a].owners # {} /\ areas'[a].owners = {}
                        => areas'[a].locked = "FREE"

LEMMA OrderMeans ==
  Order <=> (\A a \in Areas : Kept(areas[a])) /\ Current(areas, news)
  BY DEF Order, OwnersAreInvited, LockHasOwner, NewsIsCurrent, Kept, Current

-----------------------------------------------------------------------------
(* The operators on an area *)

LEMMA OwnerRules ==
  ASSUME NEW A \in Area!AreaRecord(Ids), Kept(A), NEW i \in Ids
  PROVE  /\ Rule(A, A)
         /\ Rule(A, Area!AddOwner(A, i))
         /\ Rule(A, Area!RemoveOwner(A, i))
         /\ Rule(A, Area!Invite(A, i))
         /\ i \notin A.owners => Rule(A, Area!Uninvite(A, i))
<1> USE DEF Area!AreaRecord, Rule, Kept
<1>1. Rule(A, Area!AddOwner(A, i))
  BY DEF Area!AddOwner
<1>2. Rule(A, Area!RemoveOwner(A, i))
  BY DEF Area!RemoveOwner, Area!ReleasesLock
<1>3. Rule(A, Area!Invite(A, i))
  BY DEF Area!Invite
<1>4. i \notin A.owners => Rule(A, Area!Uninvite(A, i))
  BY DEF Area!Uninvite
<1>5. Rule(A, A)
  OBVIOUS
<1> QED BY <1>1, <1>2, <1>3, <1>4, <1>5

\* An area that differs from A in members, count or characters only.
SameRule(A, B) ==
  A.owners = B.owners /\ A.invited = B.invited /\ A.locked = B.locked

LEMMA MemberRules ==
  ASSUME NEW A \in Area!AreaRecord(Ids), NEW i, NEW ch
  PROVE  /\ SameRule(A, Area!RemoveClient(A, ch, i))
         /\ SameRule(A, Area!AddClient(A, ch, i))
  BY DEF Area!AreaRecord, SameRule, Area!RemoveClient, Area!AddClient

LEMMA CharacterRules ==
  ASSUME NEW A \in Area!AreaRecord(Ids), NEW from, NEW to
  PROVE  /\ SameRule(A, Area!ChangeCharacter(A, from, to))
         /\ Area!ChangeCharacter(A, from, to).playerCount = A.playerCount
  BY DEF Area!AreaRecord, SameRule, Area!ChangeCharacter

-----------------------------------------------------------------------------
(* How a handler ends *)

LEMMA EndsOrder ==
  ASSUME Registry, Order, NEW as \in AreaMap, NEW cs, NEW n, Ends(as, cs, n),
         \A a \in Areas : Rule(areas[a], as[a]), Current(as, n)
  PROVE  KeepsOrder
<1>1. CASE Crash
  <2>1. UNCHANGED <<areas, news>>
    BY <1>1 DEF Crash
  <2>2. Order'
    BY <2>1 DEF Order, OwnersAreInvited, LockHasOwner, NewsIsCurrent
  <2> QED BY <2>1, <2>2 DEF KeepsOrder
<1>2. CASE areas' = as /\ news' = n
  <2>1. Order'
    BY <1>2 DEF Order, OwnersAreInvited, LockHasOwner, NewsIsCurrent, Rule, Kept,
                Current
  <2> QED BY <1>2, <2>1 DEF KeepsOrder, Rule
<1> QED BY <1>1, <1>2 DEF Ends

\* What is told of a map with the same owners, counts or locks as now.
LEMMA CurrentNews ==
  ASSUME Registry, Order, NEW as \in AreaMap
  PROVE  /\ (\A a \in Areas : as[a].owners = areas[a].owners) /\ SameLocks(as)
              => Current(as, TellCounts(news, as))
         /\ (\A a \in Areas : as[a].playerCount = areas[a].playerCount)
              => /\ SameLocks(as) => Current(as, TellOwners(news, as))
                 /\ Current(as, TellOwners(TellLocks(news, as), as))
         /\ (\A a \in Areas : /\ as[a].owners = areas[a].owners
                              /\ as[a].playerCount = areas[a].playerCount)
              => /\ SameLocks(as) => Current(as, news)
                 /\ Current(as, TellLocks(news, as))
<1>1. news \in NewsRecord
  BY CurrentTypes
<1>2. Current(areas, news)
  BY OrderMeans
<1> QED BY <1>1, <1>2
        DEF NewsRecord, Current, SameLocks, TellCounts, TellOwners, TellLocks

\* A handler that rewrites one area with the same player count, and tells what
\* else it changes: the owners, the lock, both or neither.
LEMMA OneAreaOrder ==
  ASSUME Registry, Order, NEW a \in Areas, NEW A \in Area!AreaRecord(Ids),
         Rule(areas[a], A), A.playerCount = areas[a].playerCount,
         NEW as, as = [areas EXCEPT ![a] = A],
         NEW cs,
         \/ /\ Moderators = {} => A.locked = areas[a].locked
            /\ \/ Ends(as, cs, TellOwners(news, as))
               \/ A.owners = areas[a].owners /\ Ends(as, cs, news)
         \/ Ends(as, cs, TellOwners(TellLocks(news, as), as))
         \/ A.owners = areas[a].owners /\ Ends(as, cs, TellLocks(news, as))
  PROVE  KeepsOrder
<1>1. /\ as \in AreaMap
      /\ \A b \in Areas : as[b] = IF b = a THEN A ELSE areas[b]
      /\ \A b \in Areas : areas[b] \in Area!AreaRecord(Ids)
  BY CurrentTypes DEF AreaMap
<1>2. \A b \in Areas : Rule(areas[b], as[b])
  <2>1. \A b \in Areas : Kept(areas[b])
    BY OrderMeans
  <2> QED BY <1>1, <2>1 DEF Rule
<1>3. \A b \in Areas : as[b].playerCount = areas[b].playerCount
  BY <1>1
<1>4. A.owners = areas[a].owners => \A b \in Areas : as[b].owners = areas[b].owners
  BY <1>1
<1>5. (Moderators = {} => A.locked = areas[a].locked) => SameLocks(as)
  BY <1>1 DEF SameLocks
<1>6. /\ SameLocks(as) => Current(as, TellOwners(news, as))
      /\ Current(as, TellOwners(TellLocks(news, as), as))
      /\ A.owners = areas[a].owners
           => /\ SameLocks(as) => Current(as, news)
              /\ Current(as, TellLocks(news, as))
  BY <1>1, <1>3, <1>4, CurrentNews
<1> QED BY <1>1, <1>2, <1>5, <1>6, EndsOrder

-----------------------------------------------------------------------------
(* Each event keeps the order *)

\* A client in session is where an area in order is.
LEMMA HereInOrder ==
  ASSUME Registry, Order, NEW c \in Clients, Active(c)
  PROVE  /\ Here(c) \in Areas /\ areas[Here(c)] \in Area!AreaRecord(Ids)
         /\ Kept(areas[Here(c)])
         /\ client[c].id \in Ids
  BY ActiveClient, OrderMeans DEF Active

LEMMA AddsOwnerOrder ==
  ASSUME Registry, Order, NEW c \in Clients, Active(c), NEW t \in Ids,
         AddsOwner(c, t)
  PROVE  KeepsOrder
<1> DEFINE A == Area!AddOwner(areas[Here(c)], t)
           as == [areas EXCEPT ![Here(c)] = A]
<1>1. /\ Here(c) \in Areas /\ areas[Here(c)] \in Area!AreaRecord(Ids)
      /\ Kept(areas[Here(c)])
  BY HereInOrder
<1>2. A \in Area!AreaRecord(Ids) /\ Rule(areas[Here(c)], A)
  BY <1>1, OwnerTypes, OwnerRules
<1>3. /\ A.playerCount = areas[Here(c)].playerCount
      /\ A.locked = areas[Here(c)].locked
  BY <1>1 DEF Area!AreaRecord, Area!AddOwner
<1>4. Ends(as, client, TellOwners(news, as))
  BY Zenon DEF AddsOwner, CommitAloud, Commit, Ends
<1> HIDE DEF A
<1> QED BY <1>1, <1>2, <1>3, <1>4, OneAreaOrder

LEMMA RemovesOwnerOrder ==
  ASSUME Registry, Order, NEW c \in Clients, Active(c), NEW t \in Ids,
         RemovesOwner(c, t)
  PROVE  KeepsOrder
<1> DEFINE A == Area!RemoveOwner(areas[Here(c)], t)
           as == [areas EXCEPT ![Here(c)] = A]
<1>1. /\ Here(c) \in Areas /\ areas[Here(c)] \in Area!AreaRecord(Ids)
      /\ Kept(areas[Here(c)])
  BY HereInOrder
<1>2. A \in Area!AreaRecord(Ids) /\ Rule(areas[Here(c)], A)
  BY <1>1, OwnerTypes, OwnerRules
<1>3. /\ A.playerCount = areas[Here(c)].playerCount
      /\ ~Area!ReleasesLock(areas[Here(c)], t) => A.locked = areas[Here(c)].locked
  BY <1>1 DEF Area!AreaRecord, Area!RemoveOwner
<1>4. \/ Ends(as, client, TellOwners(TellLocks(news, as), as))
      \/ /\ ~Area!ReleasesLock(areas[Here(c)], t)
         /\ Ends(as, client, TellOwners(news, as))
  BY Zenon DEF RemovesOwner, Commit, Ends
<1> HIDE DEF A
<1> QED BY <1>1, <1>2, <1>3, <1>4, OneAreaOrder

LEMMA ClearCMOrder ==
  ASSUME Registry, Order, NEW c \in Clients, ClearCM(c)
  PROVE  KeepsOrder
<1> DEFINE here == areas[Here(c)]
           A == [here EXCEPT
                   !.owners = {},
                   !.invited = @ \ here.owners,
                   !.locked = IF here.owners # {} THEN "FREE" ELSE @]
           as == [areas EXCEPT ![Here(c)] = A]
<1>1. Here(c) \in Areas /\ here \in Area!AreaRecord(Ids) /\ Kept(here)
  BY HereInOrder DEF ClearCM
<1>2. /\ A \in Area!AreaRecord(Ids) /\ Rule(here, A)
      /\ A.playerCount = here.playerCount
  <2> HIDE DEF here
  <2> QED BY <1>1 DEF Area!AreaRecord, Area!LockStatus, Rule, Kept
<1>3. Ends(as, client, TellOwners(news, as)) /\ Moderators # {}
  BY Zenon DEF ClearCM, Commit, Ends, IsModerator
<1> HIDE DEF A
<1> QED BY <1>1, <1>2, <1>3, OneAreaOrder

LEMMA InvitesOrder ==
  ASSUME Registry, Order, NEW c \in Clients, NEW t \in Ids,
         InviteCommand(c, t) \/ UnInviteCommand(c, t)
  PROVE  KeepsOrder
<1> DEFINE here == areas[Here(c)]
           Good(A) == /\ A \in Area!AreaRecord(Ids)
                      /\ Rule(here, A)
                      /\ A.playerCount = here.playerCount
                      /\ A.owners = here.owners
                      /\ A.locked = here.locked
<1>1. Here(c) \in Areas /\ here \in Area!AreaRecord(Ids) /\ Kept(here)
  BY HereInOrder DEF InviteCommand, UnInviteCommand
<1>2. Good(Area!Invite(here, t))
  <2>1. Area!Invite(here, t) \in Area!AreaRecord(Ids) /\ Rule(here, Area!Invite(here, t))
    BY <1>1, OwnerTypes, OwnerRules
  <2> QED BY <1>1, <2>1 DEF Area!AreaRecord, Area!Invite
<1>3. t \notin here.owners => Good(Area!Uninvite(here, t))
  <2>1. /\ Area!Uninvite(here, t) \in Area!AreaRecord(Ids)
        /\ t \notin here.owners => Rule(here, Area!Uninvite(here, t))
    BY <1>1, OwnerTypes, OwnerRules
  <2> QED BY <1>1, <2>1 DEF Area!AreaRecord, Area!Uninvite
<1>4. \/ Ends([areas EXCEPT ![Here(c)] = Area!Invite(here, t)], client, news)
      \/ /\ t \notin here.owners
         /\ Ends([areas EXCEPT ![Here(c)] = Area!Uninvite(here, t)], client, news)
  BY Zenon DEF InviteCommand, UnInviteCommand, Commit, Ends
<1> QED BY <1>1, <1>2, <1>3, <1>4, OneAreaOrder

LEMMA LocksOrder ==
  ASSUME Registry, Order, NEW c \in Clients, Lock(c) \/ Spectatable(c) \/ UnLock(c)
  PROVE  KeepsOrder
<1> DEFINE here == areas[Here(c)]
           open == [here EXCEPT !.invited = @ \cup IdsListedIn(Here(c))]
           Set(A) == [areas EXCEPT ![Here(c)] = A]
           Good(A) == /\ A \in Area!AreaRecord(Ids)
                      /\ Rule(here, A)
                      /\ A.playerCount = here.playerCount
                      /\ A.owners = here.owners
<1>1. Here(c) \in Areas /\ here \in Area!AreaRecord(Ids) /\ Kept(here)
  BY HereInOrder DEF Lock, Spectatable, UnLock
<1>2. Moderators = {} => here.owners # {}
  BY DEF Lock, Spectatable, UnLock, HasCM, IsModerator
<1>3. /\ Good(Area!SetLock(open, "LOCKED"))
      /\ Good(Area!SetLock(open, "SPECTATABLE"))
      /\ Good(Area!SetLock(here, "FREE"))
  <2>1. IdsListedIn(Here(c)) \in SUBSET Ids
    BY ListedIds
  <2> HIDE DEF here
  <2> QED BY <1>1, <1>2, <2>1
          DEF Area!AreaRecord, Area!LockStatus, Area!SetLock, Rule, Kept
<1>4. \E A \in {Area!SetLock(open, "LOCKED"), Area!SetLock(open, "SPECTATABLE"),
                Area!SetLock(here, "FREE")} :
        Ends(Set(A), client, TellLocks(news, Set(A)))
  BY Zenon DEF Lock, Spectatable, UnLock, SetsLock, CommitAloud, Commit, Ends
<1> HIDE DEF here, open
<1> QED BY <1>1, <1>3, <1>4, OneAreaOrder DEF here

\* A map whose areas have the owners, guests and locks they have now.
SameRules(as) == \A a \in Areas : SameRule(areas[a], as[a])

LEMMA SameRulesRule ==
  ASSUME Registry, Order, NEW as, SameRules(as)
  PROVE  /\ \A a \in Areas : Rule(areas[a], as[a])
         /\ \A a \in Areas : as[a].owners = areas[a].owners
         /\ SameLocks(as)
  BY OrderMeans DEF SameRules, SameRule, SameLocks, Rule, Kept

\* A move between areas changes no owner, guest or lock.
LEMMA MoveOrder ==
  ASSUME Registry, NEW c \in Clients, NEW a \in Areas, client[c].phase # "none"
  PROVE  SameRules(AreasAfterMove(c, a))
<1> DEFINE old == areas[client[c].area]
           B == Area!ChangeCharacter(old, client[c].character, Area!NoCharacter)
           G == IF client[c].character = Area!NoCharacter THEN old ELSE B
           A == AreaLeftBy(client[c])
           left == [areas EXCEPT ![client[c].area] = A]
           C == Area!AddClient(left[a], CharIdAfterMove(c, a), client[c].id)
<1>1. /\ client[c].area \in Areas
      /\ client[c].charId \in Int /\ client[c].character \in Int
      /\ client[c].id \in Ids
      /\ areas \in AreaMap
      /\ Area!NoCharacter \in Int
  BY ActiveClient, ClientFields, CurrentTypes DEF Area!NoCharacter
<1>2. old \in Area!AreaRecord(Ids)
  BY <1>1 DEF AreaMap
<1>3. A \in Area!AreaRecord(Ids) /\ SameRule(old, A)
  <2>1. B \in Area!AreaRecord(Ids) /\ SameRule(old, B)
    BY <1>1, <1>2, CharacterTypes, CharacterRules
  <2>2. G \in Area!AreaRecord(Ids) /\ SameRule(old, G)
    <3> HIDE DEF B, old
    <3> QED BY <1>2, <2>1 DEF SameRule
  <2>3. A = Area!RemoveClient(G, client[c].charId, client[c].id)
    BY Zenon DEF AreaLeftBy
  <2> HIDE DEF G, A
  <2>4. A \in Area!AreaRecord(Ids) /\ SameRule(G, A)
    BY <1>1, <2>2, <2>3, MemberTypes, MemberRules
  <2> QED BY <2>2, <2>4 DEF SameRule
<1> HIDE DEF A
<1>4. /\ left \in AreaMap
      /\ \A b \in Areas : left[b] = IF b = client[c].area THEN A ELSE areas[b]
  BY <1>1, <1>3 DEF AreaMap
<1>5. SameRules(left)
  BY <1>3, <1>4 DEF SameRules, SameRule
<1> HIDE DEF left
<1>6. SameRule(left[a], C)
  BY <1>4, MemberRules DEF AreaMap
<1>7. AreasAfterMove(c, a) = [left EXCEPT ![a] = C]
  BY Zenon DEF AreasAfterMove, left, A
<1>8. \A b \in Areas : AreasAfterMove(c, a)[b] = IF b = a THEN C ELSE left[b]
  BY <1>4, <1>7 DEF AreaMap
<1> HIDE DEF C
<1> QED BY <1>5, <1>6, <1>8 DEF SameRules, SameRule

LEMMA JoinAreaOrder ==
  ASSUME Registry, Order, NEW c \in Clients, NEW a \in Areas, JoinArea(c, a)
  PROVE  KeepsOrder
<1> DEFINE as == AreasAfterMove(c, a)
<1>1. client[c].phase # "none"
  BY DEF JoinArea, Active
<1>2. as \in AreaMap /\ SameRules(as)
  BY <1>1, MoveTypes, MoveOrder
<1>3. Ends(as, ClientsAfterMove(c, a), TellCounts(news, as))
  BY Zenon DEF JoinArea, Commit, Ends
<1> HIDE DEF as
<1>4. Current(as, TellCounts(news, as))
  BY <1>2, SameRulesRule, CurrentNews
<1> QED BY <1>2, <1>3, <1>4, SameRulesRule, EndsOrder

LEMMA AreaKickOrder ==
  ASSUME Registry, Order, NEW c \in Clients, NEW t \in Ids, AreaKick(c, t)
  PROVE  KeepsOrder
<1> DEFINE d == clientMap[t]
           goes == Moves(d, 0)
           moved == IF goes THEN AreasAfterMove(d, 0) ELSE areas
           A == Area!Uninvite(moved[Here(c)], t)
           as == [moved EXCEPT ![Here(c)] = A]
           cs == IF goes THEN ClientsAfterMove(d, 0) ELSE client
           n == IF goes THEN TellCounts(news, moved) ELSE news
<1>1. Here(c) \in Areas /\ 0 \in Areas /\ t \notin areas[Here(c)].owners
  <2>1. Active(c) /\ t \notin areas[Here(c)].owners
    BY Zenon DEF AreaKick
  <2> QED BY <2>1, HereInOrder, ServerAssumption DEF Areas
<1>2. d \in Clients /\ client[d].phase # "none"
  BY FoundClient DEF AreaKick
<1>3. Ends(as, cs, n)
  BY Zenon DEF AreaKick, Commit, Ends
<1>4. AreasAfterMove(d, 0) \in AreaMap /\ SameRules(AreasAfterMove(d, 0))
  BY <1>1, <1>2, MoveTypes, MoveOrder
<1>5. moved \in AreaMap /\ SameRules(moved)
  <2>1. areas \in AreaMap /\ SameRules(areas)
    BY CurrentTypes DEF SameRules, SameRule
  <2> HIDE DEF d
  <2> QED BY <1>4, <2>1
<1>6. Current(moved, n)
  <2>1. Current(areas, news)
    BY OrderMeans
  <2>2. Current(AreasAfterMove(d, 0), TellCounts(news, AreasAfterMove(d, 0)))
    BY <1>4, SameRulesRule, CurrentNews
  <2> HIDE DEF d
  <2> QED BY <2>1, <2>2
<1> HIDE DEF moved, n, cs
<1>7. /\ moved[Here(c)] \in Area!AreaRecord(Ids)
      /\ SameRule(areas[Here(c)], moved[Here(c)])
      /\ Kept(moved[Here(c)])
  BY <1>1, <1>5, SameRulesRule DEF AreaMap, SameRules, Rule
<1>8. A \in Area!AreaRecord(Ids) /\ Rule(moved[Here(c)], A)
  <2>1. t \notin moved[Here(c)].owners
    BY <1>1, <1>7 DEF SameRule
  <2> QED BY <1>7, <2>1, OwnerTypes, OwnerRules
<1>9. /\ A.owners = moved[Here(c)].owners
      /\ A.playerCount = moved[Here(c)].playerCount
      /\ A.locked = moved[Here(c)].locked
  BY <1>7 DEF Area!AreaRecord, Area!Uninvite
<1> HIDE DEF A
<1>10. /\ as \in AreaMap
       /\ \A a \in Areas : as[a] = IF a = Here(c) THEN A ELSE moved[a]
  BY <1>1, <1>5, <1>8 DEF AreaMap
<1>11. \A a \in Areas : Rule(areas[a], as[a])
  <2>1. \A a \in Areas : Rule(areas[a], moved[a])
    BY <1>5, SameRulesRule
  <2> QED BY <1>7, <1>8, <1>10, <2>1 DEF Rule, SameRule
<1>12. Current(as, n)
  BY <1>6, <1>9, <1>10 DEF Current
<1> HIDE DEF as
<1> QED BY <1>3, <1>10, <1>11, <1>12, EndsOrder

LEMMA HelloOrder ==
  ASSUME Registry, Order, NEW c \in Clients, Hello(c)
  PROVE  KeepsOrder
<1> DEFINE A == Area!AddClient(areas[0], Area!NoCharacter, client[c].id)
           as == [areas EXCEPT ![0] = A]
           cs == [client EXCEPT ![c].phase = "session"]
<1>1. /\ 0 \in Areas /\ areas[0] \in Area!AreaRecord(Ids)
      /\ client[c].id \in Ids /\ Area!NoCharacter \in Int
  <2>1. client[c].phase # "none"
    BY DEF Hello
  <2>2. client[c].id \in Ids /\ areas \in AreaMap
    BY <2>1, ActiveClient, CurrentTypes
  <2> QED BY <2>2, ServerAssumption DEF Areas, AreaMap, Area!NoCharacter
<1>2. A \in Area!AreaRecord(Ids) /\ SameRule(areas[0], A)
  BY <1>1, MemberTypes, MemberRules
<1>3. Ends(as, cs, TellCounts(news, as))
  BY Zenon DEF Hello, Commit, Ends
<1> HIDE DEF A, cs
<1>4. as \in AreaMap /\ SameRules(as)
  BY <1>1, <1>2, CurrentTypes DEF AreaMap, SameRules, SameRule
<1> HIDE DEF as
<1>5. Current(as, TellCounts(news, as))
  BY <1>4, SameRulesRule, CurrentNews
<1> QED BY <1>3, <1>4, <1>5, SameRulesRule, EndsOrder

LEMMA FinishSessionOrder ==
  ASSUME Registry, Order, NEW c \in Clients, FinishSession(c)
  PROVE  KeepsOrder
<1> DEFINE i == client[c].id
           A == Area!RemoveClient(areas[Here(c)], client[c].character, i)
           left == [areas EXCEPT ![Here(c)] = A]
           as == RemoveOwnerEverywhere(left, i)
           cs == [client EXCEPT ![c].phase = "finished"]
           counted == TellCounts(news, left)
           released == \E a \in Areas : Area!ReleasesLock(left[a], i)
<1>1. /\ Here(c) \in Areas /\ areas[Here(c)] \in Area!AreaRecord(Ids)
      /\ i \in Ids /\ client[c].character \in Int
  BY ActiveClient, ClientFields DEF FinishSession
<1>2. A \in Area!AreaRecord(Ids) /\ SameRule(areas[Here(c)], A)
  BY <1>1, MemberTypes, MemberRules
<1>3. \/ Ends(as, cs, TellOwners(TellLocks(counted, as), as))
      \/ ~released /\ Ends(as, cs, TellOwners(counted, as))
  BY Zenon DEF FinishSession, Commit, Ends
<1> HIDE DEF A, cs, i
<1>4. left \in AreaMap /\ SameRules(left)
  BY <1>1, <1>2, CurrentTypes DEF AreaMap, SameRules, SameRule
<1>5. counted \in NewsRecord
  <2> HIDE DEF left
  <2> QED BY <1>4, CurrentTypes, NewsTypes
<1> HIDE DEF left
<1>6. \A a \in Areas : /\ left[a] \in Area!AreaRecord(Ids)
                       /\ Kept(left[a])
                       /\ SameRule(areas[a], left[a])
  BY <1>4, SameRulesRule DEF AreaMap, SameRules, Rule
<1>7. \A a \in Areas : as[a] = left[a] \/ as[a] = Area!RemoveOwner(left[a], i)
  BY DEF RemoveOwnerEverywhere
<1>8. \A a \in Areas : /\ as[a] \in Area!AreaRecord(Ids)
                       /\ Rule(left[a], as[a])
                       /\ as[a].playerCount = left[a].playerCount
                       /\ ~released => as[a].locked = left[a].locked
  <2> TAKE a \in Areas
  <2> DEFINE R == Area!RemoveOwner(left[a], i)
  <2>1. R \in Area!AreaRecord(Ids) /\ Rule(left[a], R) /\ Rule(left[a], left[a])
    BY <1>1, <1>6, OwnerTypes, OwnerRules
  <2>2. /\ R.playerCount = left[a].playerCount
        /\ ~released => R.locked = left[a].locked
    BY <1>6 DEF Area!AreaRecord, Area!RemoveOwner
  <2> HIDE DEF R, as, released
  <2> QED BY <1>6, <1>7, <2>1, <2>2 DEF R
<1>9. as \in AreaMap
  <2>1. as = [a \in Areas |-> as[a]]
    BY DEF RemoveOwnerEverywhere
  <2> HIDE DEF as
  <2> QED BY <1>8, <2>1 DEF AreaMap
<1> HIDE DEF as, released
<1>10. \A a \in Areas : Rule(areas[a], as[a])
  BY <1>6, <1>8 DEF Rule, SameRule
<1>11. /\ Current(as, TellOwners(TellLocks(counted, as), as))
       /\ ~released => Current(as, TellOwners(counted, as))
  <2>1. /\ \A a \in Areas : counted.count[a] = as[a].playerCount
        /\ counted.locked = news.locked
    BY <1>8, CurrentTypes DEF counted, TellCounts, NewsRecord
  <2>2. ASSUME ~released, Moderators = {}
        PROVE  \A a \in Areas : news.locked[a] = as[a].locked
    BY <2>2, <1>6, <1>8, OrderMeans DEF Current, SameRule
  <2> HIDE DEF counted
  <2> QED BY <1>5, <2>1, <2>2 DEF Current, TellOwners, TellLocks, NewsRecord
<1> HIDE DEF counted
<1> QED BY <1>3, <1>9, <1>10, <1>11, EndsOrder

\* Choosing characters changes no owner, guest, lock or count.
LEMMA CharacterOrder ==
  ASSUME Registry, Order, NEW c \in Clients, CharacterEvent(c)
  PROVE  KeepsOrder
<1> DEFINE Same(as) == /\ as \in AreaMap
                       /\ SameRules(as)
                       /\ \A a \in Areas : as[a].playerCount = areas[a].playerCount
<1>1. ASSUME NEW as, Same(as), NEW cs, Ends(as, cs, news) PROVE KeepsOrder
  BY <1>1, SameRulesRule, CurrentNews, EndsOrder
<1>2. Same(areas)
  BY CurrentTypes DEF SameRules, SameRule
<1>3. ASSUME NEW me \in ClientRecord, NEW id \in Int, NEW d,
             ChangesCharacter(d, me, id)
      PROVE  KeepsOrder
  <2> DEFINE A == AreaAfterChange(me, id)
             as == [areas EXCEPT ![me.area] = A]
  <2>1. me.area \in Areas /\ areas[me.area] \in Area!AreaRecord(Ids)
    BY ClientFields, CurrentTypes DEF AreaMap
  <2>2. /\ A \in Area!AreaRecord(Ids)
        /\ SameRule(areas[me.area], A)
        /\ A.playerCount = areas[me.area].playerCount
    BY <2>1, ChangeTypes, CharacterRules DEF AreaAfterChange, SameRule
  <2>3. Ends(as, [client EXCEPT ![d] = AfterChange(me, id)], news)
    BY <1>3, Zenon DEF ChangesCharacter, Commit, Ends
  <2> HIDE DEF A
  <2>4. Same(as)
    BY <2>1, <2>2, CurrentTypes DEF AreaMap, SameRules, SameRule
  <2> HIDE DEF as, Same
  <2> QED BY <1>1, <2>3, <2>4
<1> HIDE DEF Same
<1>4. /\ Characters \in SUBSET Int
      /\ SelectableIds \in SUBSET Int
      /\ Area!NoCharacter \in Int
  BY ServerAssumption DEF Characters, Area!NoCharacter
<1>5. ASSUME NEW id \in Int, Active(c), ChangesCharacter(c, client[c], id)
      PROVE  KeepsOrder
  BY <1>3, <1>5, ActiveClient DEF Active
<1>6. ASSUME NEW d \in Clients, client[d].phase # "none",
             NEW list \in SUBSET Int, Curses(d, list)
      PROVE  KeepsOrder
  <2> DEFINE me == CursedTo(d, list)
  <2>1. me \in ClientRecord
    BY <1>6, ActiveClient DEF CursedTo, ClientRecord
  <2>2. \/ Ends(areas, [client EXCEPT ![d] = me], news)
        \/ ChangesCharacter(d, me, Area!NoCharacter)
    BY <1>6, Zenon DEF Curses, Commit, Ends
  <2> HIDE DEF me
  <2> QED BY <1>1, <1>2, <1>3, <1>4, <2>1, <2>2
<1>7. ASSUME NEW id \in SelectableIds, SelectCharacter(c, id) PROVE KeepsOrder
  BY <1>4, <1>5, <1>7 DEF SelectCharacter
<1>8. ASSUME NEW id \in Characters, Switch(c, id) PROVE KeepsOrder
  BY <1>4, <1>5, <1>8 DEF Switch
<1>9. CASE RandomChar(c)
  BY <1>4, <1>5, <1>9 DEF RandomChar
<1>10. CASE RandomCharHangs(c)
  <2>1. UNCHANGED <<areas, news>>
    BY <1>10 DEF RandomCharHangs
  <2> QED BY <2>1 DEF KeepsOrder, Order, OwnersAreInvited, LockHasOwner, NewsIsCurrent
<1>11. CASE CharSelect(c)
  BY <1>4, <1>5, <1>11 DEF CharSelect
<1>12. ASSUME NEW t \in Ids, ForceCharSelect(c, t) PROVE KeepsOrder
  <2>1. clientMap[t] \in Clients /\ client[clientMap[t]] \in ClientRecord
    BY <1>12, FoundClient, ActiveClient DEF ForceCharSelect
  <2> QED BY <1>3, <1>4, <1>12, <2>1 DEF ForceCharSelect
<1>13. ASSUME NEW t \in Ids, CharCurse(c, t) PROVE KeepsOrder
  <2> DEFINE d == clientMap[t]
             list == client[d].curseList \cup {client[d].character}
  <2>1. d \in Clients /\ client[d].phase # "none"
    BY <1>13, FoundClient DEF CharCurse, MayCurse
  <2>2. list \in SUBSET Int /\ Curses(d, list)
    BY <1>13, <2>1, ActiveClient, ClientFields DEF CharCurse
  <2> HIDE DEF d, list
  <2> QED BY <1>6, <2>1, <2>2
<1>14. ASSUME NEW t \in Ids, NEW list \in SUBSET Characters, CharCurseTo(c, t, list)
       PROVE  KeepsOrder
  <2>1. clientMap[t] \in Clients /\ client[clientMap[t]].phase # "none"
    BY <1>14, FoundClient DEF CharCurseTo, MayCurse
  <2>2. Curses(clientMap[t], list) /\ list \in SUBSET Int
    BY <1>4, <1>14 DEF CharCurseTo
  <2> QED BY <1>6, <2>1, <2>2
<1>15. ASSUME NEW t \in Ids, NEW list, CharCurseFails(c, t, list) PROVE KeepsOrder
  <2>1. Ends(areas, [client EXCEPT ![clientMap[t]].curseList = list], news)
    BY <1>15, Zenon DEF CharCurseFails, Commit, Ends
  <2> QED BY <1>1, <1>2, <2>1
<1>16. ASSUME NEW t \in Ids, UnCharCurse(c, t) PROVE KeepsOrder
  <2>1. \E cs : Ends(areas, cs, news)
    BY <1>16, Zenon DEF UnCharCurse, Commit, Ends
  <2> QED BY <1>1, <1>2, <2>1
<1> QED BY <1>7, <1>8, <1>9, <1>10, <1>11, <1>12, <1>13, <1>14, <1>15, <1>16
        DEF CharacterEvent

-----------------------------------------------------------------------------
(* The theorems about ownership *)

LEMMA InitOrder == Init => Order
  BY DEF Init, Order, OwnersAreInvited, LockHasOwner, NewsIsCurrent, Area!NewArea

\* A step that touches neither areas nor news.
LEMMA StillOrder ==
  ASSUME Order, UNCHANGED <<areas, news>>
  PROVE  KeepsOrder
  BY DEF KeepsOrder, Order, OwnersAreInvited, LockHasOwner, NewsIsCurrent

LEMMA NextOrder == Registry /\ Order /\ [Next]_vars => KeepsOrder
<1> SUFFICES ASSUME Registry, Order, [Next]_vars PROVE KeepsOrder
  OBVIOUS
<1>1. ASSUME NEW c \in Clients, ConnectionEvent(c) PROVE KeepsOrder
  <2>1. CASE ClientConnected(c) \/ RemoveClient(c)
    BY <2>1, StillOrder DEF ClientConnected, RemoveClient
  <2> QED BY <1>1, <2>1, HelloOrder, FinishSessionOrder DEF ConnectionEvent
<1>2. ASSUME NEW c \in Clients, AreaEvent(c) PROVE KeepsOrder
  <2>1. ASSUME BroadcastToArea(c) \/ \E a \in AskedAreas : AreaMessage(c, a)
        PROVE  KeepsOrder
    BY <2>1, StillOrder DEF BroadcastToArea, AreaMessage, Crash, LosesArea
  <2>2. CASE BecomeCM(c)
    BY <2>2, AddsOwnerOrder, HereInOrder DEF BecomeCM
  <2>3. CASE UnCM(c)
    BY <2>3, RemovesOwnerOrder, HereInOrder DEF UnCM
  <2>4. ASSUME NEW t \in Ids, PromoteCM(c, t) PROVE KeepsOrder
    BY <2>4, AddsOwnerOrder DEF PromoteCM
  <2>5. ASSUME NEW t \in Ids, UnCMOther(c, t) PROVE KeepsOrder
    BY <2>5, RemovesOwnerOrder DEF UnCMOther
  <2> QED BY <1>2, <2>1, <2>2, <2>3, <2>4, <2>5, JoinAreaOrder, ClearCMOrder,
             InvitesOrder, LocksOrder, AreaKickOrder DEF AreaEvent
<1>3. ASSUME NEW c \in Clients, CharacterEvent(c) PROVE KeepsOrder
  BY <1>3, CharacterOrder
<1>4. CASE UNCHANGED vars
  BY <1>4, StillOrder DEF vars
<1> QED BY <1>1, <1>2, <1>3, <1>4 DEF Next, Halted

LEMMA AlwaysOrder == Spec => []Order
<1>1. Registry /\ Order /\ [Next]_vars => Order'
  BY NextOrder DEF KeepsOrder
<1> QED BY <1>1, InitOrder, AlwaysRegistry, PTL DEF Spec

\* An owner is always invited: no command locks a CM out of its own area.
THEOREM OwnersInvited == Spec => []OwnersAreInvited
<1>1. Order => OwnersAreInvited
  BY DEF Order
<1> QED BY <1>1, AlwaysOrder, PTL

\* Without moderators no area stays locked once its owners are gone.
THEOREM LocksOwned == Spec => []LockHasOwner
<1>1. Order => LockHasOwner
  BY DEF Order
<1> QED BY <1>1, AlwaysOrder, PTL

\* Nobody is left with outdated player counts or CMs, or, without
\* moderators, locks.
THEOREM NewsCurrent == Spec => []NewsIsCurrent
<1>1. Order => NewsIsCurrent
  BY DEF Order
<1> QED BY <1>1, AlwaysOrder, PTL

\* The last owner takes the lock along, whoever else may set locks.
THEOREM LastOwnerFrees == Spec => LastOwnerFreesLock
<1> DEFINE Frees == \A a \in Areas : areas[a].owners # {} /\ areas'[a].owners = {}
                                       => areas'[a].locked = "FREE"
<1>1. Registry /\ Order /\ [Next]_vars => [Frees]_vars
  BY NextOrder DEF KeepsOrder
<1> QED BY <1>1, AlwaysRegistry, AlwaysOrder, PTL DEF Spec, LastOwnerFreesLock

-----------------------------------------------------------------------------
(* Members, characters, curses *)

\* One client that has been m and is n: as far as it can tell from itself, it
\* is a proper spectator, has a choice when cursed, and obeyed its curse.
Proper(m) ==
  /\ m.charId = Area!NoCharacter => m.character = Area!NoCharacter
  /\ m.cursed => m.curseList # {}

Obeys(m, n) ==
  m.cursed /\ n.cursed /\ n.character # m.character
    => n.character \in m.curseList \cup {Area!NoCharacter}

Behaves(m, n) == (Proper(m) => Proper(n)) /\ Obeys(m, n)

SamePlace(m, n) == n.phase = m.phase /\ n.id = m.id /\ n.area = m.area

\* The empty choice is never entered among the characters taken: were it, the
\* code would take a client that gives its character back for one that takes
\* a taken one.
Unspoilt == \A a \in Areas : Area!NoCharacter \notin areas[a].taken

StaysUnspoilt(A, B) == Area!NoCharacter \in B.taken => Area!NoCharacter \in A.taken

\* A step that moves nobody.
Quiet ==
  /\ \A e \in Clients : /\ SamePlace(client[e], client'[e])
                        /\ Behaves(client[e], client'[e])
  /\ \A a \in Areas : /\ areas'[a].joined = areas[a].joined
                      /\ areas'[a].playerCount = areas[a].playerCount
                      /\ StaysUnspoilt(areas[a], areas'[a])

\* A step that makes nobody an owner.
NoNewOwner == \A a \in Areas : areas'[a].owners \subseteq areas[a].owners

LEMMA Still ==
  ASSUME UNCHANGED <<client, areas>>
  PROVE  Quiet /\ NoNewOwner
  BY DEF Quiet, NoNewOwner, SamePlace, Behaves, Obeys, StaysUnspoilt

-----------------------------------------------------------------------------
(* Characters *)

\* What a handler that rewrites one client in place, and areas but for their
\* members and owners, does.
LEMMA OneClientQuiet ==
  ASSUME Registry, NEW d \in Clients, NEW me,
         SamePlace(client[d], me), Behaves(client[d], me),
         NEW as, \A a \in Areas : /\ as[a].joined = areas[a].joined
                                  /\ as[a].playerCount = areas[a].playerCount
                                  /\ as[a].owners = areas[a].owners
                                  /\ StaysUnspoilt(areas[a], as[a]),
         Ends(as, [client EXCEPT ![d] = me], news)
  PROVE  Quiet /\ NoNewOwner
<1>1. CASE Crash
  BY <1>1, Still DEF Crash
<1>2. CASE areas' = as /\ client' = [client EXCEPT ![d] = me]
  <2>1. \A e \in Clients : client'[e] = IF e = d THEN me ELSE client[e]
    BY <1>2, CurrentTypes DEF ClientMap
  <2>2. \A e \in Clients : SamePlace(client[e], client[e]) /\ Behaves(client[e], client[e])
    BY DEF SamePlace, Behaves, Obeys
  <2> QED BY <1>2, <2>1, <2>2 DEF Quiet, NoNewOwner
<1> QED BY <1>1, <1>2 DEF Ends

\* changeCharacter leaves the members and owners of the area alone.
LEMMA ChangeMembers ==
  ASSUME NEW A \in Area!AreaRecord(Ids), NEW from, NEW to
  PROVE  /\ Area!ChangeCharacter(A, from, to).joined = A.joined
         /\ Area!ChangeCharacter(A, from, to).playerCount = A.playerCount
         /\ Area!ChangeCharacter(A, from, to).owners = A.owners
         /\ StaysUnspoilt(A, Area!ChangeCharacter(A, from, to))
  BY DEF Area!AreaRecord, Area!ChangeCharacter, Area!Freed, StaysUnspoilt

\* changeCharacter: a refused change changes nothing, and one that is not
\* refused asks for a character of the list.
LEMMA ChangeBehaves ==
  ASSUME NEW me \in ClientRecord, NEW id \in Int
  PROVE  SamePlace(me, AfterChange(me, id)) /\ Behaves(me, AfterChange(me, id))
<1> DEFINE char == IF Area!CharacterAdded(areas[me.area], id) THEN NameOf(id)
                   ELSE IF id < 0 THEN Area!NoCharacter ELSE me.character
           new == [me EXCEPT !.charId = id, !.character = char]
<1>1. CASE Refused(me, id)
  BY <1>1 DEF AfterChange, SamePlace, Behaves, Obeys
<1>2. CASE ~Refused(me, id)
  <2>1. /\ id = Area!NoCharacter => char = Area!NoCharacter
        /\ char \in {id, Area!NoCharacter, me.character}
    BY DEF NameOf, Area!CharacterAdded, Area!NoCharacter
  <2>2. me.cursed => id \in me.curseList
    BY <1>2 DEF Refused
  <2>3. AfterChange(me, id) = new
    BY <1>2, Zenon DEF AfterChange
  <2> HIDE DEF char
  <2>4. /\ new.charId = id /\ new.character = char
        /\ new.cursed = me.cursed /\ new.curseList = me.curseList
        /\ SamePlace(me, new)
    BY DEF ClientRecord, SamePlace
  <2> HIDE DEF new
  <2> QED BY <2>1, <2>2, <2>3, <2>4 DEF Behaves, Proper, Obeys
<1> QED BY <1>1, <1>2

\* A handler that calls changeCharacter for a client made me.
LEMMA ChangesQuiet ==
  ASSUME Registry, NEW d \in Clients, NEW me \in ClientRecord, NEW id \in Int,
         SamePlace(client[d], me), Behaves(client[d], AfterChange(me, id)),
         ChangesCharacter(d, me, id)
  PROVE  Quiet /\ NoNewOwner
<1> DEFINE A == AreaAfterChange(me, id)
           as == [areas EXCEPT ![me.area] = A]
<1>1. me.area \in Areas /\ areas[me.area] \in Area!AreaRecord(Ids)
  BY ClientFields, CurrentTypes DEF AreaMap
<1>2. /\ A.joined = areas[me.area].joined /\ A.owners = areas[me.area].owners
      /\ A.playerCount = areas[me.area].playerCount
      /\ StaysUnspoilt(areas[me.area], A)
  BY <1>1, ChangeMembers DEF AreaAfterChange, StaysUnspoilt
<1>3. Ends(as, [client EXCEPT ![d] = AfterChange(me, id)], news)
  BY Zenon DEF ChangesCharacter, Commit, Ends
<1> HIDE DEF A
<1>4. \A a \in Areas : /\ as[a].joined = areas[a].joined
                       /\ as[a].playerCount = areas[a].playerCount
                       /\ as[a].owners = areas[a].owners
                       /\ StaysUnspoilt(areas[a], as[a])
  BY <1>1, <1>2, CurrentTypes DEF AreaMap, StaysUnspoilt
<1> HIDE DEF as
<1>5. SamePlace(client[d], AfterChange(me, id))
  BY ChangeBehaves DEF SamePlace
<1> QED BY <1>3, <1>4, <1>5, OneClientQuiet

\* The end of cmdCharCurse: the target has a choice, and keeps its character
\* or loses it.
LEMMA CursesQuiet ==
  ASSUME Registry, NEW d \in Clients, client[d].phase # "none",
         ~client[d].cursed, NEW list \in SUBSET Int, list # {}, Curses(d, list)
  PROVE  Quiet /\ NoNewOwner
<1> DEFINE me == CursedTo(d, list)
<1>1. /\ me \in ClientRecord /\ SamePlace(client[d], me)
      /\ Behaves(client[d], me)
  BY ActiveClient DEF CursedTo, ClientRecord, SamePlace, Behaves, Proper, Obeys
<1>2. Area!NoCharacter \in Int
  BY DEF Area!NoCharacter
<1>3. \/ Ends(areas, [client EXCEPT ![d] = me], news)
      \/ ChangesCharacter(d, me, Area!NoCharacter)
  BY Zenon DEF Curses, Commit, Ends
<1> HIDE DEF me
<1>4. Behaves(client[d], AfterChange(me, Area!NoCharacter))
  BY <1>1, <1>2, ChangeBehaves DEF Behaves, Obeys
<1> QED BY <1>1, <1>2, <1>3, <1>4, OneClientQuiet, ChangesQuiet DEF StaysUnspoilt

\* Every command about characters moves nobody and makes nobody owner.
LEMMA CharacterQuiet ==
  ASSUME Registry, NEW c \in Clients, CharacterEvent(c)
  PROVE  Quiet /\ NoNewOwner
<1>1. /\ Characters \in SUBSET Int
      /\ SelectableIds \in SUBSET Int
      /\ Area!NoCharacter \in Int
  BY ServerAssumption DEF Characters, Area!NoCharacter
<1>2. ASSUME NEW d \in Clients, client[d].phase # "none", NEW id \in Int,
             ChangesCharacter(d, client[d], id)
      PROVE  Quiet /\ NoNewOwner
  <2>1. client[d] \in ClientRecord /\ SamePlace(client[d], client[d])
    BY <1>2, ActiveClient DEF SamePlace
  <2> QED BY <1>2, <2>1, ChangeBehaves, ChangesQuiet
<1>3. ASSUME NEW id \in SelectableIds, SelectCharacter(c, id)
      PROVE  Quiet /\ NoNewOwner
  BY <1>1, <1>2, <1>3 DEF SelectCharacter, Active
<1>4. ASSUME NEW id \in Characters, Switch(c, id) PROVE Quiet /\ NoNewOwner
  BY <1>1, <1>2, <1>4 DEF Switch, Active
<1>5. CASE RandomChar(c)
  BY <1>1, <1>2, <1>5 DEF RandomChar, Active
<1>6. CASE RandomCharHangs(c)
  BY <1>6, Still DEF RandomCharHangs
<1>7. CASE CharSelect(c)
  BY <1>1, <1>2, <1>7 DEF CharSelect, Active
<1>8. ASSUME NEW t \in Ids, ForceCharSelect(c, t) PROVE Quiet /\ NoNewOwner
  BY <1>1, <1>2, <1>8, FoundClient DEF ForceCharSelect
<1>9. ASSUME NEW t \in Ids, CharCurse(c, t) PROVE Quiet /\ NoNewOwner
  <2> DEFINE d == clientMap[t]
             list == client[d].curseList \cup {client[d].character}
  <2>1. d \in Clients /\ client[d].phase # "none" /\ ~client[d].cursed
    BY <1>9, FoundClient DEF CharCurse, MayCurse
  <2>2. list \in SUBSET Int /\ list # {}
    BY <2>1, ActiveClient, ClientFields
  <2>3. Curses(d, list)
    BY <1>9 DEF CharCurse
  <2> HIDE DEF d, list
  <2> QED BY <2>1, <2>2, <2>3, CursesQuiet
<1>10. ASSUME NEW t \in Ids, NEW list \in SUBSET Characters, CharCurseTo(c, t, list)
       PROVE  Quiet /\ NoNewOwner
  <2>1. /\ clientMap[t] \in Clients /\ client[clientMap[t]].phase # "none"
        /\ ~client[clientMap[t]].cursed
    BY <1>10, FoundClient DEF CharCurseTo, MayCurse
  <2>2. Curses(clientMap[t], list) /\ list \in SUBSET Int /\ list # {}
    BY <1>1, <1>10 DEF CharCurseTo
  <2> QED BY <2>1, <2>2, CursesQuiet
<1>11. ASSUME NEW t \in Ids, NEW list \in SUBSET Characters,
              CharCurseFails(c, t, list)
       PROVE  Quiet /\ NoNewOwner
  <2> DEFINE d == clientMap[t]
             me == [client[d] EXCEPT !.curseList = list]
  <2>1. d \in Clients /\ client[d].phase # "none" /\ ~client[d].cursed
    BY <1>11, FoundClient DEF CharCurseFails, MayCurse
  <2>2. SamePlace(client[d], me) /\ Behaves(client[d], me)
    <3>1. client[d] \in ClientRecord
      BY <2>1, ActiveClient
    <3> HIDE DEF d
    <3> QED BY <2>1, <3>1 DEF ClientRecord, SamePlace, Behaves, Proper, Obeys
  <2>3. Ends(areas, [client EXCEPT ![d] = me], news)
    BY <1>11, Zenon DEF CharCurseFails, Commit, Ends
  <2> HIDE DEF d, me
  <2> QED BY <2>1, <2>2, <2>3, OneClientQuiet DEF StaysUnspoilt
<1>12. ASSUME NEW t \in Ids, UnCharCurse(c, t) PROVE Quiet /\ NoNewOwner
  <2> DEFINE d == clientMap[t]
             me == [client[d] EXCEPT !.cursed = FALSE, !.curseList = {}]
  <2>1. d \in Clients /\ client[d].phase # "none"
    BY <1>12, FoundClient DEF UnCharCurse
  <2>2. SamePlace(client[d], me) /\ Behaves(client[d], me)
    <3>1. client[d] \in ClientRecord
      BY <2>1, ActiveClient
    <3> HIDE DEF d
    <3> QED BY <3>1 DEF ClientRecord, SamePlace, Behaves, Proper, Obeys
  <2>3. Ends(areas, [client EXCEPT ![d] = me], news)
    BY <1>12, <2>1, CurrentTypes DEF UnCharCurse, Commit, Ends, ClientMap
  <2> HIDE DEF d, me
  <2> QED BY <2>1, <2>2, <2>3, OneClientQuiet DEF StaysUnspoilt
<1> QED BY <1>3, <1>4, <1>5, <1>6, <1>7, <1>8, <1>9, <1>10, <1>11, <1>12
        DEF CharacterEvent

-----------------------------------------------------------------------------
(* Areas *)

\* One area rewritten without a new owner and with the same members.
LEMMA OneAreaQuiet ==
  ASSUME Registry, NEW c \in Clients, Active(c), NEW A,
         A.joined = areas[Here(c)].joined, A.taken = areas[Here(c)].taken,
         A.playerCount = areas[Here(c)].playerCount,
         NEW n, Ends([areas EXCEPT ![Here(c)] = A], client, n)
  PROVE  /\ Quiet
         /\ A.owners \subseteq areas[Here(c)].owners => NoNewOwner
<1>1. CASE Crash
  BY <1>1, Still DEF Crash
<1>2. CASE areas' = [areas EXCEPT ![Here(c)] = A] /\ client' = client
  <2>1. \A a \in Areas : areas'[a] = IF a = Here(c) THEN A ELSE areas[a]
    BY <1>2, CurrentTypes DEF AreaMap
  <2>2. \A e \in Clients : SamePlace(client[e], client[e]) /\ Behaves(client[e], client[e])
    BY DEF SamePlace, Behaves, Obeys
  <2> QED BY <1>2, <2>1, <2>2 DEF Quiet, NoNewOwner, StaysUnspoilt
<1> QED BY <1>1, <1>2 DEF Ends

\* B has the members and characters of A, and no other owners.
Takes(A, B) ==
  /\ B.joined = A.joined /\ B.playerCount = A.playerCount
  /\ B.taken = A.taken /\ B.owners \subseteq A.owners

\* The operators on an area that leave its members and characters alone.
LEMMA RuleMembers ==
  ASSUME NEW A \in Area!AreaRecord(Ids), NEW i, NEW guests, NEW status
  PROVE  /\ Takes(A, Area!RemoveOwner(A, i))
         /\ Takes(A, Area!Invite(A, i))
         /\ Takes(A, Area!Uninvite(A, i))
         /\ Takes(A, Area!SetLock(A, status))
         /\ Takes(A, Area!SetLock([A EXCEPT !.invited = guests], status))
  BY DEF Takes, Area!AreaRecord, Area!RemoveOwner, Area!Invite,
         Area!Uninvite, Area!SetLock

\* What OwnershipIsGranted says of a step.
Granted ==
  \A a \in Areas : \A i \in areas'[a].owners \ areas[a].owners :
    /\ a \notin Protected
    /\ \E c \in Sessions :
         /\ Here(c) = a
         /\ \/ areas[a].owners = {} /\ client[c].id = i
            \/ client[c].id \in areas[a].owners

LEMMA NobodyGranted ==
  ASSUME NoNewOwner
  PROVE  Granted
  BY DEF NoNewOwner, Granted

\* /cm: by the client itself where nobody owns the area, or by an owner.
LEMMA AddsOwnerGranted ==
  ASSUME Registry, NEW c \in Clients, Active(c), NEW t \in Ids, AddsOwner(c, t),
         Here(c) \notin Protected,
         \/ areas[Here(c)].owners = {} /\ client[c].id = t
         \/ client[c].id \in areas[Here(c)].owners
  PROVE  Quiet /\ Granted
<1> DEFINE A == Area!AddOwner(areas[Here(c)], t)
<1>1. Here(c) \in Areas /\ areas[Here(c)] \in Area!AreaRecord(Ids)
  BY ActiveClient DEF Active
<1>2. /\ A.joined = areas[Here(c)].joined /\ A.taken = areas[Here(c)].taken
      /\ A.playerCount = areas[Here(c)].playerCount
      /\ A.owners = areas[Here(c)].owners \cup {t}
  BY <1>1 DEF Area!AreaRecord, Area!AddOwner
<1>3. Ends([areas EXCEPT ![Here(c)] = A], client,
           TellOwners(news, [areas EXCEPT ![Here(c)] = A]))
  BY Zenon DEF AddsOwner, CommitAloud, Commit, Ends
<1> HIDE DEF A
<1>4. Quiet
  BY <1>2, <1>3, OneAreaQuiet
<1>5. \A a \in Areas : areas'[a].owners \ areas[a].owners # {}
        => a = Here(c) /\ areas'[a].owners \ areas[a].owners \subseteq {t}
  <2>1. CASE areas' = [areas EXCEPT ![Here(c)] = A]
    <3>1. \A a \in Areas : areas'[a] = IF a = Here(c) THEN A ELSE areas[a]
      BY <2>1, CurrentTypes DEF AreaMap
    <3> QED BY <1>2, <3>1
  <2>2. CASE areas' = areas
    BY <2>2
  <2> QED BY <1>3, <2>1, <2>2 DEF Ends, Crash
<1>6. c \in Sessions
  BY DEF Active, Sessions
<1>7. Granted
  <2> SUFFICES ASSUME NEW a \in Areas, NEW i \in areas'[a].owners \ areas[a].owners
               PROVE  /\ a \notin Protected
                      /\ Here(c) = a
                      /\ \/ areas[a].owners = {} /\ client[c].id = i
                         \/ client[c].id \in areas[a].owners
    BY <1>6 DEF Granted
  <2>1. a = Here(c) /\ i = t
    BY <1>5
  <2> QED BY <2>1
<1> QED BY <1>4, <1>7

\* Commands that take ownership, invitations or locks away.
LEMMA TakesQuiet ==
  ASSUME Registry, NEW c \in Clients, NEW t \in Ids,
         \/ UnCM(c) \/ ClearCM(c) \/ UnCMOther(c, t)
         \/ InviteCommand(c, t) \/ UnInviteCommand(c, t)
         \/ Lock(c) \/ Spectatable(c) \/ UnLock(c)
  PROVE  Quiet /\ NoNewOwner
<1> DEFINE here == areas[Here(c)]
           guests == here.invited \cup IdsListedIn(Here(c))
           open == [here EXCEPT !.invited = guests]
           bare == [here EXCEPT
                      !.owners = {},
                      !.invited = here.invited \ here.owners,
                      !.locked = IF here.owners # {} THEN "FREE" ELSE here.locked]
           Leaves(A) == \E n : Ends([areas EXCEPT ![Here(c)] = A], client, n)
<1>1. Active(c) /\ Here(c) \in Areas /\ here \in Area!AreaRecord(Ids)
  BY ActiveClient DEF Active, UnCM, ClearCM, UnCMOther, InviteCommand,
     UnInviteCommand, Lock, Spectatable, UnLock
<1>2. ASSUME NEW A, Takes(here, A), Leaves(A) PROVE Quiet /\ NoNewOwner
  BY <1>1, <1>2, OneAreaQuiet DEF Takes
<1>3. /\ \A i : Takes(here, Area!RemoveOwner(here, i))
      /\ Takes(here, Area!Invite(here, t))
      /\ Takes(here, Area!Uninvite(here, t))
      /\ Takes(here, Area!SetLock(here, "FREE"))
      /\ Takes(here, Area!SetLock(open, "LOCKED"))
      /\ Takes(here, Area!SetLock(open, "SPECTATABLE"))
  <2> HIDE DEF here, guests
  <2> QED BY <1>1, RuleMembers
<1>4. Takes(here, bare)
  <2> HIDE DEF here
  <2> QED BY <1>1 DEF Area!AreaRecord, Takes
<1>5. CASE UnCM(c) \/ UnCMOther(c, t)
  <2>1. \E i : RemovesOwner(c, i)
    BY <1>5 DEF UnCM, UnCMOther
  <2>2. \E i : Leaves(Area!RemoveOwner(here, i))
    BY <2>1, Zenon DEF RemovesOwner, Commit, Ends
  <2> HIDE DEF Leaves
  <2> QED BY <1>2, <1>3, <2>2
<1>6. CASE ClearCM(c)
  <2>1. Leaves(bare)
    BY <1>6, Zenon DEF ClearCM, Commit, Ends
  <2> HIDE DEF Leaves, bare
  <2> QED BY <1>2, <1>4, <2>1
<1>7. CASE InviteCommand(c, t) \/ UnInviteCommand(c, t)
  <2>1. Leaves(Area!Invite(here, t)) \/ Leaves(Area!Uninvite(here, t))
    BY <1>7, Zenon DEF InviteCommand, UnInviteCommand, Commit, Ends
  <2> HIDE DEF Leaves
  <2> QED BY <1>2, <1>3, <2>1
<1>8. CASE Lock(c) \/ Spectatable(c) \/ UnLock(c)
  <2>1. \/ Leaves(Area!SetLock(here, "FREE"))
        \/ Leaves(Area!SetLock(open, "LOCKED"))
        \/ Leaves(Area!SetLock(open, "SPECTATABLE"))
    BY <1>8, Zenon DEF Lock, Spectatable, UnLock, SetsLock, CommitAloud, Commit, Ends
  <2> HIDE DEF Leaves, open
  <2> QED BY <1>2, <1>3, <2>1
<1> QED BY <1>5, <1>6, <1>7, <1>8

-----------------------------------------------------------------------------
(* Moving *)

\* The player counts of the two areas change by one, to those of as.
CountsMove(d, a, as) ==
  \A b \in Areas :
    as[b].playerCount = IF b = a THEN areas[b].playerCount + 1
                        ELSE IF b = Here(d) THEN areas[b].playerCount - 1
                        ELSE areas[b].playerCount

\* What a move of d to another area does: d is heard there and no longer where
\* it was, and nobody else moves.
MovesTo(d, a) ==
  /\ a \in Areas /\ a # Here(d)
  /\ \A e \in Clients \ {d} : /\ SamePlace(client[e], client'[e])
                              /\ Behaves(client[e], client'[e])
  /\ client'[d].phase = client[d].phase
  /\ client'[d].id = client[d].id
  /\ client'[d].area = a
  /\ Behaves(client[d], client'[d])
  /\ \A b \in Areas :
       areas'[b].joined = IF b = a THEN areas[b].joined \cup {client[d].id}
                          ELSE IF b = Here(d) THEN areas[b].joined \ {client[d].id}
                          ELSE areas[b].joined
  /\ CountsMove(d, a, areas')
  /\ Unspoilt /\ client[d].character # Area!NoCharacter
       => client[d].character \notin areas'[Here(d)].taken
  /\ \A b \in Areas : StaysUnspoilt(areas[b], areas'[b])

\* The area that is left.
LEMMA LeftBy ==
  ASSUME Registry, NEW d \in Clients, client[d].phase # "none"
  PROVE  /\ AreaLeftBy(client[d]) \in Area!AreaRecord(Ids)
         /\ AreaLeftBy(client[d]).joined = areas[Here(d)].joined \ {client[d].id}
         /\ AreaLeftBy(client[d]).playerCount = areas[Here(d)].playerCount - 1
         /\ Unspoilt /\ client[d].character # Area!NoCharacter
              => client[d].character \notin AreaLeftBy(client[d]).taken
         /\ StaysUnspoilt(areas[Here(d)], AreaLeftBy(client[d]))
<1> DEFINE old == areas[client[d].area]
           B == Area!ChangeCharacter(old, client[d].character, Area!NoCharacter)
           G == IF client[d].character = Area!NoCharacter THEN old ELSE B
<1>1. /\ client[d].charId \in Int /\ client[d].character \in Int
      /\ client[d].id \in Ids /\ Area!NoCharacter \in Int
      /\ old \in Area!AreaRecord(Ids)
  BY ActiveClient, ClientFields DEF Here, Area!NoCharacter
<1>2. /\ B \in Area!AreaRecord(Ids) /\ B.joined = old.joined
      /\ B.playerCount = old.playerCount
      /\ Area!NoCharacter \notin old.taken /\ client[d].character # Area!NoCharacter
           => client[d].character \notin B.taken
      /\ StaysUnspoilt(old, B)
  <2>1. /\ B \in Area!AreaRecord(Ids) /\ B.joined = old.joined
        /\ B.playerCount = old.playerCount
    BY <1>1, CharacterTypes, ChangeMembers
  <2>2. Area!NoCharacter \notin old.taken /\ client[d].character # Area!NoCharacter
          => client[d].character \notin B.taken
    <3> HIDE DEF old
    <3> QED BY <1>1 DEF Area!AreaRecord, Area!ChangeCharacter, Area!Freed,
                        Area!NoCharacter
  <2>3. StaysUnspoilt(old, B)
    BY <1>1, ChangeMembers
  <2> QED BY <2>1, <2>2, <2>3
<1>3. /\ G \in Area!AreaRecord(Ids) /\ G.joined = old.joined
      /\ G.playerCount = old.playerCount
      /\ Area!NoCharacter \notin old.taken /\ client[d].character # Area!NoCharacter
           => client[d].character \notin G.taken
      /\ StaysUnspoilt(old, G)
  <2> HIDE DEF B, old
  <2> QED BY <1>1, <1>2 DEF StaysUnspoilt
<1>4. AreaLeftBy(client[d]) = Area!RemoveClient(G, client[d].charId, client[d].id)
  BY Zenon DEF AreaLeftBy
<1> HIDE DEF G
<1>5. /\ Area!RemoveClient(G, client[d].charId, client[d].id) \in Area!AreaRecord(Ids)
      /\ Area!RemoveClient(G, client[d].charId, client[d].id).joined
           = G.joined \ {client[d].id}
      /\ Area!RemoveClient(G, client[d].charId, client[d].id).playerCount
           = G.playerCount - 1
  <2>1. Area!RemoveClient(G, client[d].charId, client[d].id) \in Area!AreaRecord(Ids)
    BY <1>1, <1>3, MemberTypes
  <2>2. /\ Area!RemoveClient(G, client[d].charId, client[d].id).joined
             = G.joined \ {client[d].id}
        /\ Area!RemoveClient(G, client[d].charId, client[d].id).playerCount
             = G.playerCount - 1
    BY <1>3 DEF Area!AreaRecord, Area!RemoveClient
  <2> QED BY <2>1, <2>2
<1>6. Area!RemoveClient(G, client[d].charId, client[d].id).taken \subseteq G.taken
  BY <1>3 DEF Area!AreaRecord, Area!RemoveClient, Area!Freed
<1>7. client[d].area \in Areas
  BY ActiveClient DEF Here
<1> QED BY <1>3, <1>4, <1>5, <1>6, <1>7 DEF Here, Unspoilt, StaysUnspoilt

\* changeArea, whatever as keeps of the members it leaves.
LEMMA MoveMoves ==
  ASSUME Registry, NEW d \in Clients, client[d].phase # "none",
         NEW a, Moves(d, a),
         NEW as, \A b \in Areas : /\ as[b].joined = AreasAfterMove(d, a)[b].joined
                                  /\ as[b].playerCount = AreasAfterMove(d, a)[b].playerCount
                                  /\ as[b].taken = AreasAfterMove(d, a)[b].taken,
         NEW n, Ends(as, ClientsAfterMove(d, a), n)
  PROVE  Quiet \/ MovesTo(d, a)
<1> DEFINE A == AreaLeftBy(client[d])
           left == [areas EXCEPT ![client[d].area] = A]
           C == Area!AddClient(left[a], CharIdAfterMove(d, a), client[d].id)
           char == IF LosesCharacter(d, a) THEN Area!NoCharacter
                   ELSE client[d].character
           moved == [client[d] EXCEPT !.area = a,
                                      !.charId = CharIdAfterMove(d, a),
                                      !.character = char]
<1>1. /\ client[d] \in ClientRecord /\ Here(d) \in Areas /\ client[d].id \in Ids
      /\ a \in Areas /\ a # Here(d)
      /\ areas \in AreaMap
  BY ActiveClient, CurrentTypes DEF Moves
<1>2. /\ A \in Area!AreaRecord(Ids)
      /\ A.joined = areas[Here(d)].joined \ {client[d].id}
      /\ Unspoilt /\ client[d].character # Area!NoCharacter
           => client[d].character \notin A.taken
      /\ StaysUnspoilt(areas[Here(d)], A)
  BY LeftBy
<1>left. A.playerCount = areas[Here(d)].playerCount - 1
  BY LeftBy
<1> HIDE DEF A
<1>3. /\ left \in AreaMap
      /\ \A b \in Areas : left[b] = IF b = Here(d) THEN A ELSE areas[b]
  BY <1>1, <1>2 DEF AreaMap, Here
<1> HIDE DEF left
<1>4. C.joined = left[a].joined \cup {client[d].id} /\ StaysUnspoilt(left[a], C)
  BY <1>1, <1>3 DEF AreaMap, Area!AreaRecord, Area!AddClient, Area!NoCharacter,
                    StaysUnspoilt
<1>come. C.playerCount = left[a].playerCount + 1
  BY <1>1, <1>3 DEF AreaMap, Area!AreaRecord, Area!AddClient
<1>5. AreasAfterMove(d, a) = [left EXCEPT ![a] = C]
  BY Zenon DEF AreasAfterMove, left, A
<1> HIDE DEF C
<1>6. \A b \in Areas : AreasAfterMove(d, a)[b] = IF b = a THEN C ELSE left[b]
  BY <1>3, <1>5 DEF AreaMap
<1>7. \A b \in Areas :
        as[b].joined = IF b = a THEN areas[b].joined \cup {client[d].id}
                       ELSE IF b = Here(d) THEN areas[b].joined \ {client[d].id}
                       ELSE areas[b].joined
  <2> SUFFICES ASSUME NEW b \in Areas
               PROVE  as[b].joined = IF b = a THEN areas[b].joined \cup {client[d].id}
                                     ELSE IF b = Here(d) THEN areas[b].joined \ {client[d].id}
                                     ELSE areas[b].joined
    OBVIOUS
  <2>1. as[b].joined = AreasAfterMove(d, a)[b].joined
    OBVIOUS
  <2>2. CASE b = a
    BY <1>1, <1>3, <1>4, <1>6, <2>1, <2>2
  <2>3. CASE b = Here(d)
    BY <1>1, <1>2, <1>3, <1>6, <2>1, <2>3
  <2>4. CASE b # a /\ b # Here(d)
    BY <1>3, <1>6, <2>1, <2>4
  <2> QED BY <1>1, <2>2, <2>3, <2>4
<1>counts. CountsMove(d, a, as)
  <2> SUFFICES ASSUME NEW b \in Areas
               PROVE  as[b].playerCount = IF b = a THEN areas[b].playerCount + 1
                                          ELSE IF b = Here(d) THEN areas[b].playerCount - 1
                                          ELSE areas[b].playerCount
    BY DEF CountsMove
  <2>1. as[b].playerCount = AreasAfterMove(d, a)[b].playerCount
    OBVIOUS
  <2>2. CASE b = a
    BY <1>1, <1>3, <1>6, <1>come, <2>1, <2>2
  <2>3. CASE b = Here(d)
    BY <1>1, <1>3, <1>6, <1>left, <2>1, <2>3
  <2>4. CASE b # a /\ b # Here(d)
    BY <1>3, <1>6, <2>1, <2>4
  <2> QED BY <1>1, <2>2, <2>3, <2>4
<1>freed. Unspoilt /\ client[d].character # Area!NoCharacter
         => client[d].character \notin as[Here(d)].taken
  BY <1>1, <1>2, <1>3, <1>6
<1>kept. \A b \in Areas : StaysUnspoilt(areas[b], as[b])
  BY <1>1, <1>2, <1>3, <1>4, <1>6 DEF StaysUnspoilt
<1>8. ClientsAfterMove(d, a) = [client EXCEPT ![d] = moved]
  BY CurrentTypes DEF ClientsAfterMove, ClientMap
<1>9. /\ moved.phase = client[d].phase /\ moved.id = client[d].id /\ moved.area = a
      /\ Behaves(client[d], moved)
  <2>1. /\ moved.charId = CharIdAfterMove(d, a) /\ moved.character = char
        /\ moved.cursed = client[d].cursed
        /\ moved.curseList = client[d].curseList
        /\ moved.phase = client[d].phase /\ moved.id = client[d].id
        /\ moved.area = a
    <3> HIDE DEF char
    <3> QED BY <1>1 DEF ClientRecord
  <2> HIDE DEF moved
  <2> QED BY <2>1 DEF Behaves, Proper, Obeys, CharIdAfterMove
<1> HIDE DEF moved
<1>10. CASE Crash
  BY <1>10, Still DEF Crash
<1>11. CASE areas' = as /\ client' = ClientsAfterMove(d, a)
  <2>1. \A e \in Clients : client'[e] = IF e = d THEN moved ELSE client[e]
    BY <1>8, <1>11, CurrentTypes DEF ClientMap
  <2>2. \A e \in Clients : SamePlace(client[e], client[e]) /\ Behaves(client[e], client[e])
    BY DEF SamePlace, Behaves, Obeys
  <2> QED BY <1>1, <1>7, <1>9, <1>11, <1>counts, <1>freed, <1>kept, <2>1, <2>2 DEF MovesTo
<1> QED BY <1>10, <1>11 DEF Ends

\* A move makes nobody an owner.
LEMMA MoveOwners ==
  ASSUME Registry, NEW d \in Clients, client[d].phase # "none", NEW a \in Areas
  PROVE  \A b \in Areas : AreasAfterMove(d, a)[b].owners = areas[b].owners
  BY MoveOrder DEF SameRules, SameRule

\* /area
LEMMA JoinAreaMoves ==
  ASSUME Registry, NEW c \in Clients, NEW a \in Areas, JoinArea(c, a)
  PROVE  /\ client[c].phase = "session"
         /\ Quiet \/ MovesTo(c, a)
         /\ NoNewOwner
<1> DEFINE as == AreasAfterMove(c, a)
<1>1. client[c].phase = "session" /\ client[c].phase # "none" /\ Moves(c, a)
  BY DEF JoinArea, Active
<1>2. Ends(as, ClientsAfterMove(c, a), TellCounts(news, as))
  BY Zenon DEF JoinArea, Commit, Ends
<1>3. \A b \in Areas : as[b].owners = areas[b].owners
  BY <1>1, MoveOwners
<1> HIDE DEF as
<1>4. NoNewOwner
  BY <1>2, <1>3 DEF NoNewOwner, Ends, Crash
<1>5. Quiet \/ MovesTo(c, a)
  BY <1>1, <1>2, MoveMoves DEF as
<1> QED BY <1>1, <1>4, <1>5

\* /area_kick
LEMMA AreaKickMoves ==
  ASSUME Registry, NEW c \in Clients, NEW t \in Ids, AreaKick(c, t)
  PROVE  /\ \/ Quiet
            \/ \E d \in Clients : client[d].phase # "none" /\ MovesTo(d, 0)
         /\ NoNewOwner
<1> DEFINE d == clientMap[t]
           after == AreasAfterMove(d, 0)
           Without(as) == [as EXCEPT ![Here(c)] = Area!Uninvite(as[Here(c)], t)]
<1>1. /\ Active(c) /\ Here(c) \in Areas /\ 0 \in Areas
      /\ d \in Clients /\ client[d].phase # "none"
  <2>1. Active(c) /\ d \in Clients /\ client[d].phase # "none"
    BY FoundClient DEF AreaKick
  <2> QED BY <2>1, ActiveClient, ServerAssumption DEF Active, Areas
<1>2. \/ Moves(d, 0) /\ \E n : Ends(Without(after), ClientsAfterMove(d, 0), n)
      \/ \E n : Ends(Without(areas), client, n)
  BY Zenon DEF AreaKick, Commit, Ends
<1> HIDE DEF d
<1>3. ASSUME NEW as \in AreaMap
      PROVE  \A b \in Areas : /\ Without(as)[b].joined = as[b].joined
                              /\ Without(as)[b].playerCount = as[b].playerCount
                              /\ Without(as)[b].taken = as[b].taken
                              /\ Without(as)[b].owners = as[b].owners
  <2>1. as[Here(c)] \in Area!AreaRecord(Ids)
    BY <1>1 DEF AreaMap
  <2>2. /\ Area!Uninvite(as[Here(c)], t).joined = as[Here(c)].joined
        /\ Area!Uninvite(as[Here(c)], t).playerCount = as[Here(c)].playerCount
        /\ Area!Uninvite(as[Here(c)], t).taken = as[Here(c)].taken
        /\ Area!Uninvite(as[Here(c)], t).owners = as[Here(c)].owners
    BY <2>1 DEF Area!AreaRecord, Area!Uninvite
  <2>3. \A b \in Areas : Without(as)[b] = IF b = Here(c)
                                          THEN Area!Uninvite(as[Here(c)], t) ELSE as[b]
    BY DEF AreaMap
  <2> QED BY <2>2, <2>3
<1>4. /\ after \in AreaMap
      /\ \A b \in Areas : after[b].owners = areas[b].owners
  BY <1>1, MoveTypes, MoveOwners
<1> HIDE DEF after
<1>5. /\ \A b \in Areas : /\ Without(after)[b].joined = after[b].joined
                          /\ Without(after)[b].playerCount = after[b].playerCount
                          /\ Without(after)[b].taken = after[b].taken
                          /\ Without(after)[b].owners = areas[b].owners
      /\ \A b \in Areas : /\ Without(areas)[b].joined = areas[b].joined
                          /\ Without(areas)[b].playerCount = areas[b].playerCount
                          /\ Without(areas)[b].owners = areas[b].owners
                          /\ Without(areas)[b].taken = areas[b].taken
  BY <1>3, <1>4, CurrentTypes
<1> HIDE DEF Without
<1>6. ASSUME Moves(d, 0), NEW n, Ends(Without(after), ClientsAfterMove(d, 0), n)
      PROVE  (Quiet \/ MovesTo(d, 0)) /\ NoNewOwner
  <2>1. Quiet \/ MovesTo(d, 0)
    BY <1>1, <1>5, <1>6, MoveMoves DEF after
  <2>2. NoNewOwner
    BY <1>5, <1>6 DEF NoNewOwner, Ends, Crash
  <2> QED BY <2>1, <2>2
<1>7. ASSUME NEW n, Ends(Without(areas), client, n)
      PROVE  Quiet /\ NoNewOwner
  <2>1. \A e \in Clients : SamePlace(client[e], client[e]) /\ Behaves(client[e], client[e])
    BY DEF SamePlace, Behaves, Obeys
  <2> QED BY <1>5, <1>7, <2>1 DEF Quiet, NoNewOwner, Ends, Crash, StaysUnspoilt
<1> QED BY <1>1, <1>2, <1>6, <1>7

\* Every command about areas: it moves nobody, or one client.
LEMMA AreaMoves ==
  ASSUME Registry, NEW c \in Clients, AreaEvent(c)
  PROVE  /\ \/ Quiet
            \/ \E d \in Clients, a \in Areas :
                 client[d].phase = "session" /\ MovesTo(d, a)
            \/ \E d \in Clients : client[d].phase # "none" /\ MovesTo(d, 0)
         /\ Granted
<1>1. ASSUME NEW a \in Areas, JoinArea(c, a)
      PROVE  /\ Quiet \/ (client[c].phase = "session" /\ MovesTo(c, a))
             /\ Granted
  BY <1>1, JoinAreaMoves, NobodyGranted
<1>2. ASSUME NEW t \in Ids, AreaKick(c, t)
      PROVE  /\ \/ Quiet
                \/ \E d \in Clients : client[d].phase # "none" /\ MovesTo(d, 0)
             /\ Granted
  BY <1>2, AreaKickMoves, NobodyGranted
<1>3. ASSUME BroadcastToArea(c) \/ \E a \in AskedAreas : AreaMessage(c, a)
      PROVE  Quiet /\ Granted
  BY <1>3, Still, NobodyGranted DEF BroadcastToArea, AreaMessage, Crash, LosesArea
<1>4. CASE BecomeCM(c)
  <2>1. Active(c) /\ client[c].id \in Ids
    BY <1>4, ActiveClient DEF BecomeCM, Active
  <2> QED BY <1>4, <2>1, AddsOwnerGranted DEF BecomeCM
<1>5. ASSUME NEW t \in Ids, PromoteCM(c, t) PROVE Quiet /\ Granted
  BY <1>5, AddsOwnerGranted DEF PromoteCM
<1>6. ASSUME NEW t \in Ids,
             \/ UnCM(c) \/ ClearCM(c) \/ UnCMOther(c, t)
             \/ InviteCommand(c, t) \/ UnInviteCommand(c, t)
             \/ Lock(c) \/ Spectatable(c) \/ UnLock(c)
      PROVE  Quiet /\ Granted
  BY <1>6, TakesQuiet, NobodyGranted
<1>7. \E t : t \in Ids
  BY ServerAssumption DEF Ids
<1> QED BY <1>1, <1>2, <1>3, <1>4, <1>5, <1>6, <1>7 DEF AreaEvent

-----------------------------------------------------------------------------
(* Who listens where *)

\* A client that has not shaken hands is in area 0, where everybody starts:
\* without this, a Hello could find its client elsewhere.
Listening ==
  /\ ListenersAreInSession
  /\ \A c \in Clients : client[c].phase = "handshake" => Here(c) = 0

\* Two clients on the list have two ids.
LEMMA Distinct ==
  ASSUME Registry, NEW c \in Clients, NEW d \in Clients,
         client[c].phase # "none", client[d].phase # "none",
         client[c].id = client[d].id
  PROVE  c = d
  BY RegisteredIds DEF Registry, RegistryConsistent, MapMatchesList

LEMMA QuietListening ==
  ASSUME Listening, Quiet
  PROVE  Listening'
<1>1. \A e \in Clients : /\ client'[e].phase = client[e].phase
                         /\ client'[e].id = client[e].id
                         /\ client'[e].area = client[e].area
  BY DEF Quiet, SamePlace
<1> QED BY <1>1 DEF Quiet, Listening, ListenersAreInSession, Sessions, Here, InSession

LEMMA MoveListening ==
  ASSUME Registry, Listening, NEW d \in Clients, client[d].phase # "none",
         NEW a \in Areas, MovesTo(d, a), client[d].phase = "session" \/ a = 0
  PROVE  Listening'
<1>1. \A e \in Clients : /\ client'[e].phase = client[e].phase
                         /\ client'[e].id = client[e].id
                         /\ client'[e].area = IF e = d THEN a ELSE client[e].area
  BY DEF MovesTo, SamePlace
<1>2. client[d].phase # "handshake"
  BY DEF MovesTo, Listening
<1>3. \A e \in Clients : client'[e].phase = "handshake" => client'[e].area = 0
  BY <1>1, <1>2 DEF Listening, Here
<1>4. ASSUME NEW e \in Clients, client'[e].phase = "session", NEW b \in Areas
      PROVE  client'[e].id \in areas'[b].joined <=> b = client'[e].area
  <2>1. client[e].id \in areas[b].joined <=> b = client[e].area
    BY <1>1, <1>4 DEF Listening, ListenersAreInSession, Sessions, Here
  <2>2. CASE e = d
    BY <1>1, <2>1, <2>2 DEF MovesTo, Here
  <2>3. CASE e # d
    <3>1. client[e].id # client[d].id
      BY <1>1, <1>4, <2>3, Distinct
    <3> QED BY <1>1, <2>1, <2>3, <3>1 DEF MovesTo
  <2> QED BY <2>2, <2>3
<1>5. ASSUME NEW b \in Areas \ {0}, NEW i \in areas'[b].joined
      PROVE  \E e \in Clients : /\ client'[e].phase = "session"
                                /\ client'[e].id = i /\ client'[e].area = b
  <2>1. CASE i = client[d].id /\ b = a
    BY <1>1, <2>1
  <2>2. CASE ~(i = client[d].id /\ b = a)
    <3>1. i \in areas[b].joined /\ ~(i = client[d].id /\ b = Here(d))
      BY <2>2 DEF MovesTo
    <3>2. PICK e \in Clients : /\ client[e].phase = "session"
                               /\ client[e].id = i /\ client[e].area = b
      BY <3>1 DEF Listening, ListenersAreInSession, InSession, Sessions, Here
    <3>3. e # d
      BY <3>1, <3>2 DEF Here
    <3> QED BY <1>1, <3>2, <3>3
  <2> QED BY <2>1, <2>2
<1> QED BY <1>3, <1>4, <1>5
        DEF Listening, ListenersAreInSession, Sessions, Here, InSession

\* A handshake or a session that ends: one client's phase, and whether its id
\* is heard where it is.
LEMMA HelloListening ==
  ASSUME Registry, Listening, NEW c \in Clients, Hello(c)
  PROVE  Listening'
<1> DEFINE A == Area!AddClient(areas[0], Area!NoCharacter, client[c].id)
           me == [client[c] EXCEPT !.phase = "session"]
<1>1. /\ 0 \in Areas /\ areas[0] \in Area!AreaRecord(Ids)
      /\ client[c] \in ClientRecord /\ client[c].phase = "handshake"
      /\ client[c].id \in Ids /\ Here(c) = 0
  <2>1. client[c].phase = "handshake"
    BY DEF Hello
  <2> QED BY <2>1, ActiveClient, CurrentTypes, ServerAssumption
          DEF AreaMap, Areas, Listening
<1>2. A.joined = areas[0].joined \cup {client[c].id}
  BY <1>1 DEF Area!AreaRecord, Area!AddClient
<1>3. me.phase = "session" /\ me.id = client[c].id /\ me.area = 0
  BY <1>1 DEF ClientRecord, Here
<1>4. \/ UNCHANGED <<areas, client>>
      \/ areas' = [areas EXCEPT ![0] = A] /\ client' = [client EXCEPT ![c] = me]
  BY Zenon DEF Hello, Commit, Crash
<1> HIDE DEF A, me
<1>5. CASE UNCHANGED <<areas, client>>
  BY <1>5, Still, QuietListening
<1>6. CASE areas' = [areas EXCEPT ![0] = A] /\ client' = [client EXCEPT ![c] = me]
  <2>1. /\ \A a \in Areas : areas'[a] = IF a = 0 THEN A ELSE areas[a]
        /\ \A e \in Clients : client'[e] = IF e = c THEN me ELSE client[e]
    BY <1>6, CurrentTypes DEF AreaMap, ClientMap
  <2>2. \A e \in Clients : client'[e].phase = "handshake" => client'[e].area = 0
    BY <1>3, <2>1 DEF Listening, Here
  <2>3. ASSUME NEW e \in Clients, client'[e].phase = "session", NEW b \in Areas
        PROVE  client'[e].id \in areas'[b].joined <=> b = client'[e].area
    <3>1. CASE e = c
      <4>1. ASSUME b # 0 PROVE client[c].id \notin areas[b].joined
        <5> SUFFICES ASSUME client[c].id \in areas[b].joined PROVE FALSE
          OBVIOUS
        <5>1. PICK f \in Clients : client[f].phase = "session" /\ client[f].id = client[c].id
          BY <4>1 DEF Listening, ListenersAreInSession, InSession, Sessions
        <5>2. f = c
          BY <1>1, <5>1, Distinct
        <5> QED BY <1>1, <5>1, <5>2
      <4> QED BY <1>2, <1>3, <2>1, <3>1, <4>1
    <3>2. CASE e # c
      <4>1. client[e].phase = "session" /\ client[e].id # client[c].id
        BY <1>1, <2>1, <2>3, <3>2, Distinct
      <4>2. client[e].id \in areas[b].joined <=> b = client[e].area
        BY <4>1 DEF Listening, ListenersAreInSession, Sessions, Here
      <4> QED BY <1>2, <2>1, <3>2, <4>1, <4>2
    <3> QED BY <3>1, <3>2
  <2>4. ASSUME NEW b \in Areas \ {0}, NEW i \in areas'[b].joined
        PROVE  \E e \in Clients : /\ client'[e].phase = "session"
                                  /\ client'[e].id = i /\ client'[e].area = b
    <3>1. PICK e \in Clients : /\ client[e].phase = "session"
                               /\ client[e].id = i /\ client[e].area = b
      BY <2>1 DEF Listening, ListenersAreInSession, InSession, Sessions, Here
    <3>2. e # c
      BY <1>1, <3>1
    <3> QED BY <2>1, <3>1, <3>2
  <2> QED BY <2>2, <2>3, <2>4
          DEF Listening, ListenersAreInSession, Sessions, Here, InSession
<1> QED BY <1>4, <1>5, <1>6

LEMMA FinishSessionListening ==
  ASSUME Registry, Listening, NEW c \in Clients, FinishSession(c)
  PROVE  Listening'
<1> DEFINE id == client[c].id
           A == Area!RemoveClient(areas[Here(c)], client[c].character, id)
           left == [areas EXCEPT ![Here(c)] = A]
           as == RemoveOwnerEverywhere(left, id)
           me == [client[c] EXCEPT !.phase = "finished"]
<1>1. /\ Here(c) \in Areas /\ areas[Here(c)] \in Area!AreaRecord(Ids)
      /\ client[c] \in ClientRecord /\ id \in Ids /\ client[c].character \in Int
      /\ client[c].phase # "none"
  BY ActiveClient, ClientFields DEF FinishSession
<1>2. A \in Area!AreaRecord(Ids) /\ A.joined = areas[Here(c)].joined \ {id}
  <2> HIDE DEF id
  <2>1. A \in Area!AreaRecord(Ids)
    BY <1>1, MemberTypes
  <2> QED BY <1>1, <2>1 DEF Area!AreaRecord, Area!RemoveClient
<1>3. me.phase = "finished"
  BY <1>1 DEF ClientRecord
<1>4. \/ UNCHANGED <<areas, client>>
      \/ areas' = as /\ client' = [client EXCEPT ![c] = me]
  BY Zenon DEF FinishSession, Commit, Crash
<1> HIDE DEF A, me
<1>5. left \in AreaMap /\ \A a \in Areas : left[a] = IF a = Here(c) THEN A ELSE areas[a]
  BY <1>1, <1>2, CurrentTypes DEF AreaMap
<1> HIDE DEF left
<1>6. \A a \in Areas : as[a].joined = left[a].joined
  <2> SUFFICES ASSUME NEW a \in Areas
               PROVE  Area!RemoveOwner(left[a], id).joined = left[a].joined
    BY DEF RemoveOwnerEverywhere
  <2>1. left[a] \in Area!AreaRecord(Ids)
    BY <1>5 DEF AreaMap
  <2> QED BY <2>1, RuleMembers DEF Takes
<1> HIDE DEF as
<1>7. CASE UNCHANGED <<areas, client>>
  BY <1>7, Still, QuietListening
<1>8. CASE areas' = as /\ client' = [client EXCEPT ![c] = me]
  <2>1. /\ \A a \in Areas : areas'[a].joined = IF a = Here(c) THEN areas[a].joined \ {id}
                                               ELSE areas[a].joined
        /\ \A e \in Clients : client'[e] = IF e = c THEN me ELSE client[e]
    BY <1>2, <1>5, <1>6, <1>8, CurrentTypes DEF ClientMap
  <2>2. \A e \in Clients : client'[e].phase = "handshake" => client'[e].area = 0
    BY <1>3, <2>1 DEF Listening, Here
  <2>3. ASSUME NEW e \in Clients, client'[e].phase = "session", NEW b \in Areas
        PROVE  client'[e].id \in areas'[b].joined <=> b = client'[e].area
    <3>1. e # c
      BY <1>3, <2>1, <2>3
    <3>2. client[e].phase = "session" /\ client[e].id # id
      BY <1>1, <2>1, <2>3, <3>1, Distinct
    <3>3. client[e].id \in areas[b].joined <=> b = client[e].area
      BY <3>2 DEF Listening, ListenersAreInSession, Sessions, Here
    <3> QED BY <2>1, <3>1, <3>2, <3>3
  <2>4. ASSUME NEW b \in Areas \ {0}, NEW i \in areas'[b].joined
        PROVE  \E e \in Clients : /\ client'[e].phase = "session"
                                  /\ client'[e].id = i /\ client'[e].area = b
    <3>1. i \in areas[b].joined /\ ~(b = Here(c) /\ i = id)
      BY <2>1, <2>4
    <3>2. PICK e \in Clients : /\ client[e].phase = "session"
                               /\ client[e].id = i /\ client[e].area = b
      BY <3>1 DEF Listening, ListenersAreInSession, InSession, Sessions, Here
    <3>3. e # c
      BY <3>1, <3>2 DEF Here
    <3> QED BY <2>1, <3>2, <3>3
  <2> QED BY <2>2, <2>3, <2>4
          DEF Listening, ListenersAreInSession, Sessions, Here, InSession
<1> QED BY <1>4, <1>7, <1>8

\* Connections and removals concern clients that are in no session.
LEMMA ListedListening ==
  ASSUME Registry, Listening, NEW c \in Clients, ClientConnected(c) \/ RemoveClient(c)
  PROVE  Listening'
<1>1. PICK ph \in {"handshake", "none"}, i \in Ids \cup {NoId} :
        client' = [client EXCEPT ![c] = NewClient(ph, i)]
  <2>1. CASE ClientConnected(c)
    <3>1. idStack[Len(idStack)] \in Ids
      BY <2>1, Pop DEF ClientConnected, Registry, TypeOK
    <3> QED BY <2>1, <3>1 DEF ClientConnected
  <2>2. CASE RemoveClient(c)
    BY <2>2 DEF RemoveClient
  <2> QED BY <2>1, <2>2
<1>2. areas' = areas /\ client[c].phase # "session"
  BY DEF ClientConnected, RemoveClient
<1>3. NewClient(ph, i).phase = ph /\ NewClient(ph, i).area = 0
  BY DEF NewClient
<1>4. \A e \in Clients : client'[e] = IF e = c THEN NewClient(ph, i) ELSE client[e]
  BY <1>1, CurrentTypes DEF ClientMap
<1>5. Sessions' = Sessions
  BY <1>2, <1>3, <1>4 DEF Sessions
<1>6. \A e \in Sessions : client'[e] = client[e]
  BY <1>2, <1>4 DEF Sessions
<1>7. ListenersAreInSession'
  BY <1>2, <1>5, <1>6 DEF Listening, ListenersAreInSession, Here, InSession
<1>8. \A e \in Clients : client'[e].phase = "handshake" => client'[e].area = 0
  BY <1>3, <1>4 DEF Listening, Here
<1> QED BY <1>7, <1>8 DEF Listening, Here

LEMMA InitListening == Init => Listening
  BY DEF Init, Listening, ListenersAreInSession, Sessions, InSession, Here,
         NewClient, Area!NewArea

LEMMA NextListening == Registry /\ Listening /\ [Next]_vars => Listening'
<1> SUFFICES ASSUME Registry, Listening, [Next]_vars PROVE Listening'
  OBVIOUS
<1>1. ASSUME NEW c \in Clients, ConnectionEvent(c) PROVE Listening'
  BY <1>1, HelloListening, FinishSessionListening, ListedListening DEF ConnectionEvent
<1>2. ASSUME NEW c \in Clients, AreaEvent(c) PROVE Listening'
  <2>1. 0 \in Areas
    BY ServerAssumption DEF Areas
  <2>2. ASSUME NEW d \in Clients, NEW a \in Areas, client[d].phase = "session",
               MovesTo(d, a)
        PROVE  Listening'
    BY <2>2, MoveListening
  <2>3. ASSUME NEW d \in Clients, client[d].phase # "none", MovesTo(d, 0)
        PROVE  Listening'
    BY <2>1, <2>3, MoveListening
  <2> QED BY <1>2, <2>2, <2>3, AreaMoves, QuietListening
<1>3. ASSUME NEW c \in Clients, CharacterEvent(c) PROVE Listening'
  BY <1>3, CharacterQuiet, QuietListening
<1>4. CASE UNCHANGED vars
  BY <1>4, Still, QuietListening DEF vars
<1> QED BY <1>1, <1>2, <1>3, <1>4 DEF Next, Halted

LEMMA AlwaysListening == Spec => []Listening
  BY InitListening, NextListening, AlwaysRegistry, PTL DEF Spec

\* For any number of clients and areas: a client in session hears its own area
\* and no other, and outside area 0 nobody else is addressed.
THEOREM ListenersCorrect == Spec => []ListenersAreInSession
<1>1. Listening => ListenersAreInSession
  BY DEF Listening
<1> QED BY <1>1, AlwaysListening, PTL

-----------------------------------------------------------------------------
(* Spectators, curses, and who comes in where *)

\* What LeaverFreesCharacter says of one client.
LeavesFree(c) ==
  LET k == client[c].character IN
    /\ Unspoilt
    /\ k # Area!NoCharacter
    /\ client[c].phase = "session"
    /\ client'[c].area # Here(c) \/ client'[c].phase = "finished"
    => k \notin areas'[Here(c)].taken

\* What a step has to do.
Behaved ==
  /\ \A c \in Clients : Behaves(client[c], client'[c])
  /\ \A c \in Clients : LeavesFree(c)
  /\ \A a \in Areas : StaysUnspoilt(areas[a], areas'[a])
  /\ Granted

LEMMA QuietBehaved ==
  ASSUME Quiet, Granted
  PROVE  Behaved
  BY DEF Quiet, Behaved, SamePlace, Here, LeavesFree

LEMMA MoveBehaved ==
  ASSUME NEW d \in Clients, NEW a, MovesTo(d, a), Granted
  PROVE  Behaved
<1>1. ASSUME NEW c \in Clients
      PROVE  /\ Behaves(client[c], client'[c])
             /\ LeavesFree(c)
  <2>1. CASE c = d
    BY <2>1 DEF MovesTo, LeavesFree
  <2>2. CASE c # d
    BY <2>2 DEF MovesTo, SamePlace, Here, LeavesFree
  <2> QED BY <2>1, <2>2
<1> QED BY <1>1 DEF Behaved, MovesTo

\* Connections and what ends them: a client is new, or as it was.
LEMMA ConnectionBehaved ==
  ASSUME Registry, NEW c \in Clients, ConnectionEvent(c)
  PROVE  Behaved
<1>1. ASSUME NEW me, Behaves(client[c], me),
             client' = [client EXCEPT ![c] = me], NoNewOwner, LeavesFree(c),
             \A a \in Areas : StaysUnspoilt(areas[a], areas'[a])
      PROVE  Behaved
  <2>1. \A e \in Clients : client'[e] = IF e = c THEN me ELSE client[e]
    BY <1>1, CurrentTypes DEF ClientMap
  <2>2. \A e \in Clients : Behaves(client[e], client[e])
    BY DEF Behaves, Obeys
  <2>3. \A e \in Clients \ {c} : LeavesFree(e)
    BY <2>1 DEF LeavesFree, Here
  <2> QED BY <1>1, <2>1, <2>2, <2>3, NobodyGranted DEF Behaved, Here
<1>2. ASSUME UNCHANGED <<client, areas>> PROVE Behaved
  BY <1>2, Still, NobodyGranted, QuietBehaved
<1>3. ASSUME NEW ph \in {"handshake", "none"}, NEW i,
             client' = [client EXCEPT ![c] = NewClient(ph, i)], areas' = areas,
             client[c].phase # "session"
      PROVE  Behaved
  <2>1. /\ Behaves(client[c], NewClient(ph, i))
        /\ NewClient(ph, i).phase # "session"
    BY DEF NewClient, Behaves, Proper, Obeys
  <2>2. NoNewOwner
    BY <1>3 DEF NoNewOwner
  <2>3. LeavesFree(c) /\ \A a \in Areas : StaysUnspoilt(areas[a], areas'[a])
    BY <1>3 DEF LeavesFree, StaysUnspoilt
  <2> QED BY <1>1, <1>3, <2>1, <2>2, <2>3
<1>4. CASE ClientConnected(c)
  BY <1>3, <1>4 DEF ClientConnected
<1>5. CASE RemoveClient(c)
  BY <1>3, <1>5 DEF RemoveClient
<1>6. ASSUME NEW ph,
             client' = [client EXCEPT ![c] = [client[c] EXCEPT !.phase = ph]],
             NoNewOwner, LeavesFree(c),
             \A a \in Areas : StaysUnspoilt(areas[a], areas'[a])
      PROVE  Behaved
  <2> DEFINE me == [client[c] EXCEPT !.phase = ph]
  <2>1. Behaves(client[c], me) /\ me.area = Here(c)
    BY CurrentTypes DEF ClientMap, ClientRecord, Behaves, Proper, Obeys, Here
  <2> HIDE DEF me
  <2> QED BY <1>1, <1>6, <2>1 DEF me
<1>7. CASE Hello(c)
  <2> DEFINE A == Area!AddClient(areas[0], Area!NoCharacter, client[c].id)
  <2>1. \/ UNCHANGED <<client, areas>>
        \/ /\ areas' = [areas EXCEPT ![0] = A]
           /\ client' = [client EXCEPT ![c] = [client[c] EXCEPT !.phase = "session"]]
    BY <1>7, Zenon DEF Hello, Commit, Crash
  <2>2. A.owners = areas[0].owners /\ StaysUnspoilt(areas[0], A) /\ areas \in AreaMap
    <3>1. 0 \in Areas /\ areas \in AreaMap
      BY CurrentTypes, ServerAssumption DEF Areas
    <3> QED BY <3>1 DEF AreaMap, Area!AreaRecord, Area!AddClient, StaysUnspoilt
  <2> HIDE DEF A
  <2>3. areas' = [areas EXCEPT ![0] = A]
          => NoNewOwner /\ \A a \in Areas : StaysUnspoilt(areas[a], areas'[a])
    BY <2>2 DEF NoNewOwner, AreaMap, StaysUnspoilt
  <2>4. LeavesFree(c)
    BY <1>7 DEF Hello, LeavesFree
  <2> QED BY <1>2, <1>6, <2>1, <2>3, <2>4
<1>8. CASE FinishSession(c)
  <2> DEFINE id == client[c].id
             A == Area!RemoveClient(areas[Here(c)], client[c].character, id)
             left == [areas EXCEPT ![Here(c)] = A]
             as == RemoveOwnerEverywhere(left, id)
  <2>1. \/ UNCHANGED <<client, areas>>
        \/ /\ areas' = as
           /\ client' = [client EXCEPT ![c] = [client[c] EXCEPT !.phase = "finished"]]
    BY <1>8, Zenon DEF FinishSession, Commit, Crash
  <2>2. /\ Here(c) \in Areas /\ areas[Here(c)] \in Area!AreaRecord(Ids)
        /\ client[c].character \in Int /\ id \in Ids
    BY <1>8, ActiveClient, ClientFields DEF FinishSession
  <2> HIDE DEF id
  <2>3. A \in Area!AreaRecord(Ids)
    BY <2>2, MemberTypes
  <2>4. A.owners = areas[Here(c)].owners
    BY <2>2 DEF Area!AreaRecord, Area!RemoveClient
  <2>5. /\ client[c].character # Area!NoCharacter => client[c].character \notin A.taken
        /\ StaysUnspoilt(areas[Here(c)], A)
    BY <2>2 DEF Area!AreaRecord, Area!RemoveClient, Area!Freed, StaysUnspoilt
  <2> HIDE DEF A
  <2>6. /\ left \in AreaMap
        /\ \A a \in Areas : /\ left[a].owners = areas[a].owners
                            /\ StaysUnspoilt(areas[a], left[a])
        /\ left[Here(c)] = A
    BY <2>2, <2>3, <2>4, <2>5, CurrentTypes DEF AreaMap, StaysUnspoilt
  <2> HIDE DEF left
  <2>7. \A a \in Areas : Takes(left[a], as[a])
    <3> SUFFICES ASSUME NEW a \in Areas
                 PROVE  Takes(left[a], left[a]) /\ Takes(left[a], Area!RemoveOwner(left[a], id))
      BY DEF RemoveOwnerEverywhere
    <3>1. left[a] \in Area!AreaRecord(Ids)
      BY <2>6 DEF AreaMap
    <3> QED BY <3>1, RuleMembers DEF Takes
  <2> HIDE DEF as
  <2>8. areas' = as
          => NoNewOwner /\ \A a \in Areas : StaysUnspoilt(areas[a], areas'[a])
    BY <2>6, <2>7 DEF NoNewOwner, Takes, StaysUnspoilt
  <2>9. areas' = as => LeavesFree(c)
    BY <2>2, <2>6, <2>7, <2>5 DEF LeavesFree, Takes
  <2> QED BY <1>2, <1>6, <2>1, <2>8, <2>9
<1> QED BY <1>4, <1>5, <1>7, <1>8 DEF ConnectionEvent

LEMMA NextBehaved == Registry /\ [Next]_vars => Behaved
<1> SUFFICES ASSUME Registry, [Next]_vars PROVE Behaved
  OBVIOUS
<1>1. ASSUME NEW c \in Clients, AreaEvent(c) PROVE Behaved
  BY <1>1, AreaMoves, QuietBehaved, MoveBehaved
<1>2. ASSUME NEW c \in Clients, CharacterEvent(c) PROVE Behaved
  BY <1>2, CharacterQuiet, NobodyGranted, QuietBehaved
<1>3. CASE UNCHANGED vars
  BY <1>3, Still, NobodyGranted, QuietBehaved DEF vars
<1> QED BY <1>1, <1>2, <1>3, ConnectionBehaved DEF Next, Halted

AllProper == \A c \in Clients : Proper(client[c])

LEMMA AlwaysProper == Spec => []AllProper
<1>1. Init => AllProper
  BY DEF Init, AllProper, Proper, NewClient
<1>2. Registry /\ AllProper /\ [Next]_vars => AllProper'
  BY NextBehaved DEF AllProper, Behaved, Behaves, Proper
<1> QED BY <1>1, <1>2, AlwaysRegistry, PTL DEF Spec

\* Whichever way a client comes to be a spectator, and whatever it was before,
\* it uses no character.
THEOREM SpectatorsUseNone == Spec => []SpectatorHasNoCharacter
<1>1. AllProper => SpectatorHasNoCharacter
  BY DEF AllProper, Proper, SpectatorHasNoCharacter
<1> QED BY <1>1, AlwaysProper, PTL

\* No early return of /charcurse leaves a client cursed to nothing.
THEOREM CursedHaveChoice == Spec => []CurseLeavesChoice
<1>1. AllProper => CurseLeavesChoice
  BY DEF AllProper, Proper, CurseLeavesChoice
<1> QED BY <1>1, AlwaysProper, PTL

\* A curse holds against every way of changing characters.
THEOREM CurseHolds == Spec => CurseIsKept
<1> DEFINE Held == \A c \in Clients :
                     /\ client[c].cursed /\ client'[c].cursed
                     /\ client'[c].character # client[c].character
                     => client'[c].character \in client[c].curseList \cup {Area!NoCharacter}
<1>1. Registry /\ [Next]_vars => [Held]_vars
  BY NextBehaved DEF Behaved, Behaves, Obeys
<1> QED BY <1>1, AlwaysRegistry, PTL DEF Spec, CurseIsKept

\* The character in use is free where the client was, however it leaves.
THEOREM LeaversFree == Spec => LeaverFreesCharacter
<1> DEFINE Frees == \A c \in Clients :
                      LET k == client[c].character IN
                        /\ k # Area!NoCharacter
                        /\ client[c].phase = "session"
                        /\ client'[c].area # Here(c) \/ client'[c].phase = "finished"
                        => k \notin areas'[Here(c)].taken
<1>1. Init => Unspoilt
  BY DEF Init, Unspoilt, Area!NewArea
<1>2. Registry /\ Unspoilt /\ [Next]_vars => Unspoilt'
  BY NextBehaved DEF Behaved, Unspoilt, StaysUnspoilt
<1>3. Registry /\ Unspoilt /\ [Next]_vars => [Frees]_vars
  BY NextBehaved DEF Behaved, LeavesFree
<1> QED BY <1>1, <1>2, <1>3, AlwaysRegistry, PTL DEF Spec, LeaverFreesCharacter

\* Nobody becomes CM but by /cm.
THEOREM OwnershipGranted == Spec => OwnershipIsGranted
<1>1. Registry /\ [Next]_vars => [Granted]_vars
  BY NextBehaved DEF Behaved
<1> QED BY <1>1, AlwaysRegistry, PTL DEF Spec, OwnershipIsGranted, Granted

-----------------------------------------------------------------------------
(* How many clients of one address *)

\* The list never grows but by a connection.
LEMMA ListGrows ==
  ASSUME Registry, [Next]_vars, \A c \in Clients : ~ClientConnected(c)
  PROVE  Registered' \subseteq Registered
<1>1. ASSUME UNCHANGED clientMap PROVE Registered' \subseteq Registered
  <2> SUFFICES ASSUME NEW c \in Registered' PROVE c \in Registered
    OBVIOUS
  <2>1. Registry'
    BY NextRegistry
  <2>2. /\ c \in Clients /\ client'[c].phase # "none"
        /\ client'[c].id \in Ids /\ clientMap'[client'[c].id] = c
    BY <2>1 DEF Registry, RegistryConsistent, MapMatchesList, Registered
  <2>3. clientMap[client'[c].id] = c
    BY <1>1, <2>2
  <2>4. client[c].phase # "none"
    BY <2>2, <2>3 DEF Registry, RegistryConsistent, MapMatchesList
  <2> QED BY <2>2, <2>4 DEF Registered
<1>2. ASSUME NEW c \in Clients, RemoveClient(c) PROVE Registered' \subseteq Registered
  <2>1. \A e \in Clients : client'[e] = IF e = c THEN NewClient("none", NoId)
                                        ELSE client[e]
    BY <1>2, CurrentTypes DEF RemoveClient, ClientMap
  <2>2. NewClient("none", NoId).phase = "none"
    BY DEF NewClient
  <2> QED BY <2>1, <2>2 DEF Registered
<1>3. ASSUME NEW c \in Clients,
             Hello(c) \/ FinishSession(c) \/ AreaEvent(c) \/ CharacterEvent(c)
      PROVE  Registered' \subseteq Registered
  BY <1>1, <1>3, OthersKeepIds
<1> QED BY <1>1, <1>2, <1>3 DEF Next, ConnectionEvent, Halted, vars

\* There are no more clients on the list than ids.
LEMMA RegisteredFinite ==
  ASSUME Registry
  PROVE  IsFiniteSet(Registered)
<1> DEFINE f == [c \in Registered |-> client[c].id]
<1>1. \A c, d \in Registered : client[c].id = client[d].id => c = d
  BY Distinct DEF Registered
<1>2. f \in Injection(Registered, Ids)
  BY <1>1 DEF Injection, IsInjective, Registry, RegistryConsistent
<1>3. IsFiniteSet(Ids)
  BY FS_Interval, ServerAssumption DEF Ids
<1> QED BY <1>2, <1>3, FS_Injection

LEMMA NextLimit ==
  Registry /\ MultiClientLimitHeld /\ [Next]_vars => MultiClientLimitHeld'
<1> SUFFICES ASSUME Registry, MultiClientLimitHeld, [Next]_vars,
                    NEW d \in Registered', Address[d] \notin Loopback
             PROVE  Cardinality(SameAddress(d)') <= MultiClientLimit
  BY DEF MultiClientLimitHeld, SameAddress
<1>1. /\ IsFiniteSet(SameAddress(d))
      /\ MultiClientLimit \in Nat
  BY RegisteredFinite, FS_Subset, ServerAssumption DEF SameAddress
<1>2. Cardinality(SameAddress(d)) \in Nat
  BY <1>1, FS_CardinalityType
<1>3. Cardinality(SameAddress(d)) <= MultiClientLimit
  <2>1. ASSUME NEW e \in SameAddress(d)
        PROVE  Cardinality(SameAddress(d)) <= MultiClientLimit
    <3>1. e \in Registered /\ Address[e] = Address[d]
      BY DEF SameAddress
    <3>2. SameAddress(e) = SameAddress(d)
      BY <3>1 DEF SameAddress
    <3> QED BY <3>1, <3>2 DEF MultiClientLimitHeld
  <2>2. CASE SameAddress(d) = {}
    BY <1>1, <2>2, FS_EmptySet
  <2> QED BY <2>1, <2>2
<1>4. CASE \A c \in Clients : ~ClientConnected(c)
  <2>1. SameAddress(d)' \subseteq SameAddress(d)
    BY <1>4, ListGrows DEF SameAddress
  <2>2. /\ IsFiniteSet(SameAddress(d)')
        /\ Cardinality(SameAddress(d)') <= Cardinality(SameAddress(d))
    BY <1>1, <2>1, FS_Subset
  <2>3. Cardinality(SameAddress(d)') \in Nat
    BY <2>2, FS_CardinalityType
  <2> QED BY <1>1, <1>2, <1>3, <2>2, <2>3
<1>5. ASSUME NEW c \in Clients, ClientConnected(c)
      PROVE  Cardinality(SameAddress(d)') <= MultiClientLimit
  <2>1. Registered' = Registered \cup {c} /\ c \notin Registered
    <3>1. PICK i : client' = [client EXCEPT ![c] = NewClient("handshake", i)]
      BY <1>5 DEF ClientConnected
    <3>2. \A e \in Clients : client'[e] = IF e = c THEN NewClient("handshake", i)
                                          ELSE client[e]
      BY <3>1, CurrentTypes DEF ClientMap
    <3>3. NewClient("handshake", i).phase = "handshake"
      BY DEF NewClient
    <3>4. client[c].phase = "none"
      BY <1>5 DEF ClientConnected
    <3> QED BY <3>2, <3>3, <3>4 DEF Registered
  <2>2. CASE Address[c] = Address[d]
    <3>1. /\ SameAddress(d)' = SameAddress(d) \cup {c}
          /\ c \notin SameAddress(d)
          /\ SameAddress(c) = SameAddress(d)
      BY <2>1, <2>2 DEF SameAddress
    <3>2. Cardinality(SameAddress(d)') = Cardinality(SameAddress(d)) + 1
      BY <1>1, <3>1, FS_AddElement
    <3>3. Cardinality(SameAddress(d)) < MultiClientLimit
      BY <1>5, <2>2, <3>1 DEF ClientConnected
    <3> QED BY <1>1, <1>2, <3>2, <3>3
  <2>3. CASE Address[c] # Address[d]
    <3>1. SameAddress(d)' = SameAddress(d)
      BY <2>1, <2>3 DEF SameAddress
    <3> QED BY <1>3, <3>1
  <2> QED BY <2>2, <2>3
<1> QED BY <1>4, <1>5

\* Whoever comes and goes, no address that is not loopback ever has more
\* clients than multiclient_limit allows.
THEOREM LimitHolds == Spec => []MultiClientLimitHeld
<1>1. Init => MultiClientLimitHeld
  BY DEF Init, MultiClientLimitHeld, Registered, NewClient
<1> QED BY <1>1, NextLimit, AlwaysRegistry, PTL DEF Spec

-----------------------------------------------------------------------------
(* Player counts *)

\* What CountFollowsSessions says of one area.
Follows(a) ==
  areas'[a].playerCount - areas[a].playerCount
    = Cardinality(After(a)) - Cardinality(Before(a)) - (IF LeavesEarly(a) THEN 1 ELSE 0)

\* The four ways of the code: nobody comes or goes, one comes, one goes, and
\* one is subtracted that was never added.
LEMMA CountRules ==
  ASSUME Registry, NEW a \in Areas, NEW d
  PROVE  /\ areas'[a].playerCount = areas[a].playerCount /\ After(a) = Before(a)
              /\ ~LeavesEarly(a) => Follows(a)
         /\ areas'[a].playerCount = areas[a].playerCount + 1 /\ d \notin Before(a)
              /\ After(a) = Before(a) \cup {d} /\ ~LeavesEarly(a) => Follows(a)
         /\ areas'[a].playerCount = areas[a].playerCount - 1 /\ d \in Before(a)
              /\ After(a) = Before(a) \ {d} /\ ~LeavesEarly(a) => Follows(a)
         /\ areas'[a].playerCount = areas[a].playerCount - 1 /\ After(a) = Before(a)
              /\ LeavesEarly(a) => Follows(a)
<1>1. areas[a].playerCount \in Int
  BY CurrentTypes DEF AreaMap, Area!AreaRecord
<1>2. IsFiniteSet(Before(a))
  <2>1. Before(a) \subseteq Registered
    BY DEF Before, Lingers, Registered
  <2> QED BY <2>1, RegisteredFinite, FS_Subset
<1>3. Cardinality(Before(a)) \in Nat
  BY <1>2, FS_CardinalityType
<1>4. d \notin Before(a) => Cardinality(Before(a) \cup {d}) = Cardinality(Before(a)) + 1
  BY <1>2, FS_AddElement
<1>5. d \in Before(a) => Cardinality(Before(a) \ {d}) = Cardinality(Before(a)) - 1
  BY <1>2, FS_RemoveElement
<1>6. ASSUME areas'[a].playerCount = areas[a].playerCount, After(a) = Before(a),
             ~LeavesEarly(a)
      PROVE  Follows(a)
  BY <1>1, <1>3, <1>6 DEF Follows
<1>7. ASSUME areas'[a].playerCount = areas[a].playerCount + 1, d \notin Before(a),
             After(a) = Before(a) \cup {d}, ~LeavesEarly(a)
      PROVE  Follows(a)
  BY <1>1, <1>3, <1>4, <1>7 DEF Follows
<1>8. ASSUME areas'[a].playerCount = areas[a].playerCount - 1, d \in Before(a),
             After(a) = Before(a) \ {d}, ~LeavesEarly(a)
      PROVE  Follows(a)
  BY <1>1, <1>3, <1>5, <1>8 DEF Follows
<1>9. ASSUME areas'[a].playerCount = areas[a].playerCount - 1, After(a) = Before(a),
             LeavesEarly(a)
      PROVE  Follows(a)
  BY <1>1, <1>3, <1>9 DEF Follows
<1> QED BY <1>6, <1>7, <1>8, <1>9, Zenon

LEMMA QuietFollows ==
  ASSUME Registry, Quiet, NEW a \in Areas
  PROVE  Follows(a)
<1>1. \A c \in Clients : client'[c].phase = client[c].phase /\ client'[c].area = client[c].area
  BY DEF Quiet, SamePlace
<1>2. After(a) = Before(a) /\ ~LeavesEarly(a)
  BY <1>1 DEF After, Before, Lingers, Here, LeavesEarly
<1> QED BY <1>2, CountRules DEF Quiet

\* A move, of a client in session or of one that lingers.
LEMMA MoveFollows ==
  ASSUME Registry, NEW d \in Clients, client[d].phase \in {"session", "finished"},
         NEW b \in Areas, MovesTo(d, b), NEW a \in Areas
  PROVE  Follows(a)
<1>1. /\ \A c \in Clients : client'[c].phase = client[c].phase
      /\ \A c \in Clients \ {d} : client'[c].area = client[c].area
      /\ client'[d].area = b /\ b # Here(d)
  BY DEF MovesTo, SamePlace
<1>2. ~LeavesEarly(a)
  BY <1>1 DEF LeavesEarly
<1>3. areas'[a].playerCount = IF a = b THEN areas[a].playerCount + 1
                              ELSE IF a = Here(d) THEN areas[a].playerCount - 1
                              ELSE areas[a].playerCount
  BY DEF MovesTo, CountsMove
<1>4. CASE a = b
  <2>1. d \notin Before(a) /\ After(a) = Before(a) \cup {d}
    BY <1>1, <1>4 DEF After, Before, Lingers, Here
  <2> QED BY <1>2, <1>3, <1>4, <2>1, CountRules
<1>5. CASE a = Here(d)
  <2>1. d \in Before(a) /\ After(a) = Before(a) \ {d}
    BY <1>1, <1>5 DEF After, Before, Lingers, Here
  <2> QED BY <1>1, <1>2, <1>3, <1>5, <2>1, CountRules
<1>6. CASE a # b /\ a # Here(d)
  <2>1. After(a) = Before(a)
    BY <1>1, <1>6 DEF After, Before, Lingers, Here
  <2> QED BY <1>2, <1>3, <1>6, <2>1, CountRules
<1> QED BY <1>4, <1>5, <1>6

\* Connections and what ends them.
LEMMA ConnectionFollows ==
  ASSUME Registry, Listening, NEW c \in Clients, ConnectionEvent(c), NEW a \in Areas
  PROVE  Follows(a)
<1>1. CASE UNCHANGED <<client, areas>>
  BY <1>1, Still, QuietFollows
<1>2. ASSUME NEW ph \in {"handshake", "none"}, NEW i, areas' = areas,
             client' = [client EXCEPT ![c] = NewClient(ph, i)],
             client[c].phase \in {"none", "finished"}
      PROVE  Follows(a)
  <2>1. \A e \in Clients : client'[e] = IF e = c THEN NewClient(ph, i) ELSE client[e]
    BY <1>2, CurrentTypes DEF ClientMap
  <2>2. NewClient(ph, i).phase = ph
    BY DEF NewClient
  <2>3. After(a) = Before(a) /\ ~LeavesEarly(a)
    BY <1>2, <2>1, <2>2 DEF After, Before, Lingers, Here, LeavesEarly
  <2> QED BY <1>2, <2>3, CountRules
<1>3. CASE ClientConnected(c) \/ RemoveClient(c)
  BY <1>2, <1>3 DEF ClientConnected, RemoveClient
<1>4. ASSUME NEW ph,
             client' = [client EXCEPT ![c] = [client[c] EXCEPT !.phase = ph]]
      PROVE  \A e \in Clients : /\ client'[e].area = client[e].area
                                /\ client'[e].phase = IF e = c THEN ph ELSE client[e].phase
  <2>1. \A e \in Clients : client'[e] = IF e = c THEN [client[c] EXCEPT !.phase = ph]
                                        ELSE client[e]
    BY <1>4, CurrentTypes DEF ClientMap
  <2>2. client[c] \in ClientRecord
    BY CurrentTypes DEF ClientMap
  <2> QED BY <2>1, <2>2 DEF ClientRecord
<1>5. CASE Hello(c)
  <2> DEFINE A == Area!AddClient(areas[0], Area!NoCharacter, client[c].id)
  <2>1. \/ UNCHANGED <<client, areas>>
        \/ /\ areas' = [areas EXCEPT ![0] = A]
           /\ client' = [client EXCEPT ![c] = [client[c] EXCEPT !.phase = "session"]]
    BY <1>5, Zenon DEF Hello, Commit, Crash
  <2>2. areas \in AreaMap /\ 0 \in Areas
    BY CurrentTypes, ServerAssumption DEF Areas
  <2>3. A.playerCount = areas[0].playerCount + 1
    BY <2>2 DEF AreaMap, Area!AreaRecord, Area!AddClient
  <2> HIDE DEF A
  <2>4. client[c].phase = "handshake" /\ Here(c) = 0
    BY <1>5 DEF Hello, Listening
  <2>5. ASSUME areas' = [areas EXCEPT ![0] = A],
               client' = [client EXCEPT ![c] = [client[c] EXCEPT !.phase = "session"]]
        PROVE  Follows(a)
    <3>1. \A e \in Clients : /\ client'[e].area = client[e].area
                             /\ client'[e].phase = IF e = c THEN "session" ELSE client[e].phase
      BY <1>4, <2>5
    <3>2. ~LeavesEarly(a)
      BY <3>1 DEF LeavesEarly
    <3>3. areas'[a] = IF a = 0 THEN A ELSE areas[a]
      BY <2>2, <2>5 DEF AreaMap
    <3>4. CASE a = 0
      <4>1. c \notin Before(a) /\ After(a) = Before(a) \cup {c}
        BY <2>4, <3>1, <3>4 DEF After, Before, Lingers, Here
      <4> QED BY <2>3, <3>2, <3>3, <3>4, <4>1, CountRules
    <3>5. CASE a # 0
      <4>1. After(a) = Before(a)
        BY <2>4, <3>1, <3>5 DEF After, Before, Lingers, Here
      <4> QED BY <3>2, <3>3, <3>5, <4>1, CountRules
    <3> QED BY <3>4, <3>5
  <2> QED BY <1>1, <2>1, <2>5
<1>6. CASE FinishSession(c)
  <2> DEFINE id == client[c].id
             A == Area!RemoveClient(areas[Here(c)], client[c].character, id)
             left == [areas EXCEPT ![Here(c)] = A]
             as == RemoveOwnerEverywhere(left, id)
  <2>1. \/ UNCHANGED <<client, areas>>
        \/ /\ areas' = as
           /\ client' = [client EXCEPT ![c] = [client[c] EXCEPT !.phase = "finished"]]
    BY <1>6, Zenon DEF FinishSession, Commit, Crash
  <2>2. /\ Here(c) \in Areas /\ areas[Here(c)] \in Area!AreaRecord(Ids)
        /\ client[c].character \in Int /\ id \in Ids
        /\ client[c].phase \in {"handshake", "session"}
    BY <1>6, ActiveClient, ClientFields DEF FinishSession
  <2> HIDE DEF id
  <2>3. A \in Area!AreaRecord(Ids) /\ A.playerCount = areas[Here(c)].playerCount - 1
    <3>1. A \in Area!AreaRecord(Ids)
      BY <2>2, MemberTypes
    <3>2. A.playerCount = areas[Here(c)].playerCount - 1
      BY <2>2 DEF Area!AreaRecord, Area!RemoveClient
    <3> QED BY <3>1, <3>2
  <2> HIDE DEF A
  <2>4. left \in AreaMap /\ \A b \in Areas : left[b] = IF b = Here(c) THEN A ELSE areas[b]
    BY <2>2, <2>3, CurrentTypes DEF AreaMap
  <2> HIDE DEF left
  <2>5. as[a].playerCount = left[a].playerCount
    <3>1. left[a] \in Area!AreaRecord(Ids)
      BY <2>4 DEF AreaMap
    <3>2. as[a] \in {left[a], Area!RemoveOwner(left[a], id)}
      BY DEF RemoveOwnerEverywhere
    <3>3. Area!RemoveOwner(left[a], id).playerCount = left[a].playerCount
      BY <3>1 DEF Area!AreaRecord, Area!RemoveOwner
    <3> HIDE DEF as
    <3> QED BY <3>2, <3>3
  <2> HIDE DEF as
  <2>6. ASSUME areas' = as,
               client' = [client EXCEPT ![c] = [client[c] EXCEPT !.phase = "finished"]]
        PROVE  Follows(a)
    <3>1. \A e \in Clients : /\ client'[e].area = client[e].area
                             /\ client'[e].phase = IF e = c THEN "finished" ELSE client[e].phase
      BY <1>4, <2>6
    <3>2. CASE a # Here(c)
      <4>1. After(a) = Before(a) /\ ~LeavesEarly(a)
        BY <2>2, <3>1, <3>2 DEF After, Before, Lingers, Here, LeavesEarly
      <4> QED BY <2>4, <2>5, <2>6, <3>2, <4>1, CountRules
    <3>3. CASE a = Here(c) /\ client[c].phase = "session"
      <4>1. c \in Before(a) /\ After(a) = Before(a) \ {c} /\ ~LeavesEarly(a)
        BY <3>1, <3>3 DEF After, Before, Lingers, Here, LeavesEarly
      <4> QED BY <2>3, <2>4, <2>5, <2>6, <3>3, <4>1, CountRules
    <3>4. CASE a = Here(c) /\ client[c].phase = "handshake"
      <4>1. After(a) = Before(a) /\ LeavesEarly(a)
        BY <3>1, <3>4 DEF After, Before, Lingers, Here, LeavesEarly
      <4> QED BY <2>3, <2>4, <2>5, <2>6, <3>4, <4>1, CountRules
    <3> QED BY <2>2, <3>2, <3>3, <3>4
  <2> QED BY <1>1, <2>1, <2>6
<1> QED BY <1>3, <1>5, <1>6 DEF ConnectionEvent

LEMMA NextFollows == Registry /\ Listening /\ [Next]_vars => \A a \in Areas : Follows(a)
<1> SUFFICES ASSUME Registry, Listening, [Next]_vars, NEW a \in Areas PROVE Follows(a)
  OBVIOUS
<1>1. ASSUME NEW c \in Clients, AreaEvent(c) PROVE Follows(a)
  <2>1. ASSUME NEW d \in Clients, client[d].phase # "none", MovesTo(d, 0)
        PROVE  Follows(a)
    <3>1. client[d].phase # "handshake" /\ 0 \in Areas
      BY <2>1, ServerAssumption DEF MovesTo, Listening, Areas
    <3>2. client[d].phase \in Phases
      BY CurrentTypes DEF ClientMap, ClientRecord
    <3>3. client[d].phase \in {"session", "finished"}
      BY <2>1, <3>1, <3>2 DEF Phases
    <3> QED BY <2>1, <3>1, <3>3, MoveFollows
  <2> QED BY <1>1, <2>1, AreaMoves, QuietFollows, MoveFollows
<1>2. ASSUME NEW c \in Clients, CharacterEvent(c) PROVE Follows(a)
  BY <1>2, CharacterQuiet, QuietFollows
<1>3. CASE UNCHANGED vars
  BY <1>3, Still, QuietFollows DEF vars
<1> QED BY <1>1, <1>2, <1>3, ConnectionFollows DEF Next, Halted

\* Whatever the handlers, the player count of every area changes by the
\* clients that come and go there, and by nothing else but a client that
\* leaves before its Hello.
THEOREM CountsFollow == Spec => CountFollowsSessions
<1>1. Registry /\ Listening /\ [Next]_vars
        => [\A a \in Areas :
              areas'[a].playerCount - areas[a].playerCount
                = Cardinality(After(a)) - Cardinality(Before(a))
                    - (IF LeavesEarly(a) THEN 1 ELSE 0)]_vars
  BY NextFollows DEF Follows
<1> QED BY <1>1, AlwaysListening, AlwaysRegistry, PTL DEF Spec, CountFollowsSessions

-----------------------------------------------------------------------------
(* Crashes *)

\* What the process may die of, while it runs and afterwards.
Cause == ~OwnersAreClients \/ \E i \in areas[0].joined : ~Found(i)

\* What a step has to do.
DiesWithCause == process' = "crashed" => Crash /\ Cause

\* A client on the list is found.
LEMMA ListedIsFound ==
  ASSUME Registry, NEW c \in Clients, client[c].phase # "none"
  PROVE  Found(client[c].id)
<1>1. client[c].id \in Ids
  BY RegisteredIds
<1>2. clientMap[client[c].id] = c
  BY <1>1 DEF Registry, RegistryConsistent, MapMatchesList
<1> QED BY <1>1, <1>2, ServerAssumption DEF Found

\* A stray listener is one of area 0.
LEMMA StrayListener ==
  ASSUME Registry, Listening, NEW a \in Areas, DanglingListener(areas, a)
  PROVE  Cause
<1>1. PICK i \in areas[a].joined : ~Found(i)
  BY DEF DanglingListener
<1>2. a = 0
  <2> SUFFICES ASSUME a # 0 PROVE FALSE
    OBVIOUS
  <2>1. PICK c \in Sessions : client[c].id = i
    BY <1>1 DEF Listening, ListenersAreInSession, InSession
  <2> QED BY <1>1, <2>1, ListedIsFound DEF Sessions
<1> QED BY <1>1, <1>2 DEF Cause

\* A handler that finds every owner it adds dies of one that was there before.
LEMMA StrayOwner ==
  ASSUME NEW as, DanglingOwner(as), NEW t, Found(t),
         \A a \in Areas : as[a].owners \subseteq areas[a].owners \cup {t}
  PROVE  Cause
  BY DEF DanglingOwner, Cause, OwnersAreClients

\* One area with an owner more or with fewer owners.
LEMMA OwnersHere ==
  ASSUME Registry, NEW c \in Clients, Active(c), NEW t, NEW A,
         A.owners \subseteq areas[Here(c)].owners \cup {t}
  PROVE  \A a \in Areas :
           [areas EXCEPT ![Here(c)] = A][a].owners \subseteq areas[a].owners \cup {t}
<1>1. Here(c) \in Areas
  BY ActiveClient DEF Active
<1>2. \A a \in Areas : [areas EXCEPT ![Here(c)] = A][a] = IF a = Here(c) THEN A ELSE areas[a]
  BY <1>1, CurrentTypes DEF AreaMap
<1> QED BY <1>2

LEMMA OwnerCommandDies ==
  ASSUME Registry, Listening, NEW c \in Clients, NEW t \in Ids,
         \/ BecomeCM(c) \/ PromoteCM(c, t) \/ UnCM(c) \/ UnCMOther(c, t) \/ ClearCM(c)
  PROVE  DiesWithCause
<1> DEFINE here == areas[Here(c)]
           bare == [here EXCEPT
                      !.owners = {},
                      !.invited = here.invited \ here.owners,
                      !.locked = IF here.owners # {} THEN "FREE" ELSE here.locked]
           With(A) == [areas EXCEPT ![Here(c)] = A]
<1>1. /\ Active(c) /\ Here(c) \in Areas /\ here \in Area!AreaRecord(Ids)
      /\ Found(client[c].id) /\ process = "running"
  BY ActiveClient, ListedIsFound DEF Active, BecomeCM, PromoteCM, UnCM, UnCMOther, ClearCM
<1>2. ASSUME NEW i, Found(i), AddsOwner(c, i) PROVE DiesWithCause
  <2> DEFINE A == Area!AddOwner(here, i)
  <2>1. process' = "crashed"
          => Crash /\ (DanglingListener(areas, Here(c)) \/ DanglingOwner(With(A)))
    BY <1>1, <1>2, Zenon DEF AddsOwner, CommitAloud, Commit
  <2>2. A.owners \subseteq here.owners \cup {i}
    BY <1>1 DEF Area!AddOwner, Area!AreaRecord
  <2> HIDE DEF A
  <2>3. \A a \in Areas : With(A)[a].owners \subseteq areas[a].owners \cup {i}
    BY <1>1, <2>2, OwnersHere
  <2>4. DanglingOwner(With(A)) => Cause
    <3> DEFINE as == With(A)
    <3>1. \A a \in Areas : as[a].owners \subseteq areas[a].owners \cup {i}
      BY <2>3
    <3> HIDE DEF as
    <3>2. DanglingOwner(as) => Cause
      BY <1>2, <3>1, StrayOwner
    <3> QED BY <3>2 DEF as
  <2> QED BY <1>1, <2>1, <2>4, StrayListener DEF DiesWithCause
<1>3. ASSUME NEW A, A.owners \subseteq here.owners,
             process' = "crashed" => Crash /\ DanglingOwner(With(A))
      PROVE  DiesWithCause
  <2> DEFINE as == With(A)
             t0 == client[c].id
  <2>1. \A a \in Areas : as[a].owners \subseteq areas[a].owners \cup {t0}
    <3>1. A.owners \subseteq here.owners \cup {t0}
      BY <1>3
    <3> QED BY <1>1, <3>1, OwnersHere
  <2> HIDE DEF as
  <2>2. DanglingOwner(as) => Cause
    BY <1>1, <2>1, StrayOwner
  <2> QED BY <1>3, <2>2 DEF DiesWithCause, as
<1>4. CASE BecomeCM(c) \/ PromoteCM(c, t)
  <2>1. \E i : Found(i) /\ AddsOwner(c, i)
    BY <1>1, <1>4 DEF BecomeCM, PromoteCM
  <2> QED BY <1>2, <2>1
<1>5. CASE UnCM(c) \/ UnCMOther(c, t)
  <2>1. PICK i : RemovesOwner(c, i)
    BY <1>5 DEF UnCM, UnCMOther
  <2> DEFINE A == Area!RemoveOwner(here, i)
  <2>2. process' = "crashed" => Crash /\ DanglingOwner(With(A))
    BY <1>1, <2>1, Zenon DEF RemovesOwner, Commit
  <2>3. A.owners \subseteq here.owners
    BY <1>1 DEF Area!RemoveOwner, Area!AreaRecord
  <2> HIDE DEF A
  <2> QED BY <1>3, <2>2, <2>3
<1>6. CASE ClearCM(c)
  <2>1. process' = "crashed" => Crash /\ DanglingOwner(With(bare))
    BY <1>1, <1>6, Zenon DEF ClearCM, Commit
  <2>2. bare.owners \subseteq here.owners
    BY <1>1 DEF Area!AreaRecord
  <2> HIDE DEF bare
  <2> QED BY <1>3, <2>1, <2>2
<1> QED BY <1>4, <1>5, <1>6

LEMMA AreaEventDies ==
  ASSUME Registry, Listening, NEW c \in Clients, AreaEvent(c)
  PROVE  DiesWithCause
<1>1. ASSUME NEW t \in Ids,
             \/ BecomeCM(c) \/ PromoteCM(c, t) \/ UnCM(c) \/ UnCMOther(c, t) \/ ClearCM(c)
      PROVE  DiesWithCause
  BY <1>1, OwnerCommandDies
<1>2. ASSUME Active(c), process' = "crashed" => Crash /\ DanglingListener(areas, Here(c))
      PROVE  DiesWithCause
  BY <1>2, ActiveClient, StrayListener DEF DiesWithCause, Active
<1>3. ASSUME BroadcastToArea(c) \/ \E a \in AskedAreas : AreaMessage(c, a)
      PROVE  DiesWithCause
  <2>1. CASE BroadcastToArea(c)
    BY <1>2, <2>1 DEF BroadcastToArea
  <2>2. ASSUME NEW a \in AskedAreas, AreaMessage(c, a) PROVE DiesWithCause
    <3>1. CASE LosesArea
      BY <3>1 DEF LosesArea, DiesWithCause
    <3>2. CASE a \in Areas /\ DanglingListener(areas, a) /\ Crash
      BY <3>2, StrayListener DEF DiesWithCause
    <3> QED BY <2>2, <3>1, <3>2 DEF AreaMessage
  <2> QED BY <1>3, <2>1, <2>2
<1>4. CASE Lock(c) \/ Spectatable(c) \/ UnLock(c)
  <2>1. Active(c) /\ process = "running"
    BY <1>4 DEF Lock, Spectatable, UnLock, Active
  <2>2. process' = "crashed" => Crash /\ DanglingListener(areas, Here(c))
    BY <1>4, <2>1, Zenon DEF Lock, Spectatable, UnLock, SetsLock, CommitAloud, Commit
  <2> QED BY <1>2, <2>1, <2>2
<1>5. ASSUME \/ \E a \in Areas : JoinArea(c, a)
             \/ \E t \in Ids : InviteCommand(c, t) \/ UnInviteCommand(c, t) \/ AreaKick(c, t)
      PROVE  process' = "running"
  BY <1>5, Zenon DEF JoinArea, InviteCommand, UnInviteCommand, AreaKick, Commit, Active
<1>6. \E t : t \in Ids
  BY ServerAssumption DEF Ids
<1> QED BY <1>1, <1>3, <1>4, <1>5, <1>6 DEF AreaEvent, DiesWithCause

LEMMA ConnectionDies ==
  ASSUME Registry, NEW c \in Clients, ConnectionEvent(c)
  PROVE  DiesWithCause
<1>1. CASE ClientConnected(c) \/ RemoveClient(c)
  BY <1>1 DEF ClientConnected, RemoveClient, DiesWithCause
<1>2. CASE Hello(c)
  <2>1. process' = "crashed" => Crash /\ DanglingOwner(areas)
    BY <1>2, Zenon DEF Hello, Commit
  <2> QED BY <2>1 DEF DiesWithCause, DanglingOwner, Cause, OwnersAreClients
<1>3. CASE FinishSession(c)
  <2> DEFINE id == client[c].id
             A == Area!RemoveClient(areas[Here(c)], client[c].character, id)
             left == [areas EXCEPT ![Here(c)] = A]
             as == RemoveOwnerEverywhere(left, id)
  <2>1. process' = "crashed" => Crash /\ DanglingOwner(as)
    BY <1>3, Zenon DEF FinishSession, Commit
  <2>2. /\ Here(c) \in Areas /\ areas[Here(c)] \in Area!AreaRecord(Ids)
        /\ client[c].character \in Int /\ id \in Ids /\ Found(id)
    BY <1>3, ActiveClient, ClientFields, ListedIsFound DEF FinishSession
  <2> HIDE DEF id
  <2>3. A \in Area!AreaRecord(Ids)
    BY <2>2, MemberTypes
  <2>4. A.owners = areas[Here(c)].owners
    BY <2>2 DEF Area!AreaRecord, Area!RemoveClient
  <2> HIDE DEF A
  <2>5. left \in AreaMap /\ \A a \in Areas : left[a].owners = areas[a].owners
    BY <2>2, <2>3, <2>4, CurrentTypes DEF AreaMap
  <2> HIDE DEF left
  <2>6. \A a \in Areas : as[a].owners \subseteq areas[a].owners
    <3> SUFFICES ASSUME NEW a \in Areas PROVE as[a].owners \subseteq left[a].owners
      BY <2>5
    <3>1. Area!RemoveOwner(left[a], id).owners \subseteq left[a].owners
      BY <2>5 DEF AreaMap, Area!AreaRecord, Area!RemoveOwner
    <3> QED BY <3>1 DEF RemoveOwnerEverywhere
  <2> HIDE DEF as
  <2>7. DanglingOwner(as) => Cause
    BY <2>2, <2>6, StrayOwner
  <2> QED BY <2>1, <2>7 DEF DiesWithCause
<1> QED BY <1>1, <1>2, <1>3 DEF ConnectionEvent

LEMMA CharacterEventLives ==
  ASSUME NEW c \in Clients, CharacterEvent(c)
  PROVE  process' # "crashed"
  BY ZenonT(60) DEF CharacterEvent, SelectCharacter, Switch, RandomChar, RandomCharHangs,
     CharSelect, ForceCharSelect, CharCurse, CharCurseTo, CharCurseFails, UnCharCurse,
     MayCurse, Curses, ChangesCharacter, Commit, Active

\* Only /a can meet an area that is not there.
LEMMA OthersFindArea ==
  ASSUME NEW c \in Clients, process' = "astray",
         ConnectionEvent(c) \/ AreaEvent(c) \/ CharacterEvent(c)
  PROVE  \E a \in AskedAreas : AreaMessage(c, a)
<1>1. CASE ConnectionEvent(c)
  BY <1>1, ZenonT(60) DEF ConnectionEvent, ClientConnected, Hello, FinishSession,
     RemoveClient, Commit, Crash
<1>2. CASE CharacterEvent(c)
  BY <1>2, ZenonT(60) DEF CharacterEvent, SelectCharacter, Switch, RandomChar,
     RandomCharHangs, CharSelect, ForceCharSelect, CharCurse, CharCurseTo,
     CharCurseFails, UnCharCurse, MayCurse, Curses, ChangesCharacter, Commit, Active
<1>3. CASE AreaEvent(c) /\ ~\E a \in AskedAreas : AreaMessage(c, a)
  BY <1>3, ZenonT(60) DEF AreaEvent, JoinArea, BroadcastToArea, BecomeCM, UnCM, ClearCM,
     Lock, Spectatable, UnLock, PromoteCM, UnCMOther, InviteCommand,
     UnInviteCommand, AreaKick, AddsOwner, RemovesOwner, SetsLock, CommitAloud,
     Commit, Crash, Active
<1> QED BY <1>1, <1>2, <1>3

\* Of all the ids that the handlers of this model follow without looking, only
\* three kinds can lead nowhere: an owner, a listener of area 0 and the area
\* named with /a.  The process dies of nothing else.
THEOREM CrashesHaveCause == Spec => []CrashHasCause
<1>1. Init => CrashHasCause
  BY DEF Init, CrashHasCause
<1>2. Registry /\ Listening /\ CrashHasCause /\ [Next]_vars => CrashHasCause'
  <2> SUFFICES ASSUME Registry, Listening, CrashHasCause, [Next]_vars PROVE CrashHasCause'
    OBVIOUS
  <2>1. ASSUME DiesWithCause, process' = "astray" => AskedAreas \ Areas # {}
        PROVE  CrashHasCause'
    <3>1. Crash => UNCHANGED <<areas, clientMap>>
      BY DEF Crash
    <3> QED BY <2>1, <3>1 DEF DiesWithCause, Cause, CrashHasCause, OwnersAreClients, Found
  <2>2. CASE UNCHANGED vars
    BY <2>2 DEF vars, CrashHasCause, OwnersAreClients, Found
  <2>3. ASSUME NEW c \in Clients, ConnectionEvent(c) \/ AreaEvent(c) \/ CharacterEvent(c)
        PROVE  DiesWithCause /\ (process' = "astray" => AskedAreas \ Areas # {})
    <3>1. DiesWithCause
      BY <2>3, ConnectionDies, AreaEventDies, CharacterEventLives DEF DiesWithCause
    <3>2. ASSUME process' = "astray" PROVE AskedAreas \ Areas # {}
      <4>1. PICK a \in AskedAreas : AreaMessage(c, a)
        BY <2>3, <3>2, OthersFindArea
      <4>2. a \notin Areas
        BY <3>2, <4>1 DEF AreaMessage, Crash
      <4> QED BY <4>2
    <3> QED BY <3>1, <3>2
  <2> QED BY <2>1, <2>2, <2>3 DEF Next, Halted
<1> QED BY <1>1, <1>2, AlwaysListening, AlwaysRegistry, PTL DEF Spec

=============================================================================
