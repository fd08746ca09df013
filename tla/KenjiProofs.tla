---------------------------- MODULE KenjiProofs -----------------------------
(***************************************************************************)
(* What holds of Kenji for any number of clients, ids, areas and           *)
(* characters.                                                             *)
(***************************************************************************)
EXTENDS Kenji, SequenceTheorems, TLAPS

USE ServerAssumption DEF Ids, Areas, NoId

-----------------------------------------------------------------------------
(* The operators on an area *)

\* Each AreaData operation keeps an area an area.
LEMMA MemberTypes ==
  ASSUME NEW A \in Area!AreaRecord(Ids), NEW i \in Ids, NEW ch \in Int
  PROVE  /\ Area!RemoveClient(A, ch, i) \in Area!AreaRecord(Ids)
         /\ Area!AddClient(A, ch, i) \in Area!AreaRecord(Ids)
<1> USE DEF Area!AreaRecord, Area!LockStatus, Area!NoCharacter
<1>n. A.playerCount - 1 \in Int /\ A.playerCount + 1 \in Int
  OBVIOUS
<1>1. Area!RemoveClient(A, ch, i) \in Area!AreaRecord(Ids)
  BY <1>n, Zenon DEF Area!RemoveClient, Area!Freed
<1>2. Area!AddClient(A, ch, i) \in Area!AreaRecord(Ids)
  BY <1>n DEF Area!AddClient
<1> QED BY <1>1, <1>2

LEMMA OwnerTypes ==
  ASSUME NEW A \in Area!AreaRecord(Ids), NEW i \in Ids
  PROVE  /\ Area!AddOwner(A, i) \in Area!AreaRecord(Ids)
         /\ Area!RemoveOwner(A, i) \in Area!AreaRecord(Ids)
         /\ Area!Invite(A, i) \in Area!AreaRecord(Ids)
         /\ Area!Uninvite(A, i) \in Area!AreaRecord(Ids)
<1> USE DEF Area!AreaRecord, Area!LockStatus
<1>1. Area!AddOwner(A, i) \in Area!AreaRecord(Ids)
  BY DEF Area!AddOwner
<1>2. Area!RemoveOwner(A, i) \in Area!AreaRecord(Ids)
  BY DEF Area!RemoveOwner
<1>3. Area!Invite(A, i) \in Area!AreaRecord(Ids)
  BY DEF Area!Invite
<1>4. Area!Uninvite(A, i) \in Area!AreaRecord(Ids)
  BY DEF Area!Uninvite
<1> QED BY <1>1, <1>2, <1>3, <1>4

LEMMA LockTypes ==
  ASSUME NEW A \in Area!AreaRecord(Ids), NEW status \in Area!LockStatus,
         NEW guests \in SUBSET Ids
  PROVE  /\ Area!SetLock(A, status) \in Area!AreaRecord(Ids)
         /\ [A EXCEPT !.invited = @ \cup guests] \in Area!AreaRecord(Ids)
  BY DEF Area!AreaRecord, Area!LockStatus, Area!SetLock

LEMMA CharacterTypes ==
  ASSUME NEW A \in Area!AreaRecord(Ids), NEW from \in Int, NEW to \in Int
  PROVE  Area!ChangeCharacter(A, from, to) \in Area!AreaRecord(Ids)
  BY DEF Area!AreaRecord, Area!LockStatus, Area!NoCharacter,
         Area!ChangeCharacter, Area!Freed

-----------------------------------------------------------------------------
(* Types *)

AreaMap == [Areas -> Area!AreaRecord(Ids)]
ClientMap == [Clients -> ClientRecord]

\* What an area update tells keeps its shape.
LEMMA NewsTypes ==
  ASSUME NEW n \in NewsRecord, NEW as \in AreaMap
  PROVE  /\ TellCounts(n, as) \in NewsRecord
         /\ TellOwners(n, as) \in NewsRecord
         /\ TellLocks(n, as) \in NewsRecord
  BY DEF NewsRecord, AreaMap, Area!AreaRecord, TellCounts, TellOwners, TellLocks

\* Changing one area, or one client, of a typed map.
LEMMA UpdateTypes ==
  ASSUME NEW as \in AreaMap, NEW a \in Areas, NEW A \in Area!AreaRecord(Ids),
         NEW cs \in ClientMap, NEW c \in Clients, NEW me \in ClientRecord
  PROVE  /\ [as EXCEPT ![a] = A] \in AreaMap
         /\ [cs EXCEPT ![c] = me] \in ClientMap
         /\ as[a] \in Area!AreaRecord(Ids)
         /\ cs[c] \in ClientRecord
  BY Zenon DEF AreaMap, ClientMap

\* A handler leaves as, cs and n, or dies.
Ends(as, cs, n) ==
  \/ Crash
  \/ /\ areas' = as
     /\ client' = cs
     /\ news' = n
     /\ UNCHANGED <<idStack, clientMap, process>>

\* A handler that ends with typed values keeps the types.
LEMMA CommitTypes ==
  ASSUME TypeOK, NEW as \in AreaMap, NEW cs \in ClientMap,
         NEW n \in NewsRecord, Ends(as, cs, n)
  PROVE  TypeOK'
  BY DEF TypeOK, Ends, Crash, AreaMap, ClientMap

\* The fields of a client have their types.
LEMMA ClientFields ==
  ASSUME NEW me \in ClientRecord
  PROVE  /\ me.phase \in Phases
         /\ me.id \in Ids \cup {NoId}
         /\ me.area \in Areas
         /\ me.charId \in Int
         /\ me.character \in Int
         /\ me.character \in Characters \cup {Area!NoCharacter}
         /\ me.cursed \in BOOLEAN
         /\ me.curseList \in SUBSET Int
  BY DEF ClientRecord, Characters, Area!NoCharacter

-----------------------------------------------------------------------------
(* The registry: what holds of types and ids together *)

Registry == TypeOK /\ RegistryConsistent

\* Popping the stack of free ids.
LEMMA Pop ==
  ASSUME NEW s \in Seq(Ids), s # << >>
  PROVE  /\ Len(s) \in Nat \ {0}
         /\ s[Len(s)] \in Ids
         /\ SubSeq(s, 1, Len(s) - 1) \in Seq(Ids)
         /\ Len(SubSeq(s, 1, Len(s) - 1)) = Len(s) - 1
         /\ \A k \in 1..(Len(s) - 1) : SubSeq(s, 1, Len(s) - 1)[k] = s[k]
<1>1. Len(s) \in Nat \ {0}
  BY EmptySeq
<1>2. \A k \in 1..Len(s) : s[k] \in Ids
  BY ElementOfSeq
<1> DEFINE n == Len(s) - 1
<1>3. n \in Nat /\ n \in Int /\ 1 \in Int /\ \A k \in 1..n : s[k] \in Ids
  BY <1>1, <1>2
<1>4. /\ SubSeq(s, 1, n) \in Seq(Ids)
      /\ Len(SubSeq(s, 1, n)) = IF 1 <= n THEN n - 1 + 1 ELSE 0
      /\ \A k \in 1..(n - 1 + 1) : SubSeq(s, 1, n)[k] = s[1 + k - 1]
  <2> HIDE DEF n
  <2> QED BY ONLY <1>3, SubSeqProperties
<1>5. Len(SubSeq(s, 1, n)) = n /\ \A k \in 1..n : SubSeq(s, 1, n)[k] = s[k]
  <2> HIDE DEF n
  <2> QED BY <1>3, <1>4
<1> QED BY <1>1, <1>2, <1>4, <1>5

\* Pushing an id back.
LEMMA Push ==
  ASSUME NEW s \in Seq(Ids), NEW i \in Ids
  PROVE  /\ Append(s, i) \in Seq(Ids)
         /\ Len(Append(s, i)) = Len(s) + 1
         /\ \A k \in 1..Len(s) : Append(s, i)[k] = s[k]
         /\ Append(s, i)[Len(s) + 1] = i
  BY AppendProperties

LEMMA RegisteredIds ==
  ASSUME Registry, NEW c \in Clients, client[c].phase # "none"
  PROVE  client[c].id \in Ids
  BY DEF Registry, RegistryConsistent, Registered

\* A client found through the map is on the list under that id.
LEMMA FoundClient ==
  ASSUME Registry, NEW t \in Ids, Found(t)
  PROVE  /\ clientMap[t] \in Clients
         /\ client[clientMap[t]].phase # "none"
         /\ client[clientMap[t]].id = t
  BY DEF Registry, RegistryConsistent, MapMatchesList, TypeOK, Found

LEMMA NewClientType ==
  ASSUME NEW ph \in Phases, NEW i \in Ids \cup {NoId}
  PROVE  NewClient(ph, i) \in ClientRecord
  BY DEF NewClient, ClientRecord, Area!NoCharacter

\* Everybody starts out unregistered and every id on the stack.
LEMMA InitRegistry == Init => Registry
<1> SUFFICES ASSUME Init PROVE Registry
  OBVIOUS
<1>1. idStack \in Seq(Ids)
  <2>1. \A k \in 1..MaxPlayers : MaxPlayers - k \in Ids
    OBVIOUS
  <2> QED BY <2>1, SeqDef DEF Init
<1>2. client \in [Clients -> ClientRecord]
  BY NewClientType DEF Init, Phases
<1>3. areas \in [Areas -> Area!AreaRecord(Ids)]
  BY DEF Init, Area!NewArea, Area!AreaRecord, Area!LockStatus
<1>4. news \in NewsRecord
  BY DEF Init, NewsRecord, Area!LockStatus
<1>5. TypeOK
  BY <1>1, <1>2, <1>3, <1>4 DEF TypeOK, Init
<1>6. DOMAIN idStack = 1..MaxPlayers
  BY DEF Init
<1>7. StackHasNoDuplicates
  BY <1>6 DEF Init, StackHasNoDuplicates
<1>8. StackHoldsTheFree
  <2>1. ASSUME NEW i \in Ids PROVE i \in Range(idStack)
    <3>1. MaxPlayers - i \in 1..MaxPlayers /\ MaxPlayers - (MaxPlayers - i) = i
      OBVIOUS
    <3>2. idStack[MaxPlayers - i] = i
      BY <3>1 DEF Init
    <3> QED BY <3>1, <3>2, <1>6 DEF Range
  <2> QED BY <2>1 DEF StackHoldsTheFree, Init
<1>9. MapMatchesList /\ Registered = {}
  BY DEF Init, MapMatchesList, Registered, NewClient
<1> QED BY <1>5, <1>7, <1>8, <1>9 DEF Registry, RegistryConsistent

-----------------------------------------------------------------------------
(* Steps that leave the registry alone *)

\* The clients cs are listed under the same ids as now.
SameIds(cs) ==
  \A e \in Clients : /\ cs[e].phase = "none" <=> client[e].phase = "none"
                     /\ cs[e].id = client[e].id

\* A handler that ends with typed values and the same list keeps the registry.
LEMMA CommitRegistry ==
  ASSUME Registry, NEW as \in AreaMap, NEW cs \in ClientMap, SameIds(cs),
         NEW n \in NewsRecord, Ends(as, cs, n)
  PROVE  Registry'
<1>1. TypeOK'
  BY CommitTypes DEF Registry
<1>2. UNCHANGED <<idStack, clientMap>> /\ (client' = cs \/ client' = client)
  BY DEF Ends, Crash
<1>3. \A e \in Clients : /\ client'[e].phase = "none" <=> client[e].phase = "none"
                         /\ client'[e].id = client[e].id
  BY <1>2 DEF SameIds
<1>4. RegistryConsistent'
  <2>1. StackHasNoDuplicates' /\ StackHoldsTheFree'
    BY <1>2 DEF Registry, RegistryConsistent, StackHasNoDuplicates,
                StackHoldsTheFree, Range
  <2>2. MapMatchesList'
    BY <1>2, <1>3 DEF Registry, RegistryConsistent, MapMatchesList
  <2>3. \A c \in Registered' : client'[c].id \in Ids
    BY <1>3 DEF Registry, RegistryConsistent, Registered
  <2> QED BY <2>1, <2>2, <2>3 DEF RegistryConsistent
<1> QED BY <1>1, <1>4 DEF Registry

\* The current values are typed.
LEMMA CurrentTypes ==
  ASSUME Registry
  PROVE  /\ areas \in AreaMap /\ client \in ClientMap /\ news \in NewsRecord
         /\ SameIds(client)
  BY DEF Registry, TypeOK, AreaMap, ClientMap, SameIds

\* Rewriting one client that keeps its phase and id.
LEMMA OneClient ==
  ASSUME Registry, NEW d \in Clients, NEW me \in ClientRecord,
         me.phase = "none" <=> client[d].phase = "none", me.id = client[d].id
  PROVE  /\ [client EXCEPT ![d] = me] \in ClientMap
         /\ SameIds([client EXCEPT ![d] = me])
  BY CurrentTypes DEF ClientMap, SameIds

\* The two areas that a move rewrites.
LEMMA TwoAreas ==
  ASSUME NEW as \in AreaMap, NEW from \in Areas, NEW to \in Areas,
         NEW A \in Area!AreaRecord(Ids), NEW ch \in Int, NEW i \in Ids
  PROVE  [[as EXCEPT ![from] = A] EXCEPT ![to] = Area!AddClient(@, ch, i)] \in AreaMap
<1> DEFINE left == [as EXCEPT ![from] = A]
<1>1. left \in AreaMap
  BY Zenon DEF AreaMap
<1> HIDE DEF left
<1>2. left[to] \in Area!AreaRecord(Ids)
  BY <1>1, Zenon DEF AreaMap
<1>3. Area!AddClient(left[to], ch, i) \in Area!AreaRecord(Ids)
  BY <1>2, MemberTypes
<1>4. [left EXCEPT ![to] = Area!AddClient(left[to], ch, i)] \in AreaMap
  BY <1>1, <1>3, Zenon DEF AreaMap
<1> QED BY <1>4 DEF left

\* What a move between areas makes of areas and clients is typed.
LEMMA MoveTypes ==
  ASSUME Registry, NEW c \in Clients, NEW a \in Areas, client[c].phase # "none"
  PROVE  /\ AreasAfterMove(c, a) \in AreaMap
         /\ ClientsAfterMove(c, a) \in ClientMap
         /\ SameIds(ClientsAfterMove(c, a))
<1>1. /\ client[c] \in ClientRecord
      /\ client[c].id \in Ids
      /\ areas \in AreaMap
      /\ Area!NoCharacter \in Int
  BY CurrentTypes, RegisteredIds DEF ClientMap, Area!NoCharacter
<1>2. /\ client[c].area \in Areas
      /\ client[c].charId \in Int
      /\ client[c].character \in Int
      /\ client[c].character \in Characters \cup {Area!NoCharacter}
  BY <1>1, ClientFields
<1>3. CharIdAfterMove(c, a) \in Int
  BY <1>1, <1>2 DEF CharIdAfterMove
<1>4. areas[client[c].area] \in Area!AreaRecord(Ids)
  BY <1>1, <1>2 DEF AreaMap
<1>5. AreaLeftBy(client[c]) \in Area!AreaRecord(Ids)
  <2> DEFINE B == Area!ChangeCharacter(areas[client[c].area],
                                       client[c].character, Area!NoCharacter)
             gave == IF client[c].character = Area!NoCharacter
                     THEN areas[client[c].area] ELSE B
  <2>1. B \in Area!AreaRecord(Ids)
    BY <1>1, <1>2, <1>4, CharacterTypes
  <2>2. gave \in Area!AreaRecord(Ids)
    BY <1>4, <2>1, Zenon
  <2>3. Area!RemoveClient(gave, client[c].charId, client[c].id)
          \in Area!AreaRecord(Ids)
    <3> HIDE DEF gave
    <3> QED BY <1>1, <1>2, <2>2, MemberTypes
  <2> QED BY <2>3, Zenon DEF AreaLeftBy
<1>6. AreasAfterMove(c, a) \in AreaMap
  BY <1>1, <1>2, <1>3, <1>5, TwoAreas, Zenon DEF AreasAfterMove
<1> DEFINE char == IF LosesCharacter(c, a) THEN Area!NoCharacter
                   ELSE client[c].character
           moved == [client[c] EXCEPT !.area = a,
                                      !.charId = CharIdAfterMove(c, a),
                                      !.character = char]
<1>7. char \in Characters \cup {Area!NoCharacter}
  BY <1>2
<1>8. /\ moved \in ClientRecord
      /\ moved.phase = client[c].phase
      /\ moved.id = client[c].id
  <2> HIDE DEF char
  <2> QED BY <1>1, <1>3, <1>7 DEF ClientRecord
<1>9. ClientsAfterMove(c, a) = [client EXCEPT ![c] = moved]
  BY CurrentTypes DEF ClientsAfterMove, ClientMap
<1> HIDE DEF moved
<1> QED BY <1>6, <1>8, <1>9, OneClient

-----------------------------------------------------------------------------
(* Each event keeps the registry *)

\* A client in session, its area and its id.
LEMMA ActiveClient ==
  ASSUME Registry, NEW c \in Clients, client[c].phase # "none"
  PROVE  /\ client[c] \in ClientRecord
         /\ client[c].id \in Ids
         /\ Here(c) \in Areas
         /\ areas[Here(c)] \in Area!AreaRecord(Ids)
<1>1. client[c] \in ClientRecord
  BY CurrentTypes DEF ClientMap
<1>2. client[c].id \in Ids
  BY RegisteredIds
<1>3. Here(c) \in Areas
  BY <1>1, ClientFields DEF Here
<1>4. areas[Here(c)] \in Area!AreaRecord(Ids)
  BY <1>3, CurrentTypes DEF AreaMap
<1> QED BY <1>1, <1>2, <1>3, <1>4

\* A handler that rewrites one area and no client.
LEMMA OneArea ==
  ASSUME Registry, NEW a \in Areas, NEW A \in Area!AreaRecord(Ids),
         NEW n \in NewsRecord, Ends([areas EXCEPT ![a] = A], client, n)
  PROVE  Registry'
<1>1. [areas EXCEPT ![a] = A] \in AreaMap
  BY CurrentTypes, Zenon DEF AreaMap
<1> QED BY <1>1, CurrentTypes, CommitRegistry

\* What is told about an area map with one area rewritten.
LEMMA TellsOne ==
  ASSUME Registry, NEW a \in Areas, NEW A \in Area!AreaRecord(Ids)
  PROVE  /\ TellCounts(news, [areas EXCEPT ![a] = A]) \in NewsRecord
         /\ TellOwners(news, [areas EXCEPT ![a] = A]) \in NewsRecord
         /\ TellLocks(news, [areas EXCEPT ![a] = A]) \in NewsRecord
         /\ TellOwners(TellLocks(news, [areas EXCEPT ![a] = A]),
                       [areas EXCEPT ![a] = A]) \in NewsRecord
<1>1. [areas EXCEPT ![a] = A] \in AreaMap
  BY CurrentTypes, Zenon DEF AreaMap
<1>2. news \in NewsRecord
  BY CurrentTypes
<1> HIDE DEF AreaMap
<1> QED BY <1>1, <1>2, NewsTypes

LEMMA AddsOwnerRegistry ==
  ASSUME Registry, NEW c \in Clients, Active(c), NEW t \in Ids, AddsOwner(c, t)
  PROVE  Registry'
<1> DEFINE A == Area!AddOwner(areas[Here(c)], t)
<1>1. Here(c) \in Areas /\ areas[Here(c)] \in Area!AreaRecord(Ids)
  BY ActiveClient DEF Active
<1>2. A \in Area!AreaRecord(Ids)
  BY <1>1, OwnerTypes
<1>3. Ends([areas EXCEPT ![Here(c)] = A], client,
           TellOwners(news, [areas EXCEPT ![Here(c)] = A]))
  BY Zenon DEF AddsOwner, CommitAloud, Commit, Ends
<1> HIDE DEF A
<1> QED BY <1>1, <1>2, <1>3, OneArea, TellsOne

LEMMA RemovesOwnerRegistry ==
  ASSUME Registry, NEW c \in Clients, Active(c), NEW t \in Ids, RemovesOwner(c, t)
  PROVE  Registry'
<1> DEFINE A == Area!RemoveOwner(areas[Here(c)], t)
           as == [areas EXCEPT ![Here(c)] = A]
<1>1. Here(c) \in Areas /\ areas[Here(c)] \in Area!AreaRecord(Ids)
  BY ActiveClient DEF Active
<1>2. A \in Area!AreaRecord(Ids)
  BY <1>1, OwnerTypes
<1>3. \/ Ends(as, client, TellOwners(TellLocks(news, as), as))
      \/ Ends(as, client, TellOwners(news, as))
  BY Zenon DEF RemovesOwner, Commit, Ends
<1> HIDE DEF A
<1> QED BY <1>1, <1>2, <1>3, OneArea, TellsOne

\* /clearcm
LEMMA ClearCMRegistry ==
  ASSUME Registry, NEW c \in Clients, ClearCM(c)
  PROVE  Registry'
<1> DEFINE here == areas[Here(c)]
           A == [here EXCEPT
                   !.owners = {},
                   !.invited = @ \ here.owners,
                   !.locked = IF here.owners # {} THEN "FREE" ELSE @]
           as == [areas EXCEPT ![Here(c)] = A]
<1>1. Here(c) \in Areas /\ here \in Area!AreaRecord(Ids)
  BY ActiveClient DEF ClearCM, Active
<1>2. A \in Area!AreaRecord(Ids)
  <2> HIDE DEF here
  <2> QED BY <1>1 DEF Area!AreaRecord, Area!LockStatus
<1>3. Ends(as, client, TellOwners(news, as))
  BY Zenon DEF ClearCM, Commit, Ends
<1> HIDE DEF A
<1> QED BY <1>1, <1>2, <1>3, OneArea, TellsOne

\* /invite and /uninvite
LEMMA InvitesRegistry ==
  ASSUME Registry, NEW c \in Clients, NEW t \in Ids,
         InviteCommand(c, t) \/ UnInviteCommand(c, t)
  PROVE  Registry'
<1>1. Here(c) \in Areas /\ areas[Here(c)] \in Area!AreaRecord(Ids)
  BY ActiveClient DEF InviteCommand, UnInviteCommand, Active
<1>2. /\ Area!Invite(areas[Here(c)], t) \in Area!AreaRecord(Ids)
      /\ Area!Uninvite(areas[Here(c)], t) \in Area!AreaRecord(Ids)
      /\ news \in NewsRecord
  BY <1>1, OwnerTypes, CurrentTypes
<1>3. \/ Ends([areas EXCEPT ![Here(c)] = Area!Invite(areas[Here(c)], t)],
              client, news)
      \/ Ends([areas EXCEPT ![Here(c)] = Area!Uninvite(areas[Here(c)], t)],
              client, news)
  BY Zenon DEF InviteCommand, UnInviteCommand, Commit, Ends
<1> QED BY <1>1, <1>2, <1>3, OneArea

\* The clients that a lock invites have ids.
LEMMA ListedIds ==
  ASSUME Registry, NEW a
  PROVE  IdsListedIn(a) \in SUBSET Ids
  BY RegisteredIds DEF IdsListedIn, Registered

\* /area_lock, /area_spectate and /area_unlock
LEMMA LocksRegistry ==
  ASSUME Registry, NEW c \in Clients, Lock(c) \/ Spectatable(c) \/ UnLock(c)
  PROVE  Registry'
<1> DEFINE here == areas[Here(c)]
           open == [here EXCEPT !.invited = @ \cup IdsListedIn(Here(c))]
           Set(A) == [areas EXCEPT ![Here(c)] = A]
<1>1. Here(c) \in Areas /\ here \in Area!AreaRecord(Ids)
  BY ActiveClient DEF Lock, Spectatable, UnLock, Active
<1>2. open \in Area!AreaRecord(Ids)
  <2> HIDE DEF here
  <2> QED BY <1>1, ListedIds DEF Area!AreaRecord
<1>3. "FREE" \in Area!LockStatus /\ "LOCKED" \in Area!LockStatus
      /\ "SPECTATABLE" \in Area!LockStatus
  BY DEF Area!LockStatus
<1>4. /\ Area!SetLock(open, "LOCKED") \in Area!AreaRecord(Ids)
      /\ Area!SetLock(open, "SPECTATABLE") \in Area!AreaRecord(Ids)
      /\ Area!SetLock(here, "FREE") \in Area!AreaRecord(Ids)
  <2> HIDE DEF here, open
  <2> QED BY <1>1, <1>2, <1>3 DEF Area!AreaRecord, Area!SetLock
<1>5. \E A \in {Area!SetLock(open, "LOCKED"), Area!SetLock(open, "SPECTATABLE"),
                Area!SetLock(here, "FREE")} :
        Ends(Set(A), client, TellLocks(news, Set(A)))
  BY Zenon DEF Lock, Spectatable, UnLock, SetsLock, CommitAloud, Commit, Ends
<1> HIDE DEF here, open
<1> QED BY <1>1, <1>4, <1>5, OneArea, TellsOne

\* JoinAreaPacket and /area
LEMMA JoinAreaRegistry ==
  ASSUME Registry, NEW c \in Clients, NEW a \in Areas, JoinArea(c, a)
  PROVE  Registry'
<1> DEFINE as == AreasAfterMove(c, a)
<1>1. as \in AreaMap /\ ClientsAfterMove(c, a) \in ClientMap
      /\ SameIds(ClientsAfterMove(c, a))
  BY MoveTypes DEF JoinArea, Active
<1>2. Ends(as, ClientsAfterMove(c, a), TellCounts(news, as))
  BY Zenon DEF JoinArea, Commit, Ends
<1> HIDE DEF as
<1>3. TellCounts(news, as) \in NewsRecord
  BY <1>1, NewsTypes, CurrentTypes
<1> QED BY <1>1, <1>2, <1>3, CommitRegistry

\* /area_kick
LEMMA AreaKickRegistry ==
  ASSUME Registry, NEW c \in Clients, NEW t \in Ids, AreaKick(c, t)
  PROVE  Registry'
<1> DEFINE d == clientMap[t]
           goes == Moves(d, 0)
           moved == IF goes THEN AreasAfterMove(d, 0) ELSE areas
           as == [moved EXCEPT ![Here(c)] = Area!Uninvite(moved[Here(c)], t)]
           cs == IF goes THEN ClientsAfterMove(d, 0) ELSE client
           n == IF goes THEN TellCounts(news, moved) ELSE news
<1>1. Here(c) \in Areas /\ 0 \in Areas
  BY ActiveClient DEF AreaKick, Active
<1>2. d \in Clients /\ client[d].phase # "none"
  BY FoundClient DEF AreaKick
<1>3. Ends(as, cs, n)
  BY Zenon DEF AreaKick, Commit, Ends
<1>4. /\ AreasAfterMove(d, 0) \in AreaMap
      /\ ClientsAfterMove(d, 0) \in ClientMap
      /\ SameIds(ClientsAfterMove(d, 0))
  BY <1>1, <1>2, MoveTypes
<1>5. moved \in AreaMap /\ cs \in ClientMap /\ SameIds(cs)
  <2> HIDE DEF d
  <2> QED BY <1>4, CurrentTypes
<1> HIDE DEF moved
<1>6. n \in NewsRecord
  BY <1>5, NewsTypes, CurrentTypes
<1>7. Area!Uninvite(moved[Here(c)], t) \in Area!AreaRecord(Ids)
  BY <1>1, <1>5, OwnerTypes DEF AreaMap
<1>8. as \in AreaMap
  BY <1>1, <1>5, <1>7, Zenon DEF AreaMap
<1> HIDE DEF as, cs, n
<1> QED BY <1>3, <1>5, <1>6, <1>8, CommitRegistry

\* A handler that rewrites one client, which keeps its id, and no area.
LEMMA OneClientEnds ==
  ASSUME Registry, NEW d \in Clients, client[d].phase # "none",
         NEW me \in ClientRecord, me.phase # "none", me.id = client[d].id,
         NEW as \in AreaMap, Ends(as, [client EXCEPT ![d] = me], news)
  PROVE  Registry'
<1>1. /\ [client EXCEPT ![d] = me] \in ClientMap
      /\ SameIds([client EXCEPT ![d] = me])
  BY OneClient
<1> QED BY <1>1, CurrentTypes, CommitRegistry

\* What changeCharacter makes of a client and of its area.
LEMMA ChangeTypes ==
  ASSUME Registry, NEW me \in ClientRecord, NEW id \in Int
  PROVE  /\ AfterChange(me, id) \in ClientRecord
         /\ AfterChange(me, id).phase = me.phase
         /\ AfterChange(me, id).id = me.id
         /\ AreaAfterChange(me, id) \in Area!AreaRecord(Ids)
<1>1. me.area \in Areas /\ me.character \in Int
      /\ me.character \in Characters \cup {Area!NoCharacter}
  BY ClientFields
<1>2. areas[me.area] \in Area!AreaRecord(Ids)
  BY <1>1, CurrentTypes DEF AreaMap
<1>3. AreaAfterChange(me, id) \in Area!AreaRecord(Ids)
  BY <1>1, <1>2, CharacterTypes, Zenon DEF AreaAfterChange
<1> DEFINE char == IF Area!CharacterAdded(areas[me.area], id) THEN NameOf(id)
                   ELSE IF id < 0 THEN Area!NoCharacter ELSE me.character
           new == [me EXCEPT !.charId = id, !.character = char]
<1>4. char \in Characters \cup {Area!NoCharacter}
  BY <1>1 DEF NameOf
<1>5. new \in ClientRecord /\ new.phase = me.phase /\ new.id = me.id
  <2> HIDE DEF char
  <2> QED BY <1>4 DEF ClientRecord
<1>6. AfterChange(me, id) = me \/ AfterChange(me, id) = new
  BY Zenon DEF AfterChange
<1> HIDE DEF new
<1> QED BY <1>3, <1>5, <1>6

\* A handler that calls changeCharacter.
LEMMA ChangesCharacterRegistry ==
  ASSUME Registry, NEW d \in Clients, client[d].phase # "none", NEW id \in Int,
         NEW me \in ClientRecord, me.phase # "none", me.id = client[d].id,
         ChangesCharacter(d, me, id)
  PROVE  Registry'
<1>1. me.area \in Areas
  BY ClientFields
<1> DEFINE as == [areas EXCEPT ![me.area] = AreaAfterChange(me, id)]
           new == AfterChange(me, id)
<1>2. /\ new \in ClientRecord /\ new.phase # "none" /\ new.id = client[d].id
      /\ AreaAfterChange(me, id) \in Area!AreaRecord(Ids)
  BY ChangeTypes
<1>3. as \in AreaMap
  BY <1>1, <1>2, CurrentTypes, Zenon DEF AreaMap
<1>4. Ends(as, [client EXCEPT ![d] = new], news)
  BY Zenon DEF ChangesCharacter, Commit, Ends
<1> HIDE DEF as, new
<1> QED BY <1>2, <1>3, <1>4, OneClientEnds

\* The end of cmdCharCurse.
LEMMA CursesRegistry ==
  ASSUME Registry, NEW d \in Clients, client[d].phase # "none",
         NEW list \in SUBSET Int, Curses(d, list)
  PROVE  Registry'
<1> DEFINE me == CursedTo(d, list)
<1>1. me \in ClientRecord /\ me.phase # "none" /\ me.id = client[d].id
  BY ActiveClient DEF CursedTo, ClientRecord
<1>2. \/ Ends(areas, [client EXCEPT ![d] = me], news)
      \/ ChangesCharacter(d, me, Area!NoCharacter)
  BY Zenon DEF Curses, Commit, Ends
<1>3. Area!NoCharacter \in Int
  BY DEF Area!NoCharacter
<1> HIDE DEF me
<1>4. CASE Ends(areas, [client EXCEPT ![d] = me], news)
  BY <1>1, <1>4, CurrentTypes, OneClientEnds
<1>5. CASE ChangesCharacter(d, me, Area!NoCharacter)
  BY <1>1, <1>3, <1>5, ChangesCharacterRegistry
<1> QED BY <1>2, <1>4, <1>5

\* Every command about characters.
LEMMA CharacterRegistry ==
  ASSUME Registry, NEW c \in Clients, CharacterEvent(c)
  PROVE  Registry'
<1>1. /\ Characters \in SUBSET Int
      /\ SelectableIds \in SUBSET Int
      /\ Area!NoCharacter \in Int
  BY DEF Characters, Area!NoCharacter
<1>2. ASSUME NEW id \in Int, client[c].phase # "none",
             ChangesCharacter(c, client[c], id)
      PROVE  Registry'
  BY <1>2, ActiveClient, ChangesCharacterRegistry
<1>3. ASSUME NEW id \in SelectableIds, SelectCharacter(c, id) PROVE Registry'
  BY <1>1, <1>2, <1>3 DEF SelectCharacter, Active
<1>4. ASSUME NEW id \in Characters, Switch(c, id) PROVE Registry'
  BY <1>1, <1>2, <1>4 DEF Switch, Active
<1>5. CASE RandomChar(c)
  <2>1. PICK id \in Characters : ChangesCharacter(c, client[c], id)
    BY <1>5 DEF RandomChar
  <2> QED BY <1>1, <1>2, <1>5, <2>1 DEF RandomChar, Active
<1>6. CASE RandomCharHangs(c)
  BY <1>6 DEF RandomCharHangs, Registry, TypeOK, RegistryConsistent, Range,
              StackHasNoDuplicates, MapMatchesList, StackHoldsTheFree, Registered
<1>7. CASE CharSelect(c)
  BY <1>1, <1>2, <1>7 DEF CharSelect, Active
<1>8. ASSUME NEW t \in Ids, ForceCharSelect(c, t) PROVE Registry'
  <2>1. clientMap[t] \in Clients /\ client[clientMap[t]].phase # "none"
    BY <1>8, FoundClient DEF ForceCharSelect
  <2>2. client[clientMap[t]] \in ClientRecord
    BY <2>1, ActiveClient
  <2>3. ChangesCharacter(clientMap[t], client[clientMap[t]], Area!NoCharacter)
    BY <1>8 DEF ForceCharSelect
  <2> QED BY <1>1, <2>1, <2>2, <2>3, ChangesCharacterRegistry
<1>9. ASSUME NEW t \in Ids, CharCurse(c, t) PROVE Registry'
  <2> DEFINE d == clientMap[t]
             list == client[d].curseList \cup {client[d].character}
  <2>1. d \in Clients /\ client[d].phase # "none"
    BY <1>9, FoundClient DEF CharCurse, MayCurse
  <2>2. list \in SUBSET Int
    BY <2>1, ActiveClient, ClientFields
  <2>3. Curses(d, list)
    BY <1>9 DEF CharCurse
  <2> HIDE DEF d, list
  <2> QED BY <2>1, <2>2, <2>3, CursesRegistry
<1>10. ASSUME NEW t \in Ids, NEW list \in SUBSET Characters, CharCurseTo(c, t, list)
       PROVE  Registry'
  <2>1. clientMap[t] \in Clients /\ client[clientMap[t]].phase # "none"
    BY <1>10, FoundClient DEF CharCurseTo, MayCurse
  <2>2. Curses(clientMap[t], list) /\ list \in SUBSET Int
    BY <1>1, <1>10 DEF CharCurseTo
  <2> QED BY <2>1, <2>2, CursesRegistry
<1>11. ASSUME NEW t \in Ids, NEW list \in SUBSET Characters,
              CharCurseFails(c, t, list)
       PROVE  Registry'
  <2> DEFINE d == clientMap[t]
             me == [client[d] EXCEPT !.curseList = list]
  <2>1. d \in Clients /\ client[d].phase # "none"
    BY <1>11, FoundClient DEF CharCurseFails, MayCurse
  <2>2. me \in ClientRecord /\ me.phase # "none" /\ me.id = client[d].id
    <3>1. client[d] \in ClientRecord /\ list \in SUBSET Int
      BY <1>1, <2>1, ActiveClient
    <3> HIDE DEF d
    <3> QED BY <2>1, <3>1 DEF ClientRecord
  <2>3. Ends(areas, [client EXCEPT ![d] = me], news)
    BY <1>11, Zenon DEF CharCurseFails, Commit, Ends
  <2> HIDE DEF d, me
  <2> QED BY <2>1, <2>2, <2>3, CurrentTypes, OneClientEnds
<1>12. ASSUME NEW t \in Ids, UnCharCurse(c, t) PROVE Registry'
  <2> DEFINE d == clientMap[t]
             me == [client[d] EXCEPT !.cursed = FALSE, !.curseList = {}]
  <2>1. d \in Clients /\ client[d].phase # "none"
    BY <1>12, FoundClient DEF UnCharCurse
  <2>2. me \in ClientRecord /\ me.phase # "none" /\ me.id = client[d].id
    <3>1. client[d] \in ClientRecord
      BY <2>1, ActiveClient
    <3> HIDE DEF d
    <3> QED BY <2>1, <3>1 DEF ClientRecord
  <2>3. Ends(areas, [client EXCEPT ![d] = me], news)
    BY <1>12, <2>1, CurrentTypes DEF UnCharCurse, Commit, Ends, ClientMap
  <2> HIDE DEF d, me
  <2> QED BY <2>1, <2>2, <2>3, CurrentTypes, OneClientEnds
<1> QED BY <1>3, <1>4, <1>5, <1>6, <1>7, <1>8, <1>9, <1>10, <1>11, <1>12
        DEF CharacterEvent

-----------------------------------------------------------------------------
(* Clients come and go *)

\* Popping takes one id off the stack.
LEMMA PopRange ==
  ASSUME NEW s \in Seq(Ids), s # << >>,
         \A j, k \in DOMAIN s : j # k => s[j] # s[k]
  PROVE  LET r == SubSeq(s, 1, Len(s) - 1) IN
           /\ \A j, k \in DOMAIN r : j # k => r[j] # r[k]
           /\ Range(r) = Range(s) \ {s[Len(s)]}
<1> DEFINE r == SubSeq(s, 1, Len(s) - 1)
<1>1. /\ Len(s) \in Nat \ {0}
      /\ r \in Seq(Ids)
      /\ Len(r) = Len(s) - 1
      /\ \A k \in 1..(Len(s) - 1) : r[k] = s[k]
  BY Pop
<1>2. DOMAIN r = 1..(Len(s) - 1) /\ DOMAIN s = 1..Len(s)
  <2> HIDE DEF r
  <2> QED BY <1>1, LenProperties
<1>n. /\ \A k \in 1..(Len(s) - 1) : k \in 1..Len(s) /\ k # Len(s)
      /\ \A k \in 1..Len(s) : k \in 1..(Len(s) - 1) \/ k = Len(s)
      /\ Len(s) \in 1..Len(s)
  BY <1>1
<1> HIDE DEF r
<1>3. \A j, k \in DOMAIN r : j # k => r[j] # r[k]
  BY <1>1, <1>2, <1>n, Zenon
<1>4. Range(r) = Range(s) \ {s[Len(s)]}
  <2>1. ASSUME NEW k \in 1..(Len(s) - 1)
        PROVE  r[k] \in Range(s) \ {s[Len(s)]}
    <3>1. r[k] = s[k] /\ k \in DOMAIN s /\ Len(s) \in DOMAIN s /\ k # Len(s)
      BY <1>1, <1>2, <1>n, Zenon
    <3> QED BY <3>1, Zenon DEF Range
  <2>2. ASSUME NEW k \in 1..Len(s), s[k] # s[Len(s)]
        PROVE  s[k] \in Range(r)
    <3>1. k \in 1..(Len(s) - 1)
      BY <1>n, <2>2, Zenon
    <3> QED BY <1>1, <1>2, <3>1 DEF Range
  <2> QED BY <1>2, <2>1, <2>2 DEF Range
<1> QED BY <1>3, <1>4 DEF r

\* Pushing puts one id on the stack.
LEMMA PushRange ==
  ASSUME NEW s \in Seq(Ids), NEW i \in Ids, i \notin Range(s),
         \A j, k \in DOMAIN s : j # k => s[j] # s[k]
  PROVE  LET r == Append(s, i) IN
           /\ \A j, k \in DOMAIN r : j # k => r[j] # r[k]
           /\ Range(r) = Range(s) \cup {i}
<1> DEFINE r == Append(s, i)
<1>1. /\ Len(s) \in Nat
      /\ r \in Seq(Ids)
      /\ Len(r) = Len(s) + 1
      /\ \A k \in 1..Len(s) : r[k] = s[k]
      /\ r[Len(s) + 1] = i
  BY Push, LenProperties
<1>2. DOMAIN r = 1..(Len(s) + 1) /\ DOMAIN s = 1..Len(s)
  <2> HIDE DEF r
  <2> QED BY <1>1, LenProperties
<1> HIDE DEF r
<1>3. \A k \in DOMAIN s : s[k] # i
  BY DEF Range
<1>4. \A j, k \in DOMAIN r : j # k => r[j] # r[k]
  BY <1>1, <1>2, <1>3
<1>5. Range(r) = Range(s) \cup {i}
  <2>1. ASSUME NEW k \in 1..(Len(s) + 1) PROVE r[k] \in Range(s) \cup {i}
    BY <1>1, <1>2 DEF Range
  <2>2. ASSUME NEW k \in 1..Len(s) PROVE s[k] \in Range(r)
    BY <1>1, <1>2 DEF Range
  <2>3. i \in Range(r)
    BY <1>1, <1>2 DEF Range
  <2> QED BY <1>2, <2>1, <2>2, <2>3 DEF Range
<1> QED BY <1>4, <1>5 DEF r

\* A connection is an id handed out.
LEMMA ClientConnectedRegistry ==
  ASSUME Registry, NEW c \in Clients, ClientConnected(c)
  PROVE  Registry' /\ \E i \in Ids : Allocator!HandOut(i, c)
<1> DEFINE id == idStack[Len(idStack)]
           r == SubSeq(idStack, 1, Len(idStack) - 1)
<1>1. /\ idStack \in Seq(Ids) /\ idStack # << >>
      /\ \A j, k \in DOMAIN idStack : j # k => idStack[j] # idStack[k]
  BY DEF ClientConnected, Registry, TypeOK, RegistryConsistent,
         StackHasNoDuplicates
<1>2. /\ id \in Ids /\ r \in Seq(Ids) /\ id \in Range(idStack)
      /\ \A j, k \in DOMAIN r : j # k => r[j] # r[k]
      /\ Range(r) = Range(idStack) \ {id}
  <2>1. id \in Ids /\ r \in Seq(Ids) /\ Len(idStack) \in Nat \ {0}
    BY <1>1, Pop
  <2>2. id \in Range(idStack)
    BY <1>1, <2>1, LenProperties DEF Range
  <2>3. /\ \A j, k \in DOMAIN r : j # k => r[j] # r[k]
        /\ Range(r) = Range(idStack) \ {id}
    BY <1>1, PopRange
  <2> QED BY <2>1, <2>2, <2>3
<1>3. /\ idStack' = r
      /\ clientMap' = [clientMap EXCEPT ![id] = c]
      /\ client' = [client EXCEPT ![c] = NewClient("handshake", id)]
      /\ UNCHANGED <<areas, news, process>>
      /\ client[c].phase = "none"
  BY DEF ClientConnected
<1> HIDE DEF id, r
<1>4. NewClient("handshake", id) \in ClientRecord
  BY <1>2, NewClientType DEF Phases
<1>5. TypeOK'
  BY <1>2, <1>3, <1>4 DEF Registry, TypeOK
<1>6. NewClient("handshake", id).phase = "handshake"
      /\ NewClient("handshake", id).id = id
  BY DEF NewClient
<1>7. clientMap[id] = NoClient /\ \A j \in Ids : clientMap[j] # c
  BY <1>2, <1>3 DEF Registry, RegistryConsistent, StackHoldsTheFree,
                    MapMatchesList
<1>8. \A i \in Ids : clientMap'[i] = IF i = id THEN c ELSE clientMap[i]
  BY <1>3 DEF Registry, TypeOK
<1>9. \A e \in Clients :
        client'[e] = IF e = c THEN NewClient("handshake", id) ELSE client[e]
  BY <1>3 DEF Registry, TypeOK
<1>10. StackHasNoDuplicates'
  BY <1>2, <1>3 DEF StackHasNoDuplicates
<1>11. MapMatchesList'
  BY <1>2, <1>3, <1>6, <1>7, <1>8, <1>9
     DEF Registry, RegistryConsistent, MapMatchesList
<1>12. Range(idStack') = Range(idStack) \ {id}
  BY <1>2, <1>3
<1>13. StackHoldsTheFree'
  <2> SUFFICES ASSUME NEW i \in Ids
               PROVE  i \in Range(idStack') <=> clientMap'[i] = NoClient
    BY DEF StackHoldsTheFree, Range
  <2>1. c # NoClient
    OBVIOUS
  <2> QED BY <1>8, <1>12, <2>1 DEF Registry, RegistryConsistent, StackHoldsTheFree
<1>14. \A e \in Registered' : client'[e].id \in Ids
  BY <1>2, <1>6, <1>9 DEF Registry, RegistryConsistent, Registered
<1>15. Allocator!HandOut(id, c)
  BY <1>2, <1>3, <1>7, <1>12, Zenon DEF Allocator!HandOut
<1> QED BY <1>2, <1>5, <1>10, <1>11, <1>13, <1>14, <1>15
        DEF Registry, RegistryConsistent

\* A removal is an id taken back.
LEMMA RemoveClientRegistry ==
  ASSUME Registry, NEW c \in Clients, RemoveClient(c)
  PROVE  Registry' /\ \E i \in Ids : Allocator!TakeBack(i)
<1> DEFINE id == client[c].id
           r == Append(idStack, id)
<1>1. /\ idStack \in Seq(Ids)
      /\ \A j, k \in DOMAIN idStack : j # k => idStack[j] # idStack[k]
  BY DEF Registry, TypeOK, RegistryConsistent, StackHasNoDuplicates
<1>2. id \in Ids /\ clientMap[id] = c /\ id \notin Range(idStack)
  <2>1. id \in Ids /\ clientMap[id] = c
    BY RegisteredIds DEF RemoveClient, Registry, RegistryConsistent, MapMatchesList
  <2> QED BY <2>1 DEF Registry, RegistryConsistent, StackHoldsTheFree
<1>3. /\ r \in Seq(Ids)
      /\ \A j, k \in DOMAIN r : j # k => r[j] # r[k]
      /\ Range(r) = Range(idStack) \cup {id}
  <2> HIDE DEF id
  <2> QED BY <1>1, <1>2, Push, PushRange
<1>4. /\ idStack' = r
      /\ clientMap' = [clientMap EXCEPT ![id] = NoClient]
      /\ client' = [client EXCEPT ![c] = NewClient("none", NoId)]
      /\ UNCHANGED <<areas, news, process>>
  BY DEF RemoveClient
<1>5. \A e \in Clients : client[e].phase # "none" /\ client[e].id = id => e = c
  BY <1>2 DEF Registry, RegistryConsistent, MapMatchesList
<1> HIDE DEF id, r
<1>6. /\ NewClient("none", NoId) \in ClientRecord
      /\ NewClient("none", NoId).phase = "none"
  BY NewClientType DEF Phases, NewClient
<1>7. TypeOK'
  BY <1>2, <1>3, <1>4, <1>6 DEF Registry, TypeOK
<1>8. \A i \in Ids : clientMap'[i] = IF i = id THEN NoClient ELSE clientMap[i]
  BY <1>4 DEF Registry, TypeOK
<1>9. \A e \in Clients :
        client'[e] = IF e = c THEN NewClient("none", NoId) ELSE client[e]
  BY <1>4 DEF Registry, TypeOK
<1>10. StackHasNoDuplicates'
  BY <1>3, <1>4 DEF StackHasNoDuplicates
<1>11. MapMatchesList'
  BY <1>2, <1>5, <1>6, <1>8, <1>9
     DEF Registry, RegistryConsistent, MapMatchesList
<1>12. Range(idStack') = Range(idStack) \cup {id}
  BY <1>3, <1>4
<1>13. StackHoldsTheFree'
  <2> SUFFICES ASSUME NEW i \in Ids
               PROVE  i \in Range(idStack') <=> clientMap'[i] = NoClient
    BY DEF StackHoldsTheFree, Range
  <2> QED BY <1>8, <1>12 DEF Registry, RegistryConsistent, StackHoldsTheFree
<1>14. \A e \in Registered' : client'[e].id \in Ids
  BY <1>6, <1>9 DEF Registry, RegistryConsistent, Registered
<1>15. Allocator!TakeBack(id)
  BY <1>2, <1>4, <1>12 DEF Allocator!TakeBack
<1> QED BY <1>2, <1>7, <1>10, <1>11, <1>13, <1>14, <1>15
        DEF Registry, RegistryConsistent

\* The handshake.
LEMMA HelloRegistry ==
  ASSUME Registry, NEW c \in Clients, Hello(c)
  PROVE  Registry'
<1> DEFINE A == Area!AddClient(areas[0], Area!NoCharacter, client[c].id)
           as == [areas EXCEPT ![0] = A]
           me == [client[c] EXCEPT !.phase = "session"]
           n == TellCounts(news, as)
<1>1. client[c].phase = "handshake"
  BY DEF Hello
<1>2. /\ 0 \in Areas /\ areas[0] \in Area!AreaRecord(Ids)
      /\ client[c] \in ClientRecord /\ client[c].id \in Ids
      /\ Area!NoCharacter \in Int
  BY <1>1, ActiveClient, CurrentTypes DEF AreaMap, Area!NoCharacter
<1>3. A \in Area!AreaRecord(Ids)
  BY <1>2, MemberTypes
<1>4. as \in AreaMap
  BY <1>2, <1>3, CurrentTypes, Zenon DEF AreaMap
<1>5. me \in ClientRecord /\ me.phase = "session" /\ me.id = client[c].id
  BY <1>2 DEF ClientRecord, Phases
<1>6. Ends(as, [client EXCEPT ![c] = me], n)
  BY Zenon DEF Hello, Commit, Ends
<1> HIDE DEF as, me
<1>7. n \in NewsRecord
  BY <1>4, NewsTypes, CurrentTypes
<1>8. [client EXCEPT ![c] = me] \in ClientMap /\ SameIds([client EXCEPT ![c] = me])
  BY <1>1, <1>5, OneClient
<1> QED BY <1>4, <1>6, <1>7, <1>8, CommitRegistry

\* The end of a session.
LEMMA FinishSessionRegistry ==
  ASSUME Registry, NEW c \in Clients, FinishSession(c)
  PROVE  Registry'
<1> DEFINE A == Area!RemoveClient(areas[Here(c)], client[c].character, client[c].id)
           left == [areas EXCEPT ![Here(c)] = A]
           as == RemoveOwnerEverywhere(left, client[c].id)
           me == [client[c] EXCEPT !.phase = "finished"]
           counted == TellCounts(news, left)
<1>1. client[c].phase \in {"handshake", "session"}
  BY DEF FinishSession
<1>2. /\ Here(c) \in Areas /\ areas[Here(c)] \in Area!AreaRecord(Ids)
      /\ client[c] \in ClientRecord /\ client[c].id \in Ids
      /\ client[c].character \in Int
  BY <1>1, ActiveClient, ClientFields
<1>3. A \in Area!AreaRecord(Ids)
  BY <1>2, MemberTypes
<1>4. left \in AreaMap
  BY <1>2, <1>3, CurrentTypes, Zenon DEF AreaMap
<1>5. as \in AreaMap
  <2> HIDE DEF left
  <2>1. \A a \in Areas : /\ left[a] \in Area!AreaRecord(Ids)
                         /\ Area!RemoveOwner(left[a], client[c].id)
                              \in Area!AreaRecord(Ids)
    BY <1>2, <1>4, OwnerTypes DEF AreaMap
  <2> QED BY <2>1 DEF RemoveOwnerEverywhere, AreaMap
<1>6. me \in ClientRecord /\ me.phase = "finished" /\ me.id = client[c].id
  BY <1>2 DEF ClientRecord, Phases
<1>7. \/ Ends(as, [client EXCEPT ![c] = me], TellOwners(TellLocks(counted, as), as))
      \/ Ends(as, [client EXCEPT ![c] = me], TellOwners(counted, as))
  BY Zenon DEF FinishSession, Commit, Ends
<1>8. counted \in NewsRecord
  <2> HIDE DEF left
  <2> QED BY <1>4, NewsTypes, CurrentTypes
<1> HIDE DEF as, me, counted
<1>9. /\ TellOwners(TellLocks(counted, as), as) \in NewsRecord
      /\ TellOwners(counted, as) \in NewsRecord
  BY <1>5, <1>8, NewsTypes
<1>10. [client EXCEPT ![c] = me] \in ClientMap /\ SameIds([client EXCEPT ![c] = me])
  BY <1>1, <1>6, OneClient
<1> QED BY <1>5, <1>7, <1>9, <1>10, CommitRegistry

-----------------------------------------------------------------------------
(* The theorems about the registry *)

\* Every command about areas.
LEMMA AreaRegistry ==
  ASSUME Registry, NEW c \in Clients, AreaEvent(c)
  PROVE  Registry'
<1>1. ASSUME BroadcastToArea(c) \/ \E a \in AskedAreas : AreaMessage(c, a)
      PROVE  Registry'
  BY <1>1 DEF BroadcastToArea, AreaMessage, Crash, LosesArea, Registry, TypeOK, RegistryConsistent, Range,
              StackHasNoDuplicates, MapMatchesList, StackHoldsTheFree, Registered
<1>2. CASE BecomeCM(c)
  BY <1>2, AddsOwnerRegistry, ActiveClient DEF BecomeCM, Active
<1>3. CASE UnCM(c)
  BY <1>3, RemovesOwnerRegistry, ActiveClient DEF UnCM, Active
<1>4. ASSUME NEW t \in Ids, PromoteCM(c, t) PROVE Registry'
  BY <1>4, AddsOwnerRegistry DEF PromoteCM
<1>5. ASSUME NEW t \in Ids, UnCMOther(c, t) PROVE Registry'
  BY <1>5, RemovesOwnerRegistry DEF UnCMOther
<1> QED BY <1>1, <1>2, <1>3, <1>4, <1>5, JoinAreaRegistry, ClearCMRegistry,
           InvitesRegistry, LocksRegistry, AreaKickRegistry DEF AreaEvent

\* Every step of the server keeps types and registry.
LEMMA NextRegistry == Registry /\ [Next]_vars => Registry'
<1> SUFFICES ASSUME Registry, [Next]_vars PROVE Registry'
  OBVIOUS
<1>1. ASSUME NEW c \in Clients, ConnectionEvent(c) PROVE Registry'
  BY <1>1, ClientConnectedRegistry, HelloRegistry, FinishSessionRegistry,
     RemoveClientRegistry DEF ConnectionEvent
<1>2. ASSUME NEW c \in Clients, AreaEvent(c) PROVE Registry'
  BY <1>2, AreaRegistry
<1>3. ASSUME NEW c \in Clients, CharacterEvent(c) PROVE Registry'
  BY <1>3, CharacterRegistry
<1>4. CASE UNCHANGED vars
  BY <1>4 DEF vars, Registry, TypeOK, RegistryConsistent, Range,
              StackHasNoDuplicates, MapMatchesList, StackHoldsTheFree, Registered
<1> QED BY <1>1, <1>2, <1>3, <1>4 DEF Next, Halted

LEMMA AlwaysRegistry == Spec => []Registry
  BY InitRegistry, NextRegistry, PTL DEF Spec

\* Every variable of the server keeps its type, for any number of clients,
\* ids, areas and characters.
THEOREM TypeCorrect == Spec => []TypeOK
<1>1. Registry => TypeOK
  BY DEF Registry
<1> QED BY <1>1, AlwaysRegistry, PTL

\* List, map and stack of Server agree, in whatever order clients come and go.
THEOREM RegistryCorrect == Spec => []RegistryConsistent
<1>1. Registry => RegistryConsistent
  BY DEF Registry
<1> QED BY <1>1, AlwaysRegistry, PTL

\* Only a connection and a removal touch the stack and the map.
LEMMA OthersKeepIds ==
  ASSUME NEW c \in Clients,
         Hello(c) \/ FinishSession(c) \/ AreaEvent(c) \/ CharacterEvent(c)
  PROVE  UNCHANGED <<idStack, clientMap>>
<1>1. CASE Hello(c) \/ FinishSession(c)
  BY <1>1, Zenon DEF Hello, FinishSession, Commit, Crash
<1>2. CASE AreaEvent(c)
  BY <1>2, ZenonT(60) DEF AreaEvent, JoinArea, BroadcastToArea, AreaMessage, LosesArea, BecomeCM, UnCM, ClearCM,
     Lock, Spectatable, UnLock, PromoteCM, UnCMOther, InviteCommand,
     UnInviteCommand, AreaKick, AddsOwner, RemovesOwner, SetsLock, CommitAloud,
     Commit, Crash
<1>3. CASE CharacterEvent(c)
  BY <1>3, ZenonT(60) DEF CharacterEvent, SelectCharacter, Switch, RandomChar,
     RandomCharHangs, CharSelect, ForceCharSelect, CharCurse, CharCurseTo,
     CharCurseFails, UnCharCurse, Curses, ChangesCharacter, Commit, Crash
<1> QED BY <1>1, <1>2, <1>3

\* The registry implements the abstract allocation of ids: an id belongs to
\* one client from its connection to its removal.
THEOREM RegistryImplementsAllocator == Spec => AllocatorSpec
<1>1. Init => Allocator!Init
  <2> SUFFICES ASSUME Init PROVE Allocator!Init
    OBVIOUS
  <2>1. clientMap = [i \in Ids |-> NoClient]
    BY DEF Init
  <2>2. \A i \in Ids : i \in Range(idStack)
    BY <2>1, InitRegistry DEF Registry, RegistryConsistent, StackHoldsTheFree
  <2>3. \A i \in Range(idStack) : i \in Ids
    <3>1. \A k \in DOMAIN idStack : idStack[k] \in Ids
      BY DEF Init
    <3> QED BY <3>1, Zenon DEF Range
  <2>4. Range(idStack) = Ids
    BY <2>2, <2>3, Zenon
  <2> QED BY <2>1, <2>4 DEF Allocator!Init
<1>2. Registry /\ [Next]_vars => [Allocator!Next]_<<Range(idStack), clientMap>>
  <2> SUFFICES ASSUME Registry, [Next]_vars
               PROVE  Allocator!Next \/ UNCHANGED <<Range(idStack), clientMap>>
    OBVIOUS
  <2>1. ASSUME NEW c \in Clients, ClientConnected(c) PROVE Allocator!Next
    BY <2>1, ClientConnectedRegistry DEF Allocator!Next
  <2>2. ASSUME NEW c \in Clients, RemoveClient(c) PROVE Allocator!Next
    BY <2>2, RemoveClientRegistry DEF Allocator!Next
  <2>3. CASE UNCHANGED <<idStack, clientMap>>
    BY <2>3 DEF Range
  <2> QED BY <2>1, <2>2, <2>3, OthersKeepIds DEF Next, ConnectionEvent, Halted, vars
<1> QED BY <1>1, <1>2, AlwaysRegistry, PTL DEF Spec, AllocatorSpec, Allocator!Spec

=============================================================================
