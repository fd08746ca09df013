------------------------------- MODULE Server -------------------------------
(***************************************************************************)
(* The state of a running server and the life of a connection: the class   *)
(* Server's registry of clients (list, map and stack of free ids), the     *)
(* session state of every AOClient, the areas, and the handlers that bring *)
(* a client in and take it out again.  The commands a client may send in   *)
(* between are in AreaCommands and CharacterCommands.                      *)
(*                                                                         *)
(* The server is one thread running Qt's event loop, so a handler is one   *)
(* step.  What interleaves are the events: packets, disconnections, and    *)
(* the queued call of removeClient, which reaches the loop some events     *)
(* after finishSession posted it.                                          *)
(***************************************************************************)
EXTENDS Integers, Sequences, FiniteSets

CONSTANTS
  Clients,           \* AOClient objects; one can be created again once removed
  NoClient,          \* a null AOClient*
  MaxPlayers,        \* ConfigManager::maxPlayers()
  AreaCount,         \* number of areas; every client starts in area 0
  Protected,         \* areas nobody may become CM of (m_isProtected)
  CharCount,         \* number of characters
  SelectableIds,     \* bound: the character ids that clients ask for
  AskedAreas,        \* bound: the area ids that clients name with /a
  Moderators,        \* clients whose login grants every permission
  Address,           \* m_remote_ip of each client object
  Loopback,          \* the addresses that are loopback
  Barred,            \* the addresses the two ban checks refuse
  MultiClientLimit,  \* ConfigManager::multiClientLimit()
  MaxDrift           \* bound on how far a player count may leave 0..MaxPlayers

Ids == 0..(MaxPlayers - 1)
NoId == -1
Areas == 0..(AreaCount - 1)
Characters == 0..(CharCount - 1)

ASSUME ServerAssumption ==
  /\ NoClient \notin Clients
  /\ MaxPlayers \in Nat \ {0}
  /\ AreaCount \in Nat \ {0}
  /\ Protected \subseteq Areas
  /\ CharCount \in Nat
  /\ SelectableIds \subseteq Int
  /\ AskedAreas \subseteq Int
  /\ Moderators \subseteq Clients
  /\ MultiClientLimit \in Nat
  /\ MaxDrift \in Nat

Area == INSTANCE AreaData

VARIABLES
  idStack,    \* m_id_stack, top last
  clientMap,  \* m_client_map: the client of an id, NoClient when it has none
  client,     \* the AOClient objects
  areas,      \* m_areas
  news,       \* what the last area updates (ARUP) told everybody
  process     \* "running", "crashed" or "astray" on a null dereference, of a
              \* client or of an area, or "hung" in a loop

vars == <<idStack, clientMap, client, areas, news, process>>

(***************************************************************************)
(* The phases of a client object: "none" before it is created and after    *)
(* removeClient, then the packet processor in use (m_processor), then      *)
(* "finished" from finishSession until removeClient has run.               *)
(***************************************************************************)
Phases == {"none", "handshake", "session", "finished"}

ClientRecord ==
  [phase: Phases, id: Ids \cup {NoId}, area: Areas, charId: Int,
   character: Characters \cup {Area!NoCharacter},
   cursed: BOOLEAN, curseList: SUBSET Int]

NewClient(phase, id) ==
  [phase |-> phase, id |-> id, area |-> 0, charId |-> Area!NoCharacter,
   character |-> Area!NoCharacter, cursed |-> FALSE, curseList |-> {}]

Init ==
  /\ idStack = [k \in 1..MaxPlayers |-> MaxPlayers - k]
  /\ clientMap = [i \in Ids |-> NoClient]
  /\ client = [c \in Clients |-> NewClient("none", NoId)]
  /\ areas = [a \in Areas |-> Area!NewArea]
  /\ news = [count |-> [a \in Areas |-> 0],
             owners |-> [a \in Areas |-> {}],
             locked |-> [a \in Areas |-> "FREE"]]
  /\ process = "running"

-----------------------------------------------------------------------------
(* Queries *)

Registered == {c \in Clients : client[c].phase # "none"}    \* m_client_list
Sessions == {c \in Clients : client[c].phase = "session"}

\* A client may send commands and packets once it has shaken hands.
Active(c) == process = "running" /\ client[c].phase = "session"

Here(c) == client[c].area

\* checkPermission: a CM has the CM permission in the area it owns, a
\* moderator has every permission.
IsModerator(c) == c \in Moderators
HasCM(c) == client[c].id \in areas[Here(c)].owners \/ IsModerator(c)

\* Server::client(id) finds somebody.
Found(id) == id \in Ids /\ clientMap[id] # NoClient

\* arup(CaseMaster) calls every owner's client through the map, unchecked.
DanglingOwner(as) ==
  \E a \in Areas : \E i \in as[a].owners : ~Found(i)

\* broadcast(packet, area) calls every joined id's client, unchecked.
DanglingListener(as, a) == \E i \in as[a].joined : ~Found(i)

-----------------------------------------------------------------------------
(* How a handler ends *)

TellCounts(n, as) == [n EXCEPT !.count = [a \in Areas |-> as[a].playerCount]]
TellOwners(n, as) == [n EXCEPT !.owners = [a \in Areas |-> as[a].owners]]
TellLocks(n, as) == [n EXCEPT !.locked = [a \in Areas |-> as[a].locked]]

CountsInBounds(as) ==
  \A a \in Areas : as[a].playerCount \in -MaxDrift..(MaxPlayers + MaxDrift)

Crash ==
  /\ process' = "crashed"
  /\ UNCHANGED <<idStack, clientMap, client, areas, news>>

\* A handler that dereferences an area that is not there.
LosesArea ==
  /\ process' = "astray"
  /\ UNCHANGED <<idStack, clientMap, client, areas, news>>

\* A handler that leaves the areas as, the clients cs and the last updates n,
\* or dies on the way when it dereferences a client that is not there.
Commit(dangling, as, cs, n) ==
  IF dangling THEN Crash
  ELSE /\ CountsInBounds(as)
       /\ areas' = as
       /\ client' = cs
       /\ news' = n
       /\ UNCHANGED <<idStack, clientMap, process>>

-----------------------------------------------------------------------------
(* The life of a connection *)

\* Mutant: counts only the clients that have shaken hands.
SameAddressInSession(c) == {d \in Sessions : Address[d] = Address[c]}

SameAddress(c) == {d \in Registered : Address[d] = Address[c]}

\* Mutant: the id that is handed out stays on the stack.
ClientConnectedPeeking(c) ==
  /\ process = "running"
  /\ client[c].phase = "none"
  /\ idStack # << >>
  /\ LET id == idStack[Len(idStack)] IN
       /\ clientMap' = [clientMap EXCEPT ![id] = c]
       /\ client' = [client EXCEPT ![c] = NewClient("handshake", id)]
  /\ UNCHANGED <<idStack, areas, news, process>>

\* Server::clientConnected, the connections that it accepts: the refusals
\* (no id left, address or ipid banned, too many of one address) end without
\* a change.
ClientConnected(c) ==
  /\ process = "running"
  /\ client[c].phase = "none"
  /\ idStack # << >>
  /\ Address[c] \notin Barred
  /\ Cardinality(SameAddress(c)) < MultiClientLimit \/ Address[c] \in Loopback
  /\ LET id == idStack[Len(idStack)] IN
       /\ idStack' = SubSeq(idStack, 1, Len(idStack) - 1)
       /\ clientMap' = [clientMap EXCEPT ![id] = c]
       /\ client' = [client EXCEPT ![c] = NewClient("handshake", id)]
  /\ UNCHANGED <<areas, news, process>>

\* ClientHandshakeProcessor::cargo(HelloPacket), a Hello that is accepted: a
\* refused one only closes the socket.  fullArup runs before addClient.
Hello(c) ==
  LET as == [areas EXCEPT ![0] =
               Area!AddClient(@, Area!NoCharacter, client[c].id)]
  IN /\ process = "running"
     /\ client[c].phase = "handshake"
     /\ Commit(DanglingOwner(areas), as,
               [client EXCEPT ![c].phase = "session"],
               TellCounts(news, as))

\* The loop of finishSession over the areas, in order: the || stops calling
\* removeOwner after the first area whose lock is released.
RemoveOwnerEverywhere(as, id) ==
  [a \in Areas |->
     IF \E b \in 0..(a - 1) : Area!ReleasesLock(as[b], id) THEN as[a]
     ELSE Area!RemoveOwner(as[a], id)]

\* AOClient::finishSession, run when the websocket has disconnected (which
\* may be at any time, and is what every kick and ban leads to).
FinishSession(c) ==
  LET id == client[c].id
      left == [areas EXCEPT ![Here(c)] =
                 Area!RemoveClient(@, client[c].character, id)]
      as == RemoveOwnerEverywhere(left, id)
      released == \E a \in Areas : Area!ReleasesLock(left[a], id)
      counted == TellCounts(news, left)
  IN /\ process = "running"
     /\ client[c].phase \in {"handshake", "session"}
     /\ Commit(DanglingOwner(as), as,
               [client EXCEPT ![c].phase = "finished"],
               TellOwners(IF released THEN TellLocks(counted, as) ELSE counted,
                          as))

\* Mutants: the map keeps the client; the id does not go back on the stack.
RemoveClientMapped(c) ==
  /\ process = "running"
  /\ client[c].phase = "finished"
  /\ idStack' = Append(idStack, client[c].id)
  /\ client' = [client EXCEPT ![c] = NewClient("none", NoId)]
  /\ UNCHANGED <<clientMap, areas, news, process>>

RemoveClientKeepingId(c) ==
  /\ process = "running"
  /\ client[c].phase = "finished"
  /\ clientMap' = [clientMap EXCEPT ![client[c].id] = NoClient]
  /\ client' = [client EXCEPT ![c] = NewClient("none", NoId)]
  /\ UNCHANGED <<idStack, areas, news, process>>

\* Server::removeClient, the queued receiver of sessionFinished.
RemoveClient(c) ==
  LET id == client[c].id IN
  /\ process = "running"
  /\ client[c].phase = "finished"
  /\ idStack' = Append(idStack, id)
  /\ clientMap' = [clientMap EXCEPT ![id] = NoClient]
  /\ client' = [client EXCEPT ![c] = NewClient("none", NoId)]
  /\ UNCHANGED <<areas, news, process>>

-----------------------------------------------------------------------------
(* Moving between areas *)

\* The lock check of AOClient::changeArea.
MayEnter(c, a) ==
  \/ areas[a].locked # "LOCKED"
  \/ client[c].id \in areas[a].invited
  \/ IsModerator(c)

\* AOClient::changeArea past its checks.  What is given back to the old area
\* is the character in use and also the character last asked for (charId);
\* only the first is looked up in the new area.
Moves(c, a) == a \in Areas /\ a # Here(c) /\ MayEnter(c, a)

LosesCharacter(c, a) == client[c].character \in areas[a].taken

\* Mutants: the client stays a member; only the character asked for is freed.
AreaLeftByNobody(me) ==
  Area!ChangeCharacter(areas[me.area], me.character, Area!NoCharacter)

AreaLeftByAsked(me) == Area!RemoveClient(areas[me.area], me.charId, me.id)

AreaLeftBy(me) ==
  LET gave == IF me.character = Area!NoCharacter THEN areas[me.area]
              ELSE Area!ChangeCharacter(areas[me.area], me.character,
                                        Area!NoCharacter)
  IN Area!RemoveClient(gave, me.charId, me.id)

CharIdAfterMove(c, a) ==
  IF LosesCharacter(c, a) THEN Area!NoCharacter ELSE client[c].charId

AreasAfterMove(c, a) ==
  LET me == client[c] IN
    [[areas EXCEPT ![me.area] = AreaLeftBy(me)] EXCEPT
       ![a] = Area!AddClient(@, CharIdAfterMove(c, a), me.id)]

ClientsAfterMove(c, a) ==
  [client EXCEPT
     ![c].area = a,
     ![c].charId = CharIdAfterMove(c, a),
     ![c].character = IF LosesCharacter(c, a) THEN Area!NoCharacter ELSE @]

=============================================================================
