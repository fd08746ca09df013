------------------------------- MODULE Kenji --------------------------------
(***************************************************************************)
(* The server as a whole: every event the event loop may deliver next, and *)
(* what the registry, the areas, ownership, locks and characters keep to.  *)
(***************************************************************************)
EXTENDS AreaCommands, CharacterCommands, Functions

\* A process that has died or hangs takes no further event.
Halted == process # "running" /\ UNCHANGED vars

ConnectionEvent(c) ==
  \/ ClientConnected(c)
  \/ Hello(c)
  \/ FinishSession(c)
  \/ RemoveClient(c)

AreaEvent(c) ==
  \/ \E a \in Areas : JoinArea(c, a)
  \/ BroadcastToArea(c)
  \/ \E a \in AskedAreas : AreaMessage(c, a)
  \/ BecomeCM(c)
  \/ UnCM(c)
  \/ ClearCM(c)
  \/ Lock(c)
  \/ Spectatable(c)
  \/ UnLock(c)
  \/ \E t \in Ids : \/ PromoteCM(c, t)
                    \/ UnCMOther(c, t)
                    \/ InviteCommand(c, t)
                    \/ UnInviteCommand(c, t)
                    \/ AreaKick(c, t)

CharacterEvent(c) ==
  \/ \E id \in SelectableIds : SelectCharacter(c, id)
  \/ \E id \in Characters : Switch(c, id)
  \/ RandomChar(c)
  \/ RandomCharHangs(c)
  \/ CharSelect(c)
  \/ \E t \in Ids : \/ ForceCharSelect(c, t)
                    \/ CharCurse(c, t)
                    \/ UnCharCurse(c, t)
                    \/ \E list \in SUBSET Characters :
                         CharCurseTo(c, t, list) \/ CharCurseFails(c, t, list)

Next ==
  \/ \E c \in Clients : ConnectionEvent(c) \/ AreaEvent(c) \/ CharacterEvent(c)
  \/ Halted

Spec == Init /\ [][Next]_vars

\* The event loop delivers a queued call as long as it runs; when users
\* connect, act or leave is up to them.
Fairness == \A c \in Clients : WF_vars(RemoveClient(c))

FairSpec == Spec /\ Fairness

-----------------------------------------------------------------------------
(* Types *)

NewsRecord ==
  [count: [Areas -> Int], owners: [Areas -> SUBSET Ids],
   locked: [Areas -> Area!LockStatus]]

\* Every variable has its type: Server's members hold what they are declared
\* to hold.
TypeOK ==
  /\ idStack \in Seq(Ids)
  /\ clientMap \in [Ids -> Clients \cup {NoClient}]
  /\ client \in [Clients -> ClientRecord]
  /\ areas \in [Areas -> Area!AreaRecord(Ids)]
  /\ news \in NewsRecord
  /\ process \in {"running", "crashed", "astray", "hung"}

-----------------------------------------------------------------------------
(* The registry *)

StackHasNoDuplicates ==
  \A j, k \in DOMAIN idStack : j # k => idStack[j] # idStack[k]

MapMatchesList ==
  \A i \in Ids, c \in Clients :
    clientMap[i] = c <=> client[c].phase # "none" /\ client[c].id = i

StackHoldsTheFree ==
  \A i \in Ids : i \in Range(idStack) <=> clientMap[i] = NoClient

\* The list, the map and the stack of Server agree whatever the order in
\* which clients come and go: an id is on the stack exactly when the map has
\* no client for it, once, and a listed client is found under its own id.
RegistryConsistent ==
  /\ StackHasNoDuplicates
  /\ MapMatchesList
  /\ StackHoldsTheFree
  /\ \A c \in Registered : client[c].id \in Ids

\* The registry implements the abstract allocation of ids.
Allocator ==
  INSTANCE PlayerIds WITH free <- Range(idStack), holder <- clientMap

AllocatorSpec == Allocator!Spec

\* multiclient_limit (Server::clientConnected) holds for every address that
\* is not loopback, counting clients that have left but are not yet removed.
MultiClientLimitHeld ==
  \A c \in Registered :
    Address[c] \notin Loopback => Cardinality(SameAddress(c)) <= MultiClientLimit

\* A client whose session is over gives its id back, unless the process
\* stops: the queued removeClient is not lost.
IdReturns ==
  \A i \in Ids, c \in Clients :
    (client[c].phase = "finished" /\ client[c].id = i)
      ~> (i \in Range(idStack) \/ process # "running")

-----------------------------------------------------------------------------
(* Membership *)

InSession(i, a) == \E c \in Sessions : client[c].id = i /\ Here(c) = a

\* A client in session hears exactly the broadcasts of its own area, and an
\* id that nobody in session has, left behind by /area_kick of a client that
\* is being removed, can only be a listener of area 0: elsewhere
\* Server::broadcast always finds a client.
ListenersAreInSession ==
  /\ \A c \in Sessions, a \in Areas :
       client[c].id \in areas[a].joined <=> a = Here(c)
  /\ \A a \in Areas \ {0} : \A i \in areas[a].joined : InSession(i, a)

\* The clients in area a before and after a step, as far as the counts know: in
\* session, or already out of it but not removed yet, when /area_kick still
\* moves them and the counts with them.
Lingers(c) == client[c].phase = "finished" /\ client'[c].phase = "finished"

Before(a) ==
  {c \in Clients : Here(c) = a /\ (client[c].phase = "session" \/ Lingers(c))}

After(a) ==
  {c \in Clients : client'[c].area = a /\ (client'[c].phase = "session" \/ Lingers(c))}

LeavesEarly(a) ==
  \E c \in Clients :
    Here(c) = a /\ client[c].phase = "handshake" /\ client'[c].phase = "finished"

\* What the player count does instead of what it is documented to be (see
\* CountIsClients): every event, area changes included, changes it by the
\* clients that come into the area and go, counting those that /area_kick
\* still moves while they are being removed, and a client that leaves before
\* its Hello is subtracted without ever having been added.
CountFollowsSessions ==
  [][\A a \in Areas :
       areas'[a].playerCount - areas[a].playerCount
         = Cardinality(After(a)) - Cardinality(Before(a))
             - (IF LeavesEarly(a) THEN 1 ELSE 0)]_vars

-----------------------------------------------------------------------------
(* Ownership and locks *)

\* An owner can always pass its own lock: neither /uninvite nor /area_kick
\* takes the invitation of an owner away.
OwnersAreInvited == \A a \in Areas : areas[a].owners \subseteq areas[a].invited

\* Ownership comes from /cm only: somebody in the area takes it while nobody
\* has it, or an owner in the area gives it, and never in a protected area.
OwnershipIsGranted ==
  [][\A a \in Areas : \A i \in areas'[a].owners \ areas[a].owners :
       /\ a \notin Protected
       /\ \E c \in Sessions :
            /\ Here(c) = a
            /\ \/ areas[a].owners = {} /\ client[c].id = i
               \/ client[c].id \in areas[a].owners]_vars

\* Without moderators a lock or spectate mode always has an owner to lift it:
\* whoever leaves last as owner, by /uncm or by disconnecting, takes it along.
LockHasOwner ==
  Moderators = {} =>
    \A a \in Areas : areas[a].locked # "FREE" => areas[a].owners # {}

\* The same as a step, with moderators: an area that loses its last owner is
\* free afterwards.
LastOwnerFreesLock ==
  [][\A a \in Areas : areas[a].owners # {} /\ areas'[a].owners = {}
       => areas'[a].locked = "FREE"]_vars

\* What everybody was last told about player counts, CMs and, without
\* moderators, locks is true: no handler changes one of them without an area
\* update.  (A moderator's /clearcm frees a lock and tells nobody.)
NewsIsCurrent ==
  \A a \in Areas : /\ news.count[a] = areas[a].playerCount
                   /\ news.owners[a] = areas[a].owners
                   /\ Moderators = {} => news.locked[a] = areas[a].locked

-----------------------------------------------------------------------------
(* Characters *)

\* A client that counts as spectator (isSpectator: charId is -1) uses no
\* character, whichever way it came to it.
SpectatorHasNoCharacter ==
  \A c \in Clients :
    client[c].charId = Area!NoCharacter => client[c].character = Area!NoCharacter

\* The character a client uses is free in the area it leaves, by moving or by
\* disconnecting.
LeaverFreesCharacter ==
  [][\A c \in Clients :
       LET k == client[c].character IN
         /\ k # Area!NoCharacter
         /\ client[c].phase = "session"
         /\ client'[c].area # Here(c) \/ client'[c].phase = "finished"
         => k \notin areas'[Here(c)].taken]_vars

\* A cursed client has something to choose from: an early return of
\* /charcurse never leaves it cursed to an empty list.
CurseLeavesChoice ==
  \A c \in Clients : client[c].cursed => client[c].curseList # {}

\* A cursed client only ever takes characters of its list, or loses its
\* character to somebody in the area it enters.
CurseIsKept ==
  [][\A c \in Clients :
       /\ client[c].cursed /\ client'[c].cursed
       /\ client'[c].character # client[c].character
       => client'[c].character \in client[c].curseList \cup {Area!NoCharacter}]_vars

-----------------------------------------------------------------------------
(* Crashes *)

\* What a comment of the code says and the code does not keep (area_data.h,
\* m_playerCount: "The amount of clients inside the area").  The player count
\* of an area is the number of clients in it.
CountIsClients ==
  \A a \in Areas :
    areas[a].playerCount = Cardinality({c \in Sessions : Here(c) = a})

\* What a comment of the code says and the code does not keep.  area_data.h,
\* owners: "The client IDs of the owners."  Every owner is the id of a client
\* that is there.
OwnersAreClients == \A a \in Areas : \A i \in areas[a].owners : Found(i)

\* The events of this model end the process in three ways only: they meet an
\* owner that is no client (arup), a listener of area 0 that is none
\* (broadcast), or an area that does not exist, which somebody named with /a.
\* No other id that a handler follows unchecked leads nowhere.
CrashHasCause ==
  /\ process = "crashed" =>
       ~OwnersAreClients \/ \E i \in areas[0].joined : ~Found(i)
  /\ process = "astray" => AskedAreas \ Areas # {}

=============================================================================
