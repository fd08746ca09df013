-------------------------------- MODULE Chat --------------------------------
(***************************************************************************)
(* Out-of-character chat and what comes with it: the list of players that  *)
(* PlayerStateObserver keeps at every client, the flags moderators set on  *)
(* a client, and the log of each area.  What is shipped to be read, a chat *)
(* line or a modcall, is not kept by the server and is not modelled.       *)
(*                                                                         *)
(* A client is the id it has at the time.  Which commands somebody may use *)
(* is in Accounts, so that here anybody may use all; who may be where is   *)
(* in Kenji, so that here clients move freely.                             *)
(***************************************************************************)
EXTENDS LogBuffer, FiniteSets

CONSTANTS
  Clients,       \* ids
  AreaCount,
  Allowed,       \* names a line may be signed with
  Refused,       \* the server's own, and those that are too long
  Characters,
  Nothing,       \* the empty name and the empty character
  ServerLog,     \* the buffer of the events that have no area
  MaxFlags       \* bound on the flags set at a time

Areas == 0..(AreaCount - 1)
Buffers == Areas \cup {ServerLog}
Names == Allowed \cup Refused \cup {Nothing}

ASSUME ChatAssumption ==
  /\ AreaCount \in Nat \ {0} /\ MaxFlags \in Nat
  /\ ServerLog \notin Areas
  /\ Nothing \notin Allowed \cup Refused \cup Characters
  /\ Allowed \cap Refused = {}

Flags == {"muted", "oocMuted", "wtceBlocked", "gimped", "disemvoweled", "shaken",
          "pmMute", "advertOff"}

VARIABLES
  phase,    \* none, handshake, session, finished
  profile,  \* what the observer shows of each client
  flags,
  seen,     \* the list of players at each client
  log,
  newest    \* history: the newest lines of each buffer

vars == <<phase, profile, flags, seen, log, newest>>

-----------------------------------------------------------------------------

\* A client that has just been created.
Blank == [name |-> Nothing, character |-> Nothing, area |-> 0]

\* m_client_list, and the observer's own list
Listed == {c \in Clients : phase[c] # "none"}
InSession == {c \in Clients : phase[c] = "session"}

Init ==
  /\ phase = [c \in Clients |-> "none"]
  /\ profile = [c \in Clients |-> Blank]
  /\ flags = [c \in Clients |-> {}]
  /\ seen = [c \in Clients |-> << >>]
  /\ log = [b \in Buffers |-> << >>] /\ newest = log

-----------------------------------------------------------------------------
(* PlayerStateObserver *)

\* What registerClient ships to the new client c.
FullList(c) == [d \in Listed \cup {c} |-> IF d = c THEN Blank ELSE profile[d]]

RegisterClient(c) ==
  seen' = [d \in Clients |->
             CASE d = c       -> FullList(c)
               [] d \in Listed -> [e \in DOMAIN seen[d] \cup {c} |->
                                    IF e = c THEN Blank ELSE seen[d][e]]
               [] OTHER        -> seen[d]]

\* Mutant: the others are not told.
UnregisterClientQuietly(c) == seen' = [seen EXCEPT ![c] = << >>]

UnregisterClient(c) ==
  seen' = [d \in Clients |->
             IF d = c \/ d \notin Listed THEN << >>
             ELSE [e \in DOMAIN seen[d] \ {c} |-> seen[d][e]]]

\* A setter of AOClient and the signal it emits.
SetProfile(c, p) ==
  /\ profile' = [profile EXCEPT ![c] = p]
  /\ seen' = [d \in Clients |-> IF d \in Listed THEN [seen[d] EXCEPT ![c] = p] ELSE seen[d]]

-----------------------------------------------------------------------------
(* ULogger *)

\* A line of an area stands for its author, the other lines are all alike.
Logs(buffer, line) ==
  /\ log' = [log EXCEPT ![buffer] = Enqueued(@, line)]
  /\ newest' = [newest EXCEPT ![buffer] = Newest(Append(@, line))]

LogsNothing == UNCHANGED <<log, newest>>

-----------------------------------------------------------------------------
(* Connections *)

ClientConnected(c) ==
  /\ phase[c] = "none"
  /\ phase' = [phase EXCEPT ![c] = "handshake"]
  /\ profile' = [profile EXCEPT ![c] = Blank]
  /\ flags' = [flags EXCEPT ![c] = {}]
  /\ RegisterClient(c)
  /\ LogsNothing

\* A client that is banned stays in its handshake until it is closed.
Hello(c) ==
  /\ phase[c] = "handshake"
  /\ \E next \in {"handshake", "session"} : phase' = [phase EXCEPT ![c] = next]
  /\ Logs(ServerLog, "connect")
  /\ UNCHANGED <<profile, flags, seen>>

FinishSession(c) ==
  /\ phase[c] \in {"handshake", "session"}
  /\ phase' = [phase EXCEPT ![c] = "finished"]
  /\ LogsNothing /\ UNCHANGED <<profile, flags, seen>>

RemoveClient(c) ==
  /\ phase[c] = "finished"
  /\ phase' = [phase EXCEPT ![c] = "none"]
  /\ profile' = [profile EXCEPT ![c] = Blank]
  /\ flags' = [flags EXCEPT ![c] = {}]
  /\ UnregisterClient(c)
  /\ LogsNothing

\* Of the client itself, and of others while it is listed (/area_kick,
\* /charcurse, /forcechar).
ChangeCharacter(c, character) ==
  /\ c \in Listed
  /\ SetProfile(c, [profile[c] EXCEPT !.character = character])
  /\ LogsNothing /\ UNCHANGED <<phase, flags>>

ChangeArea(c, a) ==
  /\ c \in Listed /\ (c \in InSession \/ a = 0)
  /\ SetProfile(c, [profile[c] EXCEPT !.area = a])
  /\ LogsNothing /\ UNCHANGED <<phase, flags>>

-----------------------------------------------------------------------------
(* Packets that say something *)

\* cargo(ChatPacket): c takes the name it asks for before anything else.
TakesName(c, name) ==
  /\ c \in InSession /\ "oocMuted" \notin flags[c]
  /\ SetProfile(c, [profile[c] EXCEPT !.name = name])
  /\ UNCHANGED phase

\* The name is refused, or the message is empty, too long or credentials.
ChatIgnored(c, name) ==
  /\ TakesName(c, name)
  /\ LogsNothing /\ UNCHANGED flags

Chat(c, name) ==
  /\ name \in Allowed
  /\ TakesName(c, name)
  /\ Logs(profile[c].area, c)
  /\ UNCHANGED flags

\* A command that leaves these flags; it is logged when it has run.
Command(c, name, newFlags) ==
  /\ name \in Allowed
  /\ TakesName(c, name)
  /\ flags' = newFlags
  /\ Logs(profile[c].area, c)

\* /g, /pm, /need, /announce, /m, /gm, /lm: what they relay is shipped to
\* some clients and leaves nothing behind but the line in the log.
Relay(c, name) == Command(c, name, flags)

\* HelpMe and its modcall take no name from the packet.  (A case announcement
\* changes nothing at all.)
HelpMe(c) ==
  /\ c \in InSession
  /\ Logs(profile[c].area, c)
  /\ UNCHANGED <<phase, profile, flags, seen>>

-----------------------------------------------------------------------------
(* Flags *)

Given(d, flag) ==
  IF Cardinality(UNION {{<<e, f>> : f \in flags[e]} : e \in Clients}) < MaxFlags
  THEN [flags EXCEPT ![d] = @ \cup {flag}] ELSE flags

Taken(d, flag) == [flags EXCEPT ![d] = @ \ {flag}]

\* Commands of c about any client d with an id.
Mute(c, n, d) == Command(c, n, Given(d, "muted"))
UnMute(c, n, d) == Command(c, n, Taken(d, "muted"))
OocMute(c, n, d) == Command(c, n, Given(d, "oocMuted"))
OocUnMute(c, n, d) == Command(c, n, Taken(d, "oocMuted"))
BlockWtce(c, n, d) == Command(c, n, Given(d, "wtceBlocked"))
UnBlockWtce(c, n, d) == Command(c, n, Taken(d, "wtceBlocked"))
Gimp(c, n, d) == Command(c, n, Given(d, "gimped"))
UnGimp(c, n, d) == Command(c, n, Taken(d, "gimped"))
Disemvowel(c, n, d) == Command(c, n, Given(d, "disemvoweled"))
UnDisemvowel(c, n, d) == Command(c, n, Taken(d, "disemvoweled"))
Shake(c, n, d) == Command(c, n, Given(d, "shaken"))
UnShake(c, n, d) == Command(c, n, Taken(d, "shaken"))

MutePM(c, n) ==
  Command(c, n, IF "pmMute" \in flags[c] THEN Taken(c, "pmMute") ELSE Given(c, "pmMute"))

ToggleAdverts(c, n) ==
  Command(c, n, IF "advertOff" \in flags[c] THEN Taken(c, "advertOff")
                 ELSE Given(c, "advertOff"))

FlagCommand(c, n) ==
  \/ MutePM(c, n) \/ ToggleAdverts(c, n)
  \/ \E d \in Listed :
       \/ Mute(c, n, d) \/ UnMute(c, n, d) \/ OocMute(c, n, d) \/ OocUnMute(c, n, d)
       \/ BlockWtce(c, n, d) \/ UnBlockWtce(c, n, d)
       \/ Gimp(c, n, d) \/ UnGimp(c, n, d) \/ Disemvowel(c, n, d) \/ UnDisemvowel(c, n, d)
       \/ Shake(c, n, d) \/ UnShake(c, n, d)

-----------------------------------------------------------------------------

Next ==
  \E c \in Clients :
    \/ ClientConnected(c) \/ Hello(c) \/ FinishSession(c) \/ RemoveClient(c)
    \/ \E character \in Characters \cup {Nothing} : ChangeCharacter(c, character)
    \/ \E a \in Areas : ChangeArea(c, a)
    \/ HelpMe(c)
    \/ \E n \in Names :
         \/ ChatIgnored(c, n) \/ Chat(c, n) \/ Relay(c, n) \/ FlagCommand(c, n)

Spec == Init /\ [][Next]_vars

-----------------------------------------------------------------------------

\* Every client that is connected, one whose removal is under way and one that
\* still shakes hands included, has the list of all that are, with the name, the
\* character and the area of each as they are now, and nobody else on it, no
\* matter how often an id has changed hands.
PlayersSeen ==
  \A c \in Listed : seen[c] = [d \in Listed |-> profile[d]]

\* The buffer of an area holds the newest lines of it, in order and none left
\* out, whoever wrote them from wherever.  It holds one more than the option
\* logbuffer says (LinesKept); what config.ini promises is MCLimits' property.
BufferIsTail == \A b \in Buffers : log[b] = newest[b]

=============================================================================
