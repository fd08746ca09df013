----------------------------- MODULE ChatProofs -----------------------------
(***************************************************************************)
(* Chat for every number of clients and areas: the lists of players are    *)
(* right, and buffers hold the newest lines.                               *)
(***************************************************************************)
EXTENDS Chat, SequenceTheorems, TLAPS

Profile == [name: Names, character: Characters \cup {Nothing}, area: Areas]
Lines == Clients \cup {"connect"}

\* What the variables hold, as far as the proofs need it.
Types ==
  /\ phase \in [Clients -> {"none", "handshake", "session", "finished"}]
  /\ profile \in [Clients -> Profile]

SeenInv == Types /\ PlayersSeen

LogTypes ==
  /\ log \in [Buffers -> Seq(Lines)]
  /\ \A b \in Buffers : Len(log[b]) <= LinesKept

LogInv == LogTypes /\ newest = log

-----------------------------------------------------------------------------
(* The lists of players *)

\* A client that has just been created has a profile.
LEMMA BlankIsProfile == Blank \in Profile
<1>1. 0 \in Areas
  BY ChatAssumption DEF ChatAssumption, Areas
<1> QED BY <1>1 DEF Blank, Profile, Names

\* A change of one profile reaches every list (the signals of AOClient).
LEMMA ProfileIsSeen ==
  ASSUME SeenInv, NEW c \in Listed, NEW p \in Profile, SetProfile(c, p),
         UNCHANGED phase
  PROVE  Types' /\ PlayersSeen' /\ Listed' = Listed
<1>1. Types'
  BY DEF SeenInv, Types, SetProfile
<1>2. Listed' = Listed
  BY DEF Listed
<1>3. SUFFICES ASSUME NEW d \in Listed
               PROVE  seen'[d] = [e \in Listed |-> profile'[e]]
  BY <1>1, <1>2 DEF PlayersSeen
<1>4. c \in Clients /\ d \in Clients /\ Listed \subseteq Clients
  BY DEF Listed
<1>5. seen[d] = [e \in Listed |-> profile[e]]
  BY DEF SeenInv, PlayersSeen
<1>6. seen'[d] = [seen[d] EXCEPT ![c] = p]
  BY <1>4 DEF SetProfile
<1>7. \A e \in Listed : profile'[e] = IF e = c THEN p ELSE profile[e]
  BY <1>4 DEF SetProfile, SeenInv, Types
<1> QED BY <1>5, <1>6, <1>7

\* The name a client takes with a packet is on every list.
LEMMA NameIsSeen ==
  ASSUME SeenInv, NEW c \in Clients, NEW n \in Names, TakesName(c, n)
  PROVE  SeenInv'
<1>1. c \in Listed
  BY DEF TakesName, InSession, Listed, SeenInv, Types
<1>2. [profile[c] EXCEPT !.name = n] \in Profile
  BY DEF SeenInv, Types, Profile
<1> QED BY <1>1, <1>2, ProfileIsSeen DEF TakesName, SeenInv

\* A command about a flag is a command.
LEMMA FlagCommandIsCommand ==
  ASSUME NEW c \in Clients, NEW n \in Names, FlagCommand(c, n)
  PROVE  Command(c, n, flags')
BY DEF FlagCommand, Command, MutePM, ToggleAdverts, Mute, UnMute, OocMute, OocUnMute,
       BlockWtce, UnBlockWtce, Gimp, UnGimp, Disemvowel, UnDisemvowel, Shake, UnShake

\* The lists, through every event.
LEMMA SeenStep == SeenInv /\ [Next]_vars => SeenInv'
<1> SUFFICES ASSUME SeenInv, [Next]_vars PROVE SeenInv'
  OBVIOUS
<1> USE DEF SeenInv
<1>1. CASE UNCHANGED vars
  BY <1>1 DEF vars, Types, PlayersSeen, Listed
<1>2. ASSUME NEW c \in Clients, ClientConnected(c) PROVE SeenInv'
  <2>1. Types'
    BY <1>2, BlankIsProfile DEF ClientConnected, Types
  <2>2. Listed' = Listed \cup {c} /\ c \notin Listed
    BY <1>2 DEF ClientConnected, Types, Listed
  <2>3. \A d \in Listed' : profile'[d] = IF d = c THEN Blank ELSE profile[d]
    BY <1>2, <2>2 DEF ClientConnected, Types, Listed
  <2>4. ASSUME NEW d \in Listed'
        PROVE  seen'[d] = [e \in Listed' |-> profile'[e]]
    <3>1. CASE d = c
      BY <1>2, <2>2, <2>3, <3>1 DEF ClientConnected, RegisterClient, FullList
    <3>2. CASE d # c
      <4>1. d \in Listed /\ d \in Clients
        BY <2>2, <3>2 DEF Listed
      <4>2. seen[d] = [e \in Listed |-> profile[e]]
        BY <4>1 DEF PlayersSeen
      <4>3. seen'[d] = [e \in DOMAIN seen[d] \cup {c} |->
                          IF e = c THEN Blank ELSE seen[d][e]]
        BY <1>2, <3>2, <4>1 DEF ClientConnected, RegisterClient
      <4> QED BY <4>2, <4>3, <2>2, <2>3
    <3> QED BY <3>1, <3>2
  <2> QED BY <2>1, <2>4 DEF PlayersSeen
<1>3. ASSUME NEW c \in Clients, Hello(c) \/ FinishSession(c) PROVE SeenInv'
  <2>1. Types'
    BY <1>3 DEF Hello, FinishSession, Types
  <2>2. Listed' = Listed
    BY <1>3 DEF Hello, FinishSession, Types, Listed
  <2> QED BY <1>3, <2>1, <2>2 DEF Hello, FinishSession, PlayersSeen
<1>4. ASSUME NEW c \in Clients, RemoveClient(c) PROVE SeenInv'
  <2>1. Types'
    BY <1>4, BlankIsProfile DEF RemoveClient, Types
  <2>2. Listed' = Listed \ {c} /\ c \in Listed
    BY <1>4 DEF RemoveClient, Types, Listed
  <2>3. \A d \in Listed' : profile'[d] = profile[d]
    BY <1>4, <2>2 DEF RemoveClient, Types, Listed
  <2>4. ASSUME NEW d \in Listed'
        PROVE  seen'[d] = [e \in Listed' |-> profile'[e]]
    <3>1. d \in Listed /\ d \in Clients /\ d # c
      BY <2>2 DEF Listed
    <3>2. seen[d] = [e \in Listed |-> profile[e]]
      BY <3>1 DEF PlayersSeen
    <3>3. seen'[d] = [e \in DOMAIN seen[d] \ {c} |-> seen[d][e]]
      BY <1>4, <3>1 DEF RemoveClient, UnregisterClient
    <3> QED BY <3>2, <3>3, <2>2, <2>3
  <2> QED BY <2>1, <2>4 DEF PlayersSeen
<1>5. ASSUME NEW c \in Clients, NEW character \in Characters \cup {Nothing},
             ChangeCharacter(c, character)
      PROVE  SeenInv'
  <2>1. [profile[c] EXCEPT !.character = character] \in Profile
    BY DEF Types, Profile
  <2> QED BY <1>5, <2>1, ProfileIsSeen DEF ChangeCharacter
<1>6. ASSUME NEW c \in Clients, NEW a \in Areas, ChangeArea(c, a) PROVE SeenInv'
  <2>1. [profile[c] EXCEPT !.area = a] \in Profile
    BY DEF Types, Profile
  <2> QED BY <1>6, <2>1, ProfileIsSeen DEF ChangeArea
<1>7. ASSUME NEW c \in Clients, HelpMe(c) PROVE SeenInv'
  BY <1>7 DEF HelpMe, Types, PlayersSeen, Listed
<1>8. ASSUME NEW c \in Clients, NEW n \in Names,
             ChatIgnored(c, n) \/ Chat(c, n) \/ Relay(c, n) \/ FlagCommand(c, n)
      PROVE  SeenInv'
  <2>1. TakesName(c, n)
    BY <1>8, FlagCommandIsCommand DEF ChatIgnored, Chat, Relay, Command
  <2> QED BY <2>1, NameIsSeen
<1> QED BY <1>1, <1>2, <1>3, <1>4, <1>5, <1>6, <1>7, <1>8 DEF Next

\* Every client has the right list of players, with every number of clients
\* and however often their ids change hands.
THEOREM PlayersAreSeen == Spec => []PlayersSeen
<1>1. Init => SeenInv
  BY BlankIsProfile
  DEF Init, SeenInv, Types, PlayersSeen, Listed
<1>2. SeenInv => PlayersSeen
  BY DEF SeenInv
<1> QED BY <1>1, <1>2, SeenStep, PTL DEF Spec

-----------------------------------------------------------------------------
(* The buffers *)

\* updateAreaBuffer keeps the newest lines as long as it has kept no more than
\* there is room for.
LEMMA EnqueuedIsNewest ==
  ASSUME NEW buffer \in Seq(Lines), Len(buffer) <= LinesKept, NEW line \in Lines
  PROVE  /\ Enqueued(buffer, line) = Newest(Append(buffer, line))
         /\ Enqueued(buffer, line) \in Seq(Lines)
         /\ Len(Enqueued(buffer, line)) <= LinesKept
<1> DEFINE all == Append(buffer, line)
<1>1. LogBuffer \in Nat /\ LinesKept = LogBuffer + 1 /\ Len(buffer) \in Nat
  BY LogBufferAssumption, LenProperties DEF LogBufferAssumption, LinesKept
<1>2. /\ all \in Seq(Lines)
      /\ Len(all) = Len(buffer) + 1
      /\ \A j \in 1..Len(buffer) : all[j] = buffer[j]
      /\ all[Len(buffer) + 1] = line
  BY AppendProperties
<1>3. CASE Len(buffer) <= LogBuffer
  BY <1>1, <1>2, <1>3 DEF Enqueued, Newest
<1>4. CASE ~(Len(buffer) <= LogBuffer)
  <2>1. Len(buffer) = LinesKept /\ Len(buffer) >= 1
    BY <1>1, <1>4
  <2>2. /\ Tail(buffer) \in Seq(Lines)
        /\ Len(Tail(buffer)) = Len(buffer) - 1
        /\ \A j \in 1..Len(buffer) - 1 : Tail(buffer)[j] = buffer[j + 1]
    BY <1>1, <2>1
  <2> DEFINE q == Append(Tail(buffer), line)
  <2>3. /\ q \in Seq(Lines)
        /\ Len(q) = Len(buffer)
        /\ \A j \in 1..Len(buffer) - 1 : q[j] = buffer[j + 1]
        /\ q[Len(buffer)] = line
    BY <1>1, <2>1, <2>2, AppendProperties
  <2> DEFINE r == SubSeq(all, 2, Len(buffer) + 1)
  <2>4. /\ r \in Seq(Lines)
        /\ Len(r) = Len(buffer)
        /\ \A j \in 1..Len(buffer) : r[j] = all[j + 1]
    BY <1>1, <1>2, <2>1, SubSeqProperties
  <2>5. Enqueued(buffer, line) = q
    BY <1>4 DEF Enqueued
  <2>6. Newest(all) = r
    BY <1>1, <1>2, <2>1 DEF Newest
  <2> HIDE DEF q, r, all
  <2>7. \A j \in 1..Len(buffer) : q[j] = r[j]
    <3> SUFFICES ASSUME NEW j \in 1..Len(buffer) PROVE q[j] = r[j]
      OBVIOUS
    <3>1. CASE j = Len(buffer)
      BY <1>1, <1>2, <2>3, <2>4, <3>1
    <3>2. CASE j # Len(buffer)
      BY <1>1, <1>2, <2>3, <2>4, <3>2
    <3> QED BY <3>1, <3>2
  <2>8. q = r
    BY <2>3, <2>4, <2>7, SeqEqual
  <2> QED BY <1>1, <2>1, <2>3, <2>5, <2>6, <2>8 DEF all
<1> QED BY <1>3, <1>4

\* A buffer gets at most one line at a time.
LogStep ==
  LogsNothing \/ \E b \in Buffers, line \in Lines : Logs(b, line)

\* Every event logs nothing or one line, in one buffer.
LEMMA NextLogs == Types /\ [Next]_vars => LogStep
<1> SUFFICES ASSUME Types, [Next]_vars PROVE LogStep
  OBVIOUS
<1>1. CASE UNCHANGED vars
  BY <1>1 DEF vars, LogStep, LogsNothing
<1>2. ASSUME NEW c \in Clients PROVE c \in Lines /\ profile[c].area \in Buffers
  BY DEF Types, Profile, Lines, Buffers
<1>3. ASSUME NEW c \in Clients, ClientConnected(c) \/ FinishSession(c) \/ RemoveClient(c)
      PROVE  LogStep
  BY <1>3 DEF ClientConnected, FinishSession, RemoveClient, LogStep
<1>4. ASSUME NEW c \in Clients, Hello(c) PROVE LogStep
  BY <1>4 DEF Hello, LogStep, Buffers, Lines
<1>5. ASSUME NEW c \in Clients,
             \/ \E character \in Characters \cup {Nothing} : ChangeCharacter(c, character)
             \/ \E a \in Areas : ChangeArea(c, a)
      PROVE  LogStep
  BY <1>5 DEF ChangeCharacter, ChangeArea, LogStep
<1>6. ASSUME NEW c \in Clients, HelpMe(c) PROVE LogStep
  BY <1>2, <1>6 DEF HelpMe, LogStep
<1>7. ASSUME NEW c \in Clients, NEW n \in Names,
             ChatIgnored(c, n) \/ Chat(c, n) \/ Relay(c, n) \/ FlagCommand(c, n)
      PROVE  LogStep
  <2>1. LogsNothing \/ Logs(profile[c].area, c)
    BY <1>7, FlagCommandIsCommand DEF ChatIgnored, Chat, Relay, Command
  <2> QED BY <1>2, <2>1 DEF LogStep
<1> QED BY <1>1, <1>3, <1>4, <1>5, <1>6, <1>7 DEF Next

\* The buffers and what they stand for, through every line.
LEMMA LogInvStep == LogInv /\ LogStep => LogInv'
<1> SUFFICES ASSUME LogInv, LogStep PROVE LogInv'
  OBVIOUS
<1>1. CASE LogsNothing
  BY <1>1 DEF LogsNothing, LogInv, LogTypes
<1>2. ASSUME NEW b \in Buffers, NEW line \in Lines, Logs(b, line) PROVE LogInv'
  <2>1. log[b] \in Seq(Lines) /\ Len(log[b]) <= LinesKept /\ newest[b] = log[b]
    BY DEF LogInv, LogTypes
  <2>2. /\ Enqueued(log[b], line) = Newest(Append(newest[b], line))
        /\ Enqueued(log[b], line) \in Seq(Lines)
        /\ Len(Enqueued(log[b], line)) <= LinesKept
    BY <2>1, EnqueuedIsNewest
  <2>3. /\ log' = [log EXCEPT ![b] = Enqueued(log[b], line)]
        /\ newest' = [newest EXCEPT ![b] = Newest(Append(newest[b], line))]
    BY <1>2 DEF Logs
  <2>4. newest' = log'
    BY <2>2, <2>3 DEF LogInv
  <2>5. LogTypes'
    BY <2>2, <2>3 DEF LogInv, LogTypes
  <2> QED BY <2>4, <2>5 DEF LogInv
<1> QED BY <1>1, <1>2 DEF LogStep

\* Buffers of every size hold the newest lines of their area, and no others.
THEOREM BuffersAreTails == Spec => []BufferIsTail
<1>1. Init => SeenInv /\ LogInv
  <2>1. Init => SeenInv
    BY BlankIsProfile
    DEF Init, SeenInv, Types, PlayersSeen, Listed
  <2>2. Init => LogInv
    BY LogBufferAssumption
    DEF Init, LogInv, LogTypes, LogBufferAssumption, LinesKept
  <2> QED BY <2>1, <2>2
<1>2. SeenInv /\ LogInv /\ [Next]_vars => (SeenInv /\ LogInv)'
  BY SeenStep, NextLogs, LogInvStep DEF SeenInv
<1>3. SeenInv /\ LogInv => BufferIsTail
  BY DEF LogInv, BufferIsTail
<1> QED BY <1>1, <1>2, <1>3, PTL DEF Spec

=============================================================================
