-------------------------------- MODULE Bans --------------------------------
(***************************************************************************)
(* Bans and kicks: the rows of table BANS, the checks of an address on     *)
(* connection (isIPBanned) and of the hardware id in Hello (isHDIDBanned), *)
(* and the commands and the packet that give, lift and change bans and     *)
(* close connections.  Server's registry appears as the ordered list of    *)
(* clients only; ids and areas are in Server.  The clock moves on its own  *)
(* between events.                                                         *)
(***************************************************************************)
EXTENDS Integers, Sequences, SequencesExt

CONSTANTS
  Clients,      \* AOClient objects
  Ipid,         \* m_ipid of each client
  Hwid,         \* the hardware id each client sends in Hello
  NoHwid,       \* the empty hardware id
  Moderators,   \* clients that may kick and ban
  Permanent,    \* kal::PermanentModerationActionDuration
  Minute,       \* ticks of the clock in a minute, 60 in the code
  Times,        \* what parseTime makes of the durations moderators type
  Minutes,      \* the durations of ModerationAction packets
  MaxBans,      \* bound on the rows of the table
  MaxClock      \* bound on the clock

ASSUME BansAssumption ==
  /\ DOMAIN Ipid = Clients /\ DOMAIN Hwid = Clients
  /\ Moderators \subseteq Clients
  /\ NoHwid \notin Range(Hwid)
  /\ Permanent \in Int /\ Permanent < 0
  /\ Minute \in Nat \ {0}
  /\ Times \subseteq Int /\ Minutes \subseteq Int
  /\ MaxBans \in Nat /\ MaxClock \in Nat

VARIABLES
  bans,      \* table BANS; the ID of a row is its position (AUTOINCREMENT)
  list,      \* m_client_list, in the order of connection
  conn,      \* phase, hardware id and closed socket of each client
  clock,     \* seconds since the epoch
  spared     \* history: the bans about each client that came into force
             \* while it was there and sent it nowhere

vars == <<bans, list, conn, clock, spared>>

Gone == [phase |-> "none", hwid |-> NoHwid, closing |-> FALSE]

Init ==
  /\ bans = << >>
  /\ list = << >>
  /\ conn = [c \in Clients |-> Gone]
  /\ clock = 0
  /\ spared = [c \in Clients |-> {}]

-----------------------------------------------------------------------------
(* The database *)

Listed == Range(list)
Place(c) == CHOOSE i \in DOMAIN list : list[i] = c
InSession(c) == conn[c].phase = "session"

OfIpid(ip) == {k \in DOMAIN bans : bans[k].ipid = ip}
OfHwid(h) == {k \in DOMAIN bans : bans[k].hwid = h}

Newest(rows) == {k \in rows : \A j \in rows : bans[j].time <= bans[k].time}

\* The verdict on the row that the query returned first.  A duration below
\* Permanent is raised to it.
InForce(k) ==
  \/ bans[k].duration <= Permanent
  \/ bans[k].time + bans[k].duration > clock

\* isIPBanned and isHDIDBanned look at one row, the newest; which one, when
\* several are of the same second, is up to the database.
Banned(rows) == \E k \in Newest(rows) : InForce(k)
NotBanned(rows) == rows = {} \/ \E k \in Newest(rows) : ~InForce(k)

\* addBan, for rows given at this moment.
Row(ip, h, d) == [ipid |-> ip, hwid |-> h, time |-> clock, duration |-> d]

AddBans(rows) ==
  /\ Len(bans) + Len(rows) <= MaxBans
  /\ bans' = bans \o rows

-----------------------------------------------------------------------------
(* Connections *)

Closed(cs) == [c \in Clients |-> IF c \in cs THEN [conn[c] EXCEPT !.closing = TRUE]
                                 ELSE conn[c]]

\* Server::clientConnected past its other refusals; a banned address leaves
\* no trace.
ConnectBarred(c) ==
  /\ c \notin Listed
  /\ Banned(OfIpid(Ipid[c]))
  /\ UNCHANGED vars

Connect(c) ==
  /\ c \notin Listed
  /\ NotBanned(OfIpid(Ipid[c]))
  /\ list' = Append(list, c)
  /\ conn' = [conn EXCEPT ![c].phase = "handshake"]
  /\ UNCHANGED <<bans, clock, spared>>

\* A Hello that is refused before the hardware id counts, or a second one.
HelloRefused(c) ==
  /\ conn[c].phase = "handshake"
  /\ conn' = Closed({c})
  /\ UNCHANGED <<bans, list, clock, spared>>

HelloBarred(c) ==
  /\ conn[c].phase = "handshake" /\ conn[c].hwid = NoHwid
  /\ Banned(OfHwid(Hwid[c]))
  /\ conn' = [Closed({c}) EXCEPT ![c].hwid = Hwid[c]]
  /\ UNCHANGED <<bans, list, clock, spared>>

\* Whether packets that wait in a closed socket are still delivered is up to
\* the network library: closing is no obstacle.
HelloAccepted(c) ==
  /\ conn[c].phase = "handshake" /\ conn[c].hwid = NoHwid
  /\ NotBanned(OfHwid(Hwid[c]))
  /\ conn' = [conn EXCEPT ![c].hwid = Hwid[c], ![c].phase = "session"]
  /\ UNCHANGED <<bans, list, clock, spared>>

\* finishSession, then the queued removeClient.
Finish(c) ==
  /\ conn[c].phase \in {"handshake", "session"}
  /\ conn' = [conn EXCEPT ![c].phase = "finished", ![c].closing = TRUE]
  /\ UNCHANGED <<bans, list, clock, spared>>

RemoveClient(c) ==
  /\ conn[c].phase = "finished"
  /\ list' = RemoveAt(list, Place(c))
  /\ conn' = [conn EXCEPT ![c] = Gone]
  /\ spared' = [spared EXCEPT ![c] = {}]
  /\ UNCHANGED <<bans, clock>>

-----------------------------------------------------------------------------
(* Kicks and bans *)

WithIpid(ip) == {c \in Listed : Ipid[c] = ip}
WithHwid(h) == {c \in Listed : conn[c].hwid = h}

\* The order in which clientListByIpid returns them: the one sequence that
\* has all of cs, once each, as they stand in the list.
InListOrder(cs) ==
  {s \in [1..Cardinality(cs) -> cs] :
     /\ Range(s) = cs
     /\ \A i, j \in DOMAIN s : i < j => Place(s[i]) < Place(s[j])}

\* The hardware id of the first of them, or none when nobody is connected.
FirstHwid(targets) ==
  IF targets = << >> THEN NoHwid ELSE conn[targets[1]].hwid

\* Clients in session elsewhere, on a machine that a new row names, are let be.
SparesElsewhere(ip) ==
  spared' = [c \in Clients |->
               spared[c] \cup {k \in DOMAIN bans' \ DOMAIN bans :
                               /\ InSession(c) /\ Ipid[c] # ip
                               /\ bans'[k].hwid = conn[c].hwid}]

\* Mutant: only the client whose data went into the row is sent away.
BanClosingOne(m, ip, d) ==
  \E targets \in InListOrder(WithIpid(ip)) :
    /\ InSession(m) /\ m \in Moderators
    /\ d # -1
    /\ AddBans(<<Row(ip, FirstHwid(targets), d)>>)
    /\ conn' = Closed(IF targets = << >> THEN {} ELSE {targets[1]})
    /\ SparesElsewhere(ip)
    /\ UNCHANGED <<list, clock>>

\* /ban: one row for the address, and all its clients are closed.
Ban(m, ip, d) ==
  \E targets \in InListOrder(WithIpid(ip)) :
    /\ InSession(m) /\ m \in Moderators
    /\ d # -1
    /\ AddBans(<<Row(ip, FirstHwid(targets), d)>>)
    /\ conn' = Closed(Range(targets))
    /\ SparesElsewhere(ip)
    /\ UNCHANGED <<list, clock>>

Seconds(d) == IF d = Permanent THEN Permanent ELSE d * Minute

\* A ModerationAction packet with a duration: one row per client of the
\* target's address.
PacketBan(m, t, d) ==
  \E targets \in InListOrder(WithIpid(Ipid[t])) :
    /\ InSession(m) /\ m \in Moderators
    /\ d >= Permanent /\ d # 0
    /\ t \in Listed
    /\ AddBans([k \in DOMAIN targets |->
                  Row(Ipid[t], conn[targets[k]].hwid, Seconds(d))])
    /\ conn' = Closed(Range(targets))
    /\ SparesElsewhere(Ipid[t])
    /\ UNCHANGED <<list, clock>>

\* /kick, and a ModerationAction packet of duration 0.
Kick(m, ip) ==
  /\ InSession(m) /\ m \in Moderators
  /\ conn' = Closed(WithIpid(ip))
  /\ UNCHANGED <<bans, list, clock, spared>>

KickUid(m, t) ==
  /\ InSession(m) /\ m \in Moderators
  /\ t \in Listed
  /\ conn' = Closed({t})
  /\ UNCHANGED <<bans, list, clock, spared>>

\* /kick_other, open to everybody: the caller's other clients.
KickOther(c) ==
  /\ InSession(c)
  /\ conn' = Closed((WithIpid(Ipid[c]) \cup WithHwid(conn[c].hwid)) \ {c})
  /\ UNCHANGED <<bans, list, clock, spared>>

UnBan(m, k) ==
  /\ InSession(m) /\ m \in Moderators
  /\ k \in DOMAIN bans
  /\ bans' = [bans EXCEPT ![k].duration = 0]
  /\ UNCHANGED <<list, conn, clock, spared>>

\* The ban would have kept c out, when it connected or at its Hello.
Concerns(k, c) ==
  \/ c \in Listed /\ bans[k].ipid = Ipid[c]
  \/ InSession(c) /\ bans[k].hwid = conn[c].hwid

\* /update_ban k duration d.  An id without a row is "updated" too, which
\* changes nothing, and nobody is sent away.
UpdateBan(m, k, d) ==
  /\ InSession(m) /\ m \in Moderators
  /\ d # -1
  /\ k \in DOMAIN bans
  /\ bans' = [bans EXCEPT ![k].duration = d]
  /\ spared' = [c \in Clients |-> IF Concerns(k, c) THEN spared[c] \cup {k}
                                 ELSE spared[c]]
  /\ UNCHANGED <<list, conn, clock>>

Tick ==
  /\ clock < MaxClock
  /\ clock' = clock + 1
  /\ UNCHANGED <<bans, list, conn, spared>>

-----------------------------------------------------------------------------

ConnectionEvent(c) ==
  Connect(c) \/ ConnectBarred(c) \/ HelloRefused(c)
    \/ HelloBarred(c) \/ HelloAccepted(c) \/ Finish(c) \/ RemoveClient(c)

ModerationEvent(m) ==
  \/ \E ip \in Range(Ipid) : Kick(m, ip) \/ \E d \in Times : Ban(m, ip, d)
  \/ \E t \in Clients : KickUid(m, t) \/ \E d \in Minutes : PacketBan(m, t, d)
  \/ \E k \in 1..MaxBans : UnBan(m, k) \/ \E d \in Times : UpdateBan(m, k, d)
  \/ KickOther(m)

Next ==
  \/ \E c \in Clients : ConnectionEvent(c) \/ ModerationEvent(c)
  \/ Tick

Spec == Init /\ [][Next]_vars

-----------------------------------------------------------------------------
(* What bans achieve *)

\* Rows and connections have the types the database and AOClient give them.
TypeOK ==
  /\ bans \in Seq([ipid: Range(Ipid), hwid: Range(Hwid) \cup {NoHwid},
                   time: 0..MaxClock, duration: Int])
  /\ list \in Seq(Clients)
  /\ conn \in [Clients -> [phase: {"none", "handshake", "session", "finished"},
                           hwid: Range(Hwid) \cup {NoHwid}, closing: BOOLEAN]]
  /\ clock \in 0..MaxClock
  /\ spared \in [Clients -> SUBSET DOMAIN bans]

\* None of these rows is about c, or one of the newest, which is the one that
\* the query may return, has ended or is one that c was spared.
LetOff(c, rows) ==
  rows = {} \/ \E k \in Newest(rows) : ~InForce(k) \/ k \in spared[c]

\* Nobody stays whom the two checks would not let in now: not from a banned
\* address, and not in session on a banned machine, whatever happened between
\* connection and Hello.  Two kinds of bans are enforced at the next connection
\* only: one that /update_ban changes while the client is there, and one of
\* its machine that is given to another address.
BannedAreLeaving ==
  \A c \in Listed :
    \/ conn[c].closing
    \/ /\ LetOff(c, OfIpid(Ipid[c]))
       /\ InSession(c) => LetOff(c, OfHwid(conn[c].hwid))

=============================================================================
