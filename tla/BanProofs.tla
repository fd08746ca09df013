------------------------------ MODULE BanProofs ------------------------------
(***************************************************************************)
(* Bans for any number of clients, addresses, machines and rows: whom the  *)
(* two checks would not let in now is being sent away.                     *)
(***************************************************************************)
EXTENDS Bans, SequenceTheorems, FiniteSetTheorems, TLAPS

Hwids == Range(Hwid) \cup {NoHwid}
Rows == [ipid: Range(Ipid), hwid: Hwids, time: Nat, duration: Int]
Phases == {"none", "handshake", "session", "finished"}
Connections == [phase: Phases, hwid: Hwids, closing: BOOLEAN]

\* Nobody is in the list twice, and who is not in it has left nothing behind.
ListSound ==
  /\ list \in Seq(Clients)
  /\ \A i, j \in DOMAIN list : list[i] = list[j] => i = j
  /\ \A c \in Clients : c \notin Listed => conn[c].phase = "none"

\* No row is from the future: a ban that is lifted ends before now.
RowsSound ==
  /\ clock \in Nat
  /\ bans \in Seq(Rows)
  /\ \A k \in DOMAIN bans : bans[k].time <= clock

Inv ==
  /\ conn \in [Clients -> Connections]
  /\ ListSound /\ RowsSound
  /\ BannedAreLeaving

\* What BannedAreLeaving asks of a client whose socket is open.
Cleared(c) ==
  /\ LetOff(c, OfIpid(Ipid[c]))
  /\ InSession(c) => LetOff(c, OfHwid(conn[c].hwid))

-----------------------------------------------------------------------------
(* Sequences *)

\* What is taken out of a sequence without duplicates is not in it any more,
\* and nothing comes in.
LEMMA EntryTaken ==
  ASSUME NEW S, NEW q \in Seq(S), NEW p \in DOMAIN q,
         \A i, j \in DOMAIN q : q[i] = q[j] => i = j
  PROVE  /\ RemoveAt(q, p) \in Seq(S)
         /\ \A i, j \in DOMAIN RemoveAt(q, p) :
              RemoveAt(q, p)[i] = RemoveAt(q, p)[j] => i = j
         /\ Range(RemoveAt(q, p)) = Range(q) \ {q[p]}
<1>1. /\ Len(q) \in Nat /\ DOMAIN q = 1..Len(q)
      /\ p \in Nat /\ 1 <= p /\ p <= Len(q)
      /\ \A i \in 1..Len(q) : q[i] \in S
  BY LenProperties
<1> DEFINE front == SubSeq(q, 1, p - 1)
           back == SubSeq(q, p + 1, Len(q))
           n == Len(q) - 1
           rest == RemoveAt(q, p)
<1>2. /\ front \in Seq(S) /\ Len(front) = p - 1
      /\ \A i \in 1..(p - 1) : front[i] = q[i]
  BY <1>1, SubSeqProperties
<1>3. /\ back \in Seq(S) /\ Len(back) = Len(q) - p
      /\ \A i \in 1..(Len(q) - p) : back[i] = q[p + i]
  <2>1. /\ p + 1 \in Int /\ Len(q) \in Int
        /\ \A i \in (p + 1)..Len(q) : q[i] \in S
    BY <1>1
  <2>2. /\ back \in Seq(S)
        /\ Len(back) = IF p + 1 <= Len(q) THEN Len(q) - (p + 1) + 1 ELSE 0
        /\ \A i \in 1..(Len(q) - (p + 1) + 1) : back[i] = q[(p + 1) + i - 1]
    BY <2>1, SubSeqProperties
  <2>3. \A i \in 1..(Len(q) - p) : (p + 1) + i - 1 = p + i
    BY <1>1
  <2> HIDE DEF back
  <2> QED BY <1>1, <2>2, <2>3
<1>4. rest = front \o back
  BY DEF RemoveAt
<1> HIDE DEF front, back
<1>5. /\ rest \in Seq(S) /\ Len(rest) = n
      /\ \A i \in 1..n : rest[i] = IF i < p THEN q[i] ELSE q[i + 1]
  <2>0. front \in Seq(S) /\ back \in Seq(S)
    BY <1>2, <1>3
  <2>1. /\ front \o back \in Seq(S)
        /\ Len(front \o back) = Len(front) + Len(back)
        /\ \A i \in 1..Len(front) + Len(back) : (front \o back)[i] =
             IF i <= Len(front) THEN front[i] ELSE back[i - Len(front)]
    BY <2>0, ConcatProperties
  <2>2. Len(front) + Len(back) = n
    BY <1>1, <1>2, <1>3
  <2>3. ASSUME NEW i \in 1..n
        PROVE  (front \o back)[i] = IF i < p THEN q[i] ELSE q[i + 1]
    <3>1. CASE i < p
      <4>1. i \in 1..(p - 1) /\ i <= Len(front)
        BY <1>1, <1>2, <3>1
      <4> QED BY <1>2, <2>1, <2>2, <3>1, <4>1
    <3>2. CASE ~(i < p)
      <4>1. /\ ~(i <= Len(front))
            /\ i - Len(front) \in 1..(Len(q) - p)
            /\ p + (i - Len(front)) = i + 1
        BY <1>1, <1>2, <3>2
      <4> QED BY <1>3, <2>1, <2>2, <3>2, <4>1
    <3> QED BY <3>1, <3>2
  <2> QED BY <1>4, <2>1, <2>2, <2>3
<1>6. DOMAIN rest = 1..n
  BY <1>5, LenProperties
<1> HIDE DEF rest
<1>7. ASSUME NEW i \in 1..n, NEW j \in 1..n, rest[i] = rest[j]
      PROVE  i = j
  <2> DEFINE At(k) == IF k < p THEN k ELSE k + 1
  <2>1. \A k \in 1..n : At(k) \in 1..Len(q) /\ rest[k] = q[At(k)]
    BY <1>1, <1>5
  <2>2. At(i) = At(j)
    BY <1>1, <1>7, <2>1
  <2> QED BY <1>1, <2>2
<1>8. ASSUME NEW x PROVE x \in Range(rest) <=> x \in Range(q) \ {q[p]}
  <2>1. ASSUME x \in Range(rest) PROVE x \in Range(q) \ {q[p]}
    <3>1. PICK i \in 1..n : x = rest[i]
      BY <1>6, <2>1 DEF Range
    <3>2. PICK k \in 1..Len(q) : x = q[k] /\ k # p
      <4>1. CASE i < p
        BY <1>1, <1>5, <3>1, <4>1
      <4>2. CASE ~(i < p)
        <5>1. i + 1 \in 1..Len(q) /\ i + 1 # p
          BY <1>1, <4>2
        <5> QED BY <1>5, <3>1, <4>2, <5>1
      <4> QED BY <4>1, <4>2
    <3> QED BY <1>1, <3>2 DEF Range
  <2>2. ASSUME x \in Range(q) \ {q[p]} PROVE x \in Range(rest)
    <3>1. PICK k \in 1..Len(q) : x = q[k] /\ k # p
      BY <1>1, <2>2 DEF Range
    <3>2. CASE k < p
      <4>1. k \in 1..n
        BY <1>1, <3>2
      <4> QED BY <1>5, <1>6, <3>1, <3>2, <4>1 DEF Range
    <3>3. CASE ~(k < p)
      <4>1. k - 1 \in 1..n /\ ~(k - 1 < p) /\ (k - 1) + 1 = k
        BY <1>1, <3>1, <3>3
      <4> QED BY <1>5, <1>6, <3>1, <4>1 DEF Range
    <3> QED BY <3>2, <3>3
  <2> QED BY <2>1, <2>2
<1> QED BY <1>5, <1>6, <1>7, <1>8 DEF rest

-----------------------------------------------------------------------------
(* The list *)

LEMMA ListFinite ==
  ASSUME ListSound, NEW cs \in SUBSET Listed
  PROVE  IsFiniteSet(cs) /\ Cardinality(cs) \in Nat
<1>1. Len(list) \in Nat /\ DOMAIN list = 1..Len(list)
  BY LenProperties DEF ListSound
<1>2. IsFiniteSet(1..Len(list))
  BY <1>1, FS_Interval
<1>3. list \in Surjection(1..Len(list), Listed)
  BY <1>1, LenProperties DEF ListSound, Listed, Range, Surjection
<1>4. IsFiniteSet(Listed)
  BY <1>2, <1>3, FS_Surjection
<1>5. IsFiniteSet(cs)
  BY <1>4, FS_Subset
<1> QED BY <1>5, FS_CardinalityType

LEMMA PlaceFound ==
  ASSUME ListSound, NEW c \in Listed
  PROVE  Place(c) \in DOMAIN list /\ list[Place(c)] = c
BY DEF Place, Listed, Range

\* What is known of the clients that a ban is about.
LEMMA TargetsListed ==
  ASSUME ListSound, NEW ip, NEW targets \in InListOrder(WithIpid(ip))
  PROVE  /\ WithIpid(ip) \in SUBSET Clients
         /\ \E n \in Nat : targets \in [1..n -> Clients]
         /\ Range(targets) = WithIpid(ip)
<1>1. WithIpid(ip) \in SUBSET Listed
  BY DEF WithIpid
<1>2. Listed \subseteq Clients
  <2>1. \A i \in DOMAIN list : list[i] \in Clients
    BY LenProperties DEF ListSound
  <2> QED BY <2>1 DEF Listed, Range
<1>3. Cardinality(WithIpid(ip)) \in Nat
  BY <1>1, ListFinite
<1>4. /\ targets \in [1..Cardinality(WithIpid(ip)) -> WithIpid(ip)]
      /\ Range(targets) = WithIpid(ip)
  BY DEF InListOrder
<1> QED BY <1>1, <1>2, <1>3, <1>4

\* Who was not in the list can be put at its end.
LEMMA ClientListed ==
  ASSUME ListSound, NEW c \in Clients, c \notin Listed, list' = Append(list, c)
  PROVE  /\ list' \in Seq(Clients)
         /\ \A i, j \in DOMAIN list' : list'[i] = list'[j] => i = j
         /\ Listed' = Listed \cup {c}
<1>1. /\ Len(list) \in Nat /\ DOMAIN list = 1..Len(list)
      /\ list' \in Seq(Clients) /\ Len(list') = Len(list) + 1
      /\ \A i \in 1..Len(list) : list'[i] = list[i]
      /\ list'[Len(list) + 1] = c
  BY LenProperties, AppendProperties DEF ListSound
<1>2. DOMAIN list' = 1..(Len(list) + 1)
  BY <1>1, LenProperties
<1>3. \A i \in 1..Len(list) : list[i] # c
  BY <1>1 DEF Listed, Range
<1>4. ASSUME NEW i \in DOMAIN list', NEW j \in DOMAIN list', list'[i] = list'[j]
      PROVE  i = j
  <2>1. \A k \in DOMAIN list' : k \in 1..Len(list) \/ k = Len(list) + 1
    BY <1>1, <1>2
  <2> QED BY <1>1, <1>3, <1>4, <2>1 DEF ListSound
<1>5. \A x : x \in Listed' <=> x \in Listed \/ x = c
  <2>1. DOMAIN list' = 1..Len(list) \cup {Len(list) + 1}
    BY <1>1, <1>2
  <2> QED BY <1>1, <2>1 DEF Listed, Range
<1> QED BY <1>1, <1>4, <1>5

-----------------------------------------------------------------------------
(* What events do to connections and rows *)

\* Closing a socket is all that happens to the connections of cs.
LEMMA SocketsClosed ==
  ASSUME conn \in [Clients -> Connections], NEW cs
  PROVE  /\ Closed(cs) \in [Clients -> Connections]
         /\ \A c \in Clients :
              /\ Closed(cs)[c].phase = conn[c].phase
              /\ Closed(cs)[c].hwid = conn[c].hwid
              /\ c \in cs => Closed(cs)[c].closing
              /\ conn[c].closing => Closed(cs)[c].closing
BY DEF Closed, Connections

\* As long as the table and the clock stand still, a verdict stands.
LEMMA VerdictStands ==
  ASSUME NEW c, UNCHANGED <<bans, clock>>, spared[c] \subseteq spared'[c]
  PROVE  /\ \A ip : LetOff(c, OfIpid(ip)) => LetOff(c, OfIpid(ip))'
         /\ \A h : LetOff(c, OfHwid(h)) => LetOff(c, OfHwid(h))'
<1>1. ASSUME NEW ip PROVE LetOff(c, OfIpid(ip)) => LetOff(c, OfIpid(ip))'
  BY DEF LetOff, Newest, OfIpid, InForce
<1>2. ASSUME NEW h PROVE LetOff(c, OfHwid(h)) => LetOff(c, OfHwid(h))'
  BY DEF LetOff, Newest, OfHwid, InForce
<1> QED BY <1>1, <1>2

\* It is enough then that closed sockets stay closed, and that who comes into
\* session is not banned on its machine.
LEMMA NothingBanned ==
  ASSUME Inv, UNCHANGED <<bans, clock>>, Listed' \subseteq Listed,
         \A c \in Listed' :
           /\ spared'[c] = spared[c]
           /\ conn[c].closing => conn'[c].closing
           /\ \/ conn'[c].closing
              \/ conn'[c].phase # "session"
              \/ conn[c].phase = "session" /\ conn'[c].hwid = conn[c].hwid
              \/ NotBanned(OfHwid(conn'[c].hwid))
  PROVE  RowsSound' /\ BannedAreLeaving'
<1>1. RowsSound'
  BY DEF Inv, RowsSound
<1>2. ASSUME NEW c \in Listed', ~conn'[c].closing PROVE Cleared(c)'
  <2>1. c \in Listed /\ ~conn[c].closing /\ spared[c] \subseteq spared'[c]
    BY <1>2
  <2>2. Cleared(c)
    BY <2>1 DEF Inv, BannedAreLeaving, Cleared
  <2>3. LetOff(c, OfIpid(Ipid[c]))'
    BY <2>1, <2>2, VerdictStands DEF Cleared
  <2>4. ASSUME conn'[c].phase = "session" PROVE LetOff(c, OfHwid(conn[c].hwid))'
    <3>1. LetOff(c, OfHwid(conn'[c].hwid))
      <4>1. CASE conn[c].phase = "session" /\ conn'[c].hwid = conn[c].hwid
        BY <2>2, <4>1 DEF Cleared, InSession
      <4>2. CASE NotBanned(OfHwid(conn'[c].hwid))
        BY <4>2 DEF NotBanned, LetOff
      <4> QED BY <1>2, <2>4, <4>1, <4>2
    <3>2. PICK h : h = conn'[c].hwid
      OBVIOUS
    <3>3. LetOff(c, OfHwid(h))'
      BY <2>1, <3>1, <3>2, VerdictStands
    <3> QED BY <3>2, <3>3 DEF LetOff, OfHwid, Newest
  <2> QED BY <2>3, <2>4 DEF Cleared, InSession
<1>3. BannedAreLeaving'
  BY <1>2 DEF BannedAreLeaving, Cleared
<1> QED BY <1>1, <1>3

\* Sockets of listed clients are closed, or their phase moves on.
LEMMA ConnectionKept ==
  ASSUME Inv, UNCHANGED <<bans, list, clock, spared>>,
         conn' \in [Clients -> Connections],
         \A c \in Clients :
           /\ conn[c].closing => conn'[c].closing
           /\ conn[c].phase = "none" => conn'[c].phase = "none"
           /\ \/ conn'[c].closing
              \/ conn'[c].phase # "session"
              \/ conn[c].phase = "session" /\ conn'[c].hwid = conn[c].hwid
              \/ NotBanned(OfHwid(conn'[c].hwid))
  PROVE  Inv'
<1>1. Listed' = Listed
  BY DEF Listed
<1>2. ListSound'
  BY <1>1 DEF Inv, ListSound
<1>3. Listed \subseteq Clients
  <2>1. \A i \in DOMAIN list : list[i] \in Clients
    BY LenProperties DEF Inv, ListSound
  <2> QED BY <2>1 DEF Listed, Range
<1>4. RowsSound' /\ BannedAreLeaving'
  BY <1>1, <1>3, NothingBanned
<1> QED BY <1>2, <1>4 DEF Inv


-----------------------------------------------------------------------------
(* Connections *)

LEMMA ConnectKeeps ==
  ASSUME Inv, NEW c \in Clients, Connect(c)
  PROVE  Inv'
<1>1. Listed' = Listed \cup {c} /\ ListSound'
  <2>1. /\ list' \in Seq(Clients)
        /\ \A i, j \in DOMAIN list' : list'[i] = list'[j] => i = j
        /\ Listed' = Listed \cup {c}
    BY ClientListed DEF Connect, Inv
  <2>2. \A d \in Clients : d \notin Listed' => conn'[d].phase = "none"
    BY <2>1 DEF Connect, Inv, ListSound
  <2> QED BY <2>1, <2>2 DEF ListSound
<1>2. conn' \in [Clients -> Connections]
  BY DEF Connect, Inv, Connections, Phases
<1>3. RowsSound'
  BY DEF Connect, Inv, RowsSound
<1>4. LetOff(c, OfIpid(Ipid[c]))
  BY DEF Connect, NotBanned, LetOff
<1>5. ASSUME NEW d \in Listed', ~conn'[d].closing PROVE Cleared(d)'
  <2>1. spared[d] \subseteq spared'[d] /\ UNCHANGED <<bans, clock>>
    BY DEF Connect
  <2>2. CASE d = c
    <3>1. ~InSession(c)'
      BY DEF Connect, InSession, Inv
    <3> QED BY <1>4, <2>1, <2>2, <3>1, VerdictStands DEF Cleared
  <2>3. CASE d # c
    <3>1. d \in Listed /\ conn'[d] = conn[d]
      BY <1>1, <2>3 DEF Connect
    <3>2. Cleared(d)
      BY <1>5, <3>1 DEF Inv, BannedAreLeaving, Cleared
    <3>3. PICK h : h = conn[d].hwid
      OBVIOUS
    <3>4. InSession(d) => LetOff(d, OfHwid(h))'
      BY <2>1, <3>2, <3>3, VerdictStands DEF Cleared
    <3>5. LetOff(d, OfIpid(Ipid[d]))'
      BY <2>1, <3>2, VerdictStands DEF Cleared
    <3>6. InSession(d)' => LetOff(d, OfHwid(conn[d].hwid))'
      BY <3>1, <3>3, <3>4 DEF InSession, LetOff, OfHwid, Newest
    <3> QED BY <3>5, <3>6 DEF Cleared
  <2> QED BY <2>2, <2>3
<1>6. BannedAreLeaving'
  BY <1>5 DEF BannedAreLeaving, Cleared
<1> QED BY <1>1, <1>2, <1>3, <1>6 DEF Inv

LEMMA RemovalKeeps ==
  ASSUME Inv, NEW c \in Clients, RemoveClient(c)
  PROVE  Inv'
<1>1. c \in Listed
  BY DEF RemoveClient, Inv, ListSound
<1>2. Place(c) \in DOMAIN list /\ list[Place(c)] = c
  BY <1>1, PlaceFound DEF Inv
<1>3. /\ list' \in Seq(Clients)
      /\ \A i, j \in DOMAIN list' : list'[i] = list'[j] => i = j
      /\ Listed' = Listed \ {c}
  <2> DEFINE p == Place(c)
  <2>1. /\ list \in Seq(Clients) /\ p \in DOMAIN list /\ list[p] = c
        /\ \A i, j \in DOMAIN list : list[i] = list[j] => i = j
    BY <1>2 DEF Inv, ListSound
  <2>2. list' = RemoveAt(list, p)
    BY DEF RemoveClient
  <2> HIDE DEF p
  <2>3. /\ RemoveAt(list, p) \in Seq(Clients)
        /\ \A i, j \in DOMAIN RemoveAt(list, p) :
             RemoveAt(list, p)[i] = RemoveAt(list, p)[j] => i = j
        /\ Range(RemoveAt(list, p)) = Range(list) \ {list[p]}
    BY <2>1, EntryTaken
  <2> QED BY <2>1, <2>2, <2>3 DEF Listed
<1>4. conn' \in [Clients -> Connections]
  BY DEF RemoveClient, Inv, Connections, Phases, Hwids, Gone
<1>5. ListSound'
  <2>1. \A d \in Clients : d \notin Listed' => conn'[d].phase = "none"
    BY <1>3 DEF RemoveClient, Inv, ListSound, Gone
  <2> QED BY <1>3, <2>1 DEF ListSound
<1>6. \A d \in Listed' : conn'[d] = conn[d]
  BY <1>3 DEF RemoveClient
<1>7. RowsSound' /\ BannedAreLeaving'
  <2>1. \A d \in Listed' : d # c /\ spared'[d] = spared[d]
    BY <1>3 DEF RemoveClient
  <2> QED BY <1>3, <1>6, <2>1, NothingBanned DEF RemoveClient
<1> QED BY <1>4, <1>5, <1>7 DEF Inv

LEMMA ConnectionEventKeeps ==
  ASSUME BansAssumption, Inv, NEW c \in Clients, ConnectionEvent(c)
  PROVE  Inv'
<1> USE DEF Inv
<1>0. Hwid[c] \in Hwids
  BY DEF BansAssumption, Hwids, Range
<1>1. CASE Connect(c)
  BY <1>1, ConnectKeeps
<1>2. CASE ConnectBarred(c)
  BY <1>2, ConnectionKept DEF ConnectBarred, vars
<1>3. CASE HelloRefused(c)
  <2>1. /\ conn' \in [Clients -> Connections]
        /\ \A d \in Clients : /\ conn'[d].phase = conn[d].phase
                              /\ conn'[d].hwid = conn[d].hwid
                              /\ conn[d].closing => conn'[d].closing
    BY <1>3, SocketsClosed DEF HelloRefused
  <2>2. /\ UNCHANGED <<bans, list, clock, spared>>
        /\ \A d \in Clients : conn'[d].phase = "session" => conn[d].phase = "session"
    BY <1>3, <2>1 DEF HelloRefused
  <2> QED BY <2>1, <2>2, ConnectionKept
<1>4. CASE HelloBarred(c)
  <2> DEFINE closed == Closed({c})
  <2>1. /\ closed \in [Clients -> Connections]
        /\ \A d \in Clients : /\ closed[d].phase = conn[d].phase
                              /\ closed[d].hwid = conn[d].hwid
                              /\ conn[d].closing => closed[d].closing
        /\ closed[c].closing
    BY SocketsClosed
  <2>2. conn' = [closed EXCEPT ![c].hwid = Hwid[c]]
    BY <1>4 DEF HelloBarred
  <2> HIDE DEF closed
  <2>3. /\ conn' \in [Clients -> Connections]
        /\ \A d \in Clients : /\ conn'[d].phase = closed[d].phase
                              /\ (d = c \/ conn'[d].hwid = closed[d].hwid)
                              /\ closed[d].closing => conn'[d].closing
    BY <1>0, <2>1, <2>2 DEF Connections
  <2>4. UNCHANGED <<bans, list, clock, spared>>
    BY <1>4 DEF HelloBarred
  <2>5. \A d \in Clients :
          /\ conn[d].closing => conn'[d].closing
          /\ conn[d].phase = "none" => conn'[d].phase = "none"
          /\ \/ conn'[d].closing
             \/ conn'[d].phase # "session"
             \/ conn[d].phase = "session" /\ conn'[d].hwid = conn[d].hwid
    BY <2>1, <2>3
  <2> QED BY <2>3, <2>4, <2>5, ConnectionKept
<1>5. CASE HelloAccepted(c)
  <2>1. /\ conn' \in [Clients -> Connections]
        /\ \A d \in Clients : /\ conn'[d].closing = conn[d].closing
                              /\ conn[d].phase = "none" => conn'[d].phase = "none"
                              /\ (d = c \/ conn'[d] = conn[d])
        /\ NotBanned(OfHwid(conn'[c].hwid))
    BY <1>0, <1>5 DEF HelloAccepted, Connections, Phases
  <2> QED BY <1>5, <2>1, ConnectionKept DEF HelloAccepted
<1>6. CASE Finish(c)
  <2>1. /\ conn' \in [Clients -> Connections]
        /\ \A d \in Clients : /\ conn[d].closing => conn'[d].closing
                              /\ conn[d].phase = "none" => conn'[d].phase = "none"
                              /\ (conn'[d].closing \/ conn'[d] = conn[d])
    BY <1>6 DEF Finish, Connections, Phases
  <2> QED BY <1>6, <2>1, ConnectionKept DEF Finish
<1>7. CASE RemoveClient(c)
  BY <1>7, RemovalKeeps
<1> QED BY <1>1, <1>2, <1>3, <1>4, <1>5, <1>6, <1>7 DEF ConnectionEvent

-----------------------------------------------------------------------------
(* Bans *)

\* Rows come at the end of the table and never leave it.
RowsKept == DOMAIN bans \subseteq DOMAIN bans'

\* Rows that are all about one address decide about nobody else, and who is
\* at that address is closed in the same step.
LEMMA RowsAdded ==
  ASSUME Inv, NEW ip, NEW rows \in Seq(Rows),
         \A k \in DOMAIN rows : rows[k].ipid = ip /\ rows[k].time = clock,
         bans' = bans \o rows, conn' = Closed(WithIpid(ip)),
         SparesElsewhere(ip), UNCHANGED <<list, clock>>
  PROVE  Inv' /\ RowsKept
<1>1. /\ Len(bans) \in Nat /\ DOMAIN bans = 1..Len(bans)
      /\ Len(rows) \in Nat /\ DOMAIN rows = 1..Len(rows)
      /\ bans \in Seq(Rows)
  BY LenProperties DEF Inv, RowsSound
<1>2. /\ bans' \in Seq(Rows) /\ Len(bans') = Len(bans) + Len(rows)
      /\ \A k \in 1..Len(bans) + Len(rows) :
           bans'[k] = IF k <= Len(bans) THEN bans[k] ELSE rows[k - Len(bans)]
  BY <1>1, ConcatProperties
<1>3. DOMAIN bans' = 1..Len(bans) + Len(rows)
  BY <1>2, LenProperties
<1>4. ASSUME NEW k \in DOMAIN bans'
      PROVE  \/ k \in DOMAIN bans /\ bans'[k] = bans[k]
             \/ /\ k \notin DOMAIN bans
                /\ bans'[k].ipid = ip /\ bans'[k].time = clock
  <2>1. CASE k <= Len(bans)
    BY <1>1, <1>2, <1>3, <2>1
  <2>2. CASE ~(k <= Len(bans))
    <3>1. k - Len(bans) \in DOMAIN rows /\ k \notin DOMAIN bans
      BY <1>1, <1>3, <2>2
    <3> QED BY <1>2, <1>3, <2>2, <3>1
  <2> QED BY <2>1, <2>2
<1>5. \A k \in DOMAIN bans : k \in DOMAIN bans' /\ bans'[k] = bans[k]
  BY <1>1, <1>2, <1>3
<1>6. RowsSound'
  <2>1. \A k \in DOMAIN bans' : bans'[k].time <= clock'
    BY <1>4 DEF Inv, RowsSound
  <2> QED BY <1>2, <2>1 DEF Inv, RowsSound
<1>7. /\ conn' \in [Clients -> Connections]
      /\ \A c \in Clients : conn'[c].phase = conn[c].phase
      /\ \A c \in Clients : conn'[c].hwid = conn[c].hwid
      /\ \A c \in Clients : c \in WithIpid(ip) => conn'[c].closing
      /\ \A c \in Clients : conn[c].closing => conn'[c].closing
  BY SocketsClosed DEF Inv
<1>8. Listed' = Listed /\ Listed \subseteq Clients
  <2>1. \A i \in DOMAIN list : list[i] \in Clients
    BY LenProperties DEF Inv, ListSound
  <2> QED BY <2>1 DEF Listed, Range
<1>9. ListSound'
  BY <1>7, <1>8 DEF Inv, ListSound
<1>10. ASSUME NEW c \in Listed, ~conn'[c].closing PROVE Cleared(c)'
  <2>1. c \in Clients /\ Ipid[c] # ip /\ ~conn[c].closing
    BY <1>7, <1>8, <1>10 DEF WithIpid
  <2>2. Cleared(c)
    BY <2>1 DEF Inv, BannedAreLeaving, Cleared
  <2>3. /\ conn'[c].hwid = conn[c].hwid /\ (InSession(c)' <=> InSession(c))
        /\ spared[c] \subseteq spared'[c]
    BY <1>7, <2>1 DEF InSession, SparesElsewhere
  <2>4. LetOff(c, OfIpid(Ipid[c]))'
    <3>1. OfIpid(Ipid[c])' = OfIpid(Ipid[c])
      BY <1>4, <1>5, <2>1 DEF OfIpid
    <3>2. \A k \in OfIpid(Ipid[c]) : bans'[k] = bans[k]
      BY <1>5 DEF OfIpid
    <3> QED BY <2>2, <2>3, <3>1, <3>2 DEF Cleared, LetOff, Newest, InForce
  <2>5. ASSUME InSession(c) PROVE LetOff(c, OfHwid(conn[c].hwid))'
    <3> DEFINE mine == OfHwid(conn[c].hwid)
    <3>1. CASE \E k \in DOMAIN bans' \ DOMAIN bans : bans'[k].hwid = conn[c].hwid
      <4>1. PICK k \in DOMAIN bans' \ DOMAIN bans : bans'[k].hwid = conn[c].hwid
        BY <3>1
      <4>2. k \in mine' /\ k \in spared'[c]
        BY <2>1, <2>3, <2>5, <4>1 DEF OfHwid, SparesElsewhere
      <4>3. \A j \in mine' : bans'[j].time <= bans'[k].time
        BY <1>4, <1>6, <4>1 DEF OfHwid, RowsSound
      <4>4. k \in Newest(mine)'
        BY <4>2, <4>3 DEF Newest
      <4> QED BY <4>2, <4>4 DEF LetOff
    <3>2. CASE ~\E k \in DOMAIN bans' \ DOMAIN bans : bans'[k].hwid = conn[c].hwid
      <4>1. mine' = mine
        BY <1>4, <1>5, <2>3, <3>2 DEF OfHwid
      <4>2. \A k \in mine : bans'[k] = bans[k]
        BY <1>5 DEF OfHwid
      <4>3. LetOff(c, mine)
        BY <2>2, <2>5 DEF Cleared
      <4> HIDE DEF mine
      <4>4. LetOff(c, mine)'
        BY <2>3, <4>1, <4>2, <4>3 DEF LetOff, Newest, InForce
      <4> QED BY <4>4 DEF mine
    <3> QED BY <3>1, <3>2
  <2> QED BY <2>3, <2>4, <2>5 DEF Cleared
<1>11. BannedAreLeaving'
  BY <1>8, <1>10 DEF BannedAreLeaving, Cleared
<1> QED BY <1>5, <1>6, <1>7, <1>9, <1>11 DEF Inv, RowsKept

LEMMA BanKeeps ==
  ASSUME BansAssumption, Inv, NEW m \in Clients, NEW ip \in Range(Ipid),
         NEW d \in Times, Ban(m, ip, d)
  PROVE  Inv' /\ RowsKept
<1>1. PICK targets \in InListOrder(WithIpid(ip)) :
        /\ bans' = bans \o <<Row(ip, FirstHwid(targets), d)>>
        /\ conn' = Closed(Range(targets))
        /\ SparesElsewhere(ip)
        /\ UNCHANGED <<list, clock>>
  BY DEF Ban, AddBans
<1>2. /\ \E n \in Nat : targets \in [1..n -> Clients]
      /\ Range(targets) = WithIpid(ip)
  BY TargetsListed DEF Inv
<1>3. FirstHwid(targets) \in Hwids
  <2>1. CASE targets = << >>
    BY <2>1 DEF FirstHwid, Hwids
  <2>2. CASE targets # << >>
    <3>1. PICK n \in Nat : targets \in [1..n -> Clients]
      BY <1>2
    <3>2. targets \in Seq(Clients)
      BY <3>1
    <3>3. targets[1] \in Clients
      BY <2>2, <3>2
    <3>4. conn[targets[1]].hwid \in Hwids
      BY <3>3 DEF Inv, Connections
    <3> QED BY <2>2, <3>4 DEF FirstHwid
  <2> QED BY <2>1, <2>2
<1> DEFINE row == Row(ip, FirstHwid(targets), d)
<1>4. row \in Rows /\ row.ipid = ip /\ row.time = clock
  BY <1>3 DEF Row, Rows, BansAssumption, Inv, RowsSound
<1> HIDE DEF row
<1>5. /\ <<row>> \in Seq(Rows)
      /\ \A k \in DOMAIN <<row>> : <<row>>[k].ipid = ip /\ <<row>>[k].time = clock
  BY <1>4
<1>6. bans' = bans \o <<row>> /\ conn' = Closed(WithIpid(ip))
  BY <1>1, <1>2 DEF row
<1> QED BY <1>1, <1>5, <1>6, RowsAdded

LEMMA SecondsTyped ==
  ASSUME BansAssumption, NEW d \in Minutes
  PROVE  Seconds(d) \in Int
<1>1. d \in Int /\ Minute \in Int /\ Permanent \in Int
  BY DEF BansAssumption
<1>2. d * Minute \in Int
  BY <1>1
<1> QED BY <1>1, <1>2 DEF Seconds

LEMMA PacketBanKeeps ==
  ASSUME BansAssumption, Inv, NEW m \in Clients, NEW t \in Clients,
         NEW d \in Minutes, PacketBan(m, t, d)
  PROVE  Inv' /\ RowsKept
<1> DEFINE ip == Ipid[t]
<1>1. PICK targets \in InListOrder(WithIpid(ip)) :
        /\ bans' = bans \o [k \in DOMAIN targets |->
                              Row(ip, conn[targets[k]].hwid, Seconds(d))]
        /\ conn' = Closed(Range(targets))
        /\ SparesElsewhere(ip)
        /\ UNCHANGED <<list, clock>>
  BY DEF PacketBan, AddBans
<1>2. ip \in Range(Ipid)
  BY DEF BansAssumption, Range
<1> HIDE DEF ip
<1>3. PICK n \in Nat : targets \in [1..n -> Clients]
  BY TargetsListed DEF Inv
<1>4. Range(targets) = WithIpid(ip)
  BY TargetsListed DEF Inv
<1>5. Seconds(d) \in Int
  BY SecondsTyped
<1> DEFINE row(k) == Row(ip, conn[targets[k]].hwid, Seconds(d))
           rows == [k \in 1..n |-> row(k)]
<1>6. \A k \in 1..n : row(k) \in Rows /\ row(k).ipid = ip /\ row(k).time = clock
  <2>1. \A k \in 1..n : conn[targets[k]].hwid \in Hwids
    BY <1>3 DEF Inv, Connections
  <2> QED BY <1>2, <1>5, <2>1 DEF Row, Rows, Inv, RowsSound
<1>7. bans' = bans \o rows
  BY <1>1, <1>3
<1> HIDE DEF row
<1>8. /\ rows \in Seq(Rows)
      /\ \A k \in DOMAIN rows : rows[k].ipid = ip /\ rows[k].time = clock
  BY <1>6
<1> HIDE DEF rows
<1> QED BY <1>1, <1>4, <1>7, <1>8, RowsAdded

\* A duration that changes is held against nobody who is there: a ban that is
\* lifted is over, and one that is changed otherwise is spared.
LEMMA DurationChanged ==
  ASSUME BansAssumption, Inv, NEW k \in DOMAIN bans, NEW d \in Int,
         bans' = [bans EXCEPT ![k].duration = d],
         \A c \in Clients : /\ spared[c] \subseteq spared'[c]
                            /\ d = 0 \/ (Concerns(k, c) => k \in spared'[c]),
         UNCHANGED <<list, conn, clock>>
  PROVE  Inv'
<1>1. /\ Len(bans) \in Nat /\ DOMAIN bans = 1..Len(bans)
      /\ bans \in [1..Len(bans) -> Rows]
  BY LenProperties DEF Inv, RowsSound
<1>2. /\ bans' \in [1..Len(bans) -> Rows]
      /\ \A j \in DOMAIN bans : /\ bans'[j].ipid = bans[j].ipid
                                /\ bans'[j].time = bans[j].time
                                /\ j # k => bans'[j] = bans[j]
      /\ bans'[k].duration = d
  BY <1>1 DEF Rows
<1>3. DOMAIN bans' = DOMAIN bans
  BY <1>1
<1>4. RowsSound'
  <2>1. bans' \in Seq(Rows)
    BY <1>1, <1>2
  <2>2. \A j \in DOMAIN bans' : bans'[j].time <= clock'
    BY <1>2, <1>3 DEF Inv, RowsSound
  <2> QED BY <2>1, <2>2 DEF Inv, RowsSound
<1>5. Listed' = Listed
  BY DEF Listed
<1>6. ListSound'
  BY <1>5 DEF Inv, ListSound
<1>7. Listed \subseteq Clients
  <2>1. \A i \in DOMAIN list : list[i] \in Clients
    BY LenProperties DEF Inv, ListSound
  <2> QED BY <2>1 DEF Listed, Range
<1>8. ASSUME d = 0 PROVE ~InForce(k)'
  <2>1. ~(0 <= Permanent)
    BY DEF BansAssumption
  <2>2. bans[k].time \in Nat /\ clock \in Nat /\ bans[k].time <= clock
    BY <1>1 DEF Inv, RowsSound, Rows
  <2>3. bans'[k].duration = 0 /\ bans'[k].time = bans[k].time
    BY <1>2, <1>8
  <2> QED BY <2>1, <2>2, <2>3 DEF InForce
<1>9. ASSUME NEW c \in Listed, NEW R \in SUBSET DOMAIN bans,
             k \in R => Concerns(k, c),
             NEW j \in R, \A i \in R : bans[i].time <= bans[j].time,
             ~InForce(j) \/ j \in spared[c]
      PROVE  /\ \A i \in R : bans'[i].time <= bans'[j].time
             /\ ~InForce(j)' \/ j \in spared'[c]
  <2>1. \A i \in R : bans'[i].time <= bans'[j].time
    BY <1>2, <1>9
  <2>2. CASE j = k
    BY <1>7, <1>8, <1>9, <2>1, <2>2
  <2>3. CASE j # k
    <3>1. bans'[j] = bans[j]
      BY <1>2, <1>9, <2>3
    <3>2. InForce(j)' <=> InForce(j)
      BY <3>1 DEF InForce
    <3> QED BY <1>7, <1>9, <2>1, <3>2
  <2> QED BY <2>1, <2>2, <2>3
<1>10. ASSUME NEW c \in Listed, ~conn'[c].closing PROVE Cleared(c)'
  <2>1. Cleared(c)
    BY <1>10 DEF Inv, BannedAreLeaving, Cleared
  <2>2. LetOff(c, OfIpid(Ipid[c]))'
    <3>1. PICK R : R = OfIpid(Ipid[c])
      OBVIOUS
    <3>2. OfIpid(Ipid[c])' = R /\ R \in SUBSET DOMAIN bans
      BY <1>2, <1>3, <3>1 DEF OfIpid
    <3>3. k \in R => Concerns(k, c)
      BY <3>1 DEF OfIpid, Concerns
    <3>4. CASE R = {}
      BY <3>2, <3>4 DEF LetOff
    <3>5. CASE R # {}
      <4>1. PICK j \in R : /\ \A i \in R : bans[i].time <= bans[j].time
                           /\ ~InForce(j) \/ j \in spared[c]
        BY <2>1, <3>1, <3>5 DEF Cleared, LetOff, Newest
      <4>2. /\ \A i \in R : bans'[i].time <= bans'[j].time
            /\ ~InForce(j)' \/ j \in spared'[c]
        BY <1>9, <3>2, <3>3, <4>1
      <4> QED BY <3>2, <4>2 DEF LetOff, Newest
    <3> QED BY <3>4, <3>5
  <2>3. ASSUME InSession(c) PROVE LetOff(c, OfHwid(conn[c].hwid))'
    <3>1. PICK R : R = OfHwid(conn[c].hwid)
      OBVIOUS
    <3>2. OfHwid(conn[c].hwid)' = R /\ R \in SUBSET DOMAIN bans
      BY <1>2, <1>3, <3>1 DEF OfHwid
    <3>3. k \in R => Concerns(k, c)
      BY <2>3, <3>1 DEF OfHwid, Concerns
    <3>4. CASE R = {}
      BY <3>2, <3>4 DEF LetOff
    <3>5. CASE R # {}
      <4>1. PICK j \in R : /\ \A i \in R : bans[i].time <= bans[j].time
                           /\ ~InForce(j) \/ j \in spared[c]
        BY <2>1, <2>3, <3>1, <3>5 DEF Cleared, LetOff, Newest
      <4>2. /\ \A i \in R : bans'[i].time <= bans'[j].time
            /\ ~InForce(j)' \/ j \in spared'[c]
        BY <1>9, <3>2, <3>3, <4>1
      <4> QED BY <3>2, <4>2 DEF LetOff, Newest
    <3> QED BY <3>4, <3>5
  <2> QED BY <2>2, <2>3 DEF Cleared, InSession
<1>11. BannedAreLeaving'
  BY <1>5, <1>10 DEF BannedAreLeaving, Cleared
<1> QED BY <1>4, <1>6, <1>11 DEF Inv

LEMMA TickKeeps ==
  ASSUME BansAssumption, Inv, Tick
  PROVE  Inv'
<1>1. /\ bans \in [1..Len(bans) -> Rows] /\ DOMAIN bans = 1..Len(bans)
      /\ clock \in Nat /\ clock' = clock + 1
      /\ UNCHANGED <<bans, list, conn, spared>>
  BY LenProperties DEF Tick, Inv, RowsSound
<1>2. \A k \in DOMAIN bans : bans[k].time \in Nat /\ bans[k].duration \in Int
  BY <1>1 DEF Rows
<1>3. RowsSound'
  BY <1>1, <1>2 DEF Inv, RowsSound
<1>4. Listed' = Listed
  BY <1>1 DEF Listed
<1>5. ListSound'
  BY <1>1, <1>4 DEF Inv, ListSound
<1>6. \A k \in DOMAIN bans : InForce(k)' => InForce(k)
  BY <1>1, <1>2 DEF InForce
<1>7. ASSUME NEW c PROVE Cleared(c) => Cleared(c)'
  <2>1. LetOff(c, OfIpid(Ipid[c])) => LetOff(c, OfIpid(Ipid[c]))'
    BY <1>1, <1>6 DEF LetOff, Newest, OfIpid
  <2>2. LetOff(c, OfHwid(conn[c].hwid)) => LetOff(c, OfHwid(conn[c].hwid))'
    BY <1>1, <1>6 DEF LetOff, Newest, OfHwid
  <2> QED BY <1>1, <2>1, <2>2 DEF Cleared, InSession
<1>8. BannedAreLeaving'
  BY <1>1, <1>4, <1>7 DEF Inv, BannedAreLeaving, Cleared
<1> QED BY <1>1, <1>3, <1>5, <1>8 DEF Inv

LEMMA ModerationEventKeeps ==
  ASSUME BansAssumption, Inv, NEW m \in Clients, ModerationEvent(m)
  PROVE  Inv'
<1>1. ASSUME NEW cs, conn' = Closed(cs), UNCHANGED <<bans, list, clock, spared>>
      PROVE  Inv'
  <2>1. /\ conn' \in [Clients -> Connections]
        /\ \A d \in Clients : /\ conn'[d].phase = conn[d].phase
                              /\ conn'[d].hwid = conn[d].hwid
                              /\ conn[d].closing => conn'[d].closing
    BY <1>1, SocketsClosed DEF Inv
  <2>2. \A d \in Clients : conn'[d].phase = "session" => conn[d].phase = "session"
    BY <2>1
  <2> QED BY <1>1, <2>1, <2>2, ConnectionKept
<1>2. ASSUME NEW ip \in Range(Ipid), Kick(m, ip) PROVE Inv'
  BY <1>1, <1>2 DEF Kick
<1>3. ASSUME NEW t \in Clients, KickUid(m, t) PROVE Inv'
  BY <1>1, <1>3 DEF KickUid
<1>4. ASSUME KickOther(m) PROVE Inv'
  BY <1>1, <1>4 DEF KickOther
<1>5. ASSUME NEW k \in 1..MaxBans, UnBan(m, k) PROVE Inv'
  <2>1. /\ k \in DOMAIN bans /\ 0 \in Int
        /\ bans' = [bans EXCEPT ![k].duration = 0]
        /\ UNCHANGED <<list, conn, clock, spared>>
    BY <1>5 DEF UnBan
  <2> QED BY <2>1, DurationChanged
<1>6. ASSUME NEW k \in 1..MaxBans, NEW d \in Times, UpdateBan(m, k, d) PROVE Inv'
  <2>1. d \in Int
    BY DEF BansAssumption
  <2>2. /\ k \in DOMAIN bans
        /\ bans' = [bans EXCEPT ![k].duration = d]
        /\ UNCHANGED <<list, conn, clock>>
    BY <1>6 DEF UpdateBan
  <2>3. \A c \in Clients : /\ spared[c] \subseteq spared'[c]
                           /\ Concerns(k, c) => k \in spared'[c]
    BY <1>6 DEF UpdateBan
  <2> QED BY <2>1, <2>2, <2>3, DurationChanged
<1> QED BY <1>2, <1>3, <1>4, <1>5, <1>6, BanKeeps, PacketBanKeeps DEF ModerationEvent

-----------------------------------------------------------------------------

LEMMA InitInv ==
  ASSUME BansAssumption, Init
  PROVE  Inv
<1>1. list = << >> /\ bans = << >> /\ Listed = {}
  BY DEF Init, Listed, Range
<1>2. conn \in [Clients -> Connections]
  BY DEF Init, Gone, Connections, Phases, Hwids
<1>3. ListSound
  BY <1>1 DEF ListSound, Init, Gone
<1>4. RowsSound
  BY <1>1 DEF RowsSound, Init
<1>5. BannedAreLeaving
  BY <1>1 DEF BannedAreLeaving
<1> QED BY <1>2, <1>3, <1>4, <1>5 DEF Inv

LEMMA NextInv ==
  ASSUME BansAssumption, Inv, [Next]_vars
  PROVE  Inv'
<1>1. ASSUME NEW c \in Clients, ConnectionEvent(c) PROVE Inv'
  BY <1>1, ConnectionEventKeeps
<1>2. ASSUME NEW c \in Clients, ModerationEvent(c) PROVE Inv'
  BY <1>2, ModerationEventKeeps
<1>3. CASE Tick
  BY <1>3, TickKeeps
<1>4. CASE UNCHANGED vars
  BY <1>4, ConnectionKept DEF vars, Inv
<1> QED BY <1>1, <1>2, <1>3, <1>4 DEF Next

\* Whom the two checks would not let in now is being sent away, for any number
\* of clients that share addresses and machines, and any durations: somebody
\* stays against a ban only where the code lets it be.
THEOREM BannedLeave == Spec => []BannedAreLeaving
<1>1. Init => Inv
  BY InitInv, BansAssumption
<1>2. Inv /\ [Next]_vars => Inv'
  BY NextInv, BansAssumption
<1>3. Inv => BannedAreLeaving
  BY DEF Inv
<1> QED BY <1>1, <1>2, <1>3, PTL DEF Spec

-----------------------------------------------------------------------------
(* Types *)

\* What the bound on the clock and the history of spared clients add to Inv.
Bounds == clock <= MaxClock /\ spared \in [Clients -> SUBSET DOMAIN bans]

LEMMA BoundsStep ==
  ASSUME BansAssumption, Inv, Bounds, [Next]_vars
  PROVE  Bounds'
<1>1. CASE Tick
  BY <1>1 DEF Tick, Bounds, BansAssumption, Inv, RowsSound
<1>2. CASE UNCHANGED <<bans, clock, spared>>
  BY <1>2 DEF Bounds
<1>3. ASSUME NEW c \in Clients, RemoveClient(c)
      PROVE  Bounds'
  BY <1>3 DEF RemoveClient, Bounds
<1>4. ASSUME NEW m \in Clients, NEW k, UnBan(m, k) \/ \E d \in Times : UpdateBan(m, k, d)
      PROVE  Bounds'
  BY <1>4 DEF UnBan, UpdateBan, Bounds
<1>5. ASSUME NEW m \in Clients,
             \/ \E ip \in Range(Ipid), d \in Times : Ban(m, ip, d)
             \/ \E t \in Clients, d \in Minutes : PacketBan(m, t, d)
      PROVE  Bounds'
  <2>1. RowsKept
    BY <1>5, BanKeeps, PacketBanKeeps
  <2>2. clock' = clock /\ \E ip : SparesElsewhere(ip)
    BY <1>5 DEF Ban, PacketBan
  <2> QED BY <2>1, <2>2 DEF Bounds, RowsKept, SparesElsewhere
<1> QED BY <1>1, <1>2, <1>3, <1>4, <1>5
        DEF Next, vars, ConnectionEvent, ModerationEvent, Connect, ConnectBarred,
            HelloRefused, HelloBarred, HelloAccepted, Finish, Kick,
            KickUid, KickOther

\* Rows and connections are what the database and AOClient hold, and no row
\* is from after the clock; only rows that exist were ever spared.
THEOREM TypeCorrect == Spec => []TypeOK
<1>1. Init => Bounds
  BY BansAssumption DEF Init, Bounds, BansAssumption
<1>2. Inv /\ Bounds => TypeOK
  <2> SUFFICES ASSUME Inv, Bounds PROVE TypeOK
    OBVIOUS
  <2> DEFINE Row0 == [ipid: Range(Ipid), hwid: Hwids, time: 0..MaxClock, duration: Int]
  <2>1. /\ Len(bans) \in Nat /\ DOMAIN bans = 1..Len(bans)
        /\ \A k \in 1..Len(bans) : bans[k] \in Rows /\ bans[k].time <= clock
        /\ bans = [k \in 1..Len(bans) |-> bans[k]]
    BY LenProperties DEF Inv, RowsSound
  <2>2. clock \in Nat /\ MaxClock \in Nat /\ clock <= MaxClock
    BY BansAssumption DEF Inv, RowsSound, Bounds, BansAssumption
  <2>3. \A k \in 1..Len(bans) : bans[k] \in Row0
    BY <2>1, <2>2 DEF Rows
  <2> HIDE DEF Row0
  <2>4. bans \in Seq(Row0)
    BY <2>1, <2>3
  <2> QED BY <2>2, <2>4 DEF TypeOK, Inv, ListSound, Connections, Phases, Hwids, Bounds, Row0
<1> QED BY <1>1, <1>2, InitInv, NextInv, BoundsStep, BansAssumption, PTL DEF Spec

=============================================================================
