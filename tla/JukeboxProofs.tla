--------------------------- MODULE JukeboxProofs ----------------------------
(***************************************************************************)
(* Jukebox for every set of songs: the song lists agree, and the timer and *)
(* the queue of the jukebox stay in step.                                  *)
(***************************************************************************)
EXTENDS Jukebox, SequenceTheorems, TLAPS

\* What the variables hold, as far as the proofs need it.
Types ==
  /\ queue \in Seq(Names \cup {Stop})
  /\ rootEnabled \in BOOLEAN
  /\ jukebox \in BOOLEAN
  /\ ticking \in BOOLEAN

ListInv == ListsAgree /\ NoNameTwice
QueueInv == TimerFollowsQueue /\ QueuedOnce

-----------------------------------------------------------------------------
(* Sequences without duplicates *)

\* A new element at the end of a sequence without duplicates.
LEMMA AppendOnce ==
  ASSUME NEW S, NEW q \in Seq(S), NEW e \in S, IsInjective(q), e \notin Range(q)
  PROVE  /\ Append(q, e) \in Seq(S)
         /\ Append(q, e) # << >>
         /\ IsInjective(Append(q, e))
<1> DEFINE p == Append(q, e)
<1>1. /\ p \in Seq(S)
      /\ p # << >>
      /\ Len(p) = Len(q) + 1
      /\ \A j \in 1..Len(q) : p[j] = q[j]
      /\ p[Len(q) + 1] = e
  BY AppendProperties
<1>2. Len(q) \in Nat /\ DOMAIN q = 1..Len(q)
  BY LenProperties
<1> HIDE DEF p
<1>3. DOMAIN p = 1..(Len(q) + 1)
  BY <1>1, LenProperties
<1>4. \A j \in 1..Len(q) : q[j] # e
  BY <1>2 DEF Range
<1>5. IsInjective(p)
  <2> SUFFICES ASSUME NEW i \in 1..(Len(q) + 1), NEW j \in 1..(Len(q) + 1),
                      p[i] = p[j]
               PROVE  i = j
    BY <1>3 DEF IsInjective
  <2>1. \A k \in 1..(Len(q) + 1) : k \in 1..Len(q) \/ k = Len(q) + 1
    BY <1>2
  <2>2. CASE i \in 1..Len(q) /\ j \in 1..Len(q)
    BY <2>2, <1>1, <1>2 DEF IsInjective
  <2>3. CASE i = Len(q) + 1 \/ j = Len(q) + 1
    BY <2>1, <2>3, <1>1, <1>4
  <2> QED BY <2>1, <2>2, <2>3
<1> QED BY <1>1, <1>5 DEF p

\* A sequence without duplicates from which one element is taken.
LEMMA WithoutOne ==
  ASSUME NEW S, NEW q \in Seq(S), NEW k \in DOMAIN q, IsInjective(q)
  PROVE  LET p == SubSeq(q, 1, k - 1) \o SubSeq(q, k + 1, Len(q)) IN
           /\ p \in Seq(S)
           /\ Len(p) = Len(q) - 1
           /\ IsInjective(p)
<1> DEFINE n == Len(q)
           l == SubSeq(q, 1, k - 1)
           r == SubSeq(q, k + 1, n)
           p == l \o r
<1>1. n \in Nat /\ k \in 1..n /\ DOMAIN q = 1..n /\ \A j \in 1..n : q[j] \in S
  BY LenProperties, ElementOfSeq
<1> HIDE DEF n
<1>2. /\ l \in Seq(S)
      /\ Len(l) = k - 1
      /\ \A j \in 1..(k - 1) : l[j] = q[j]
  <2>1. 1 \in Int /\ k - 1 \in Int /\ \A j \in 1..(k - 1) : q[j] \in S
    BY <1>1
  <2>2. /\ l \in Seq(S)
        /\ Len(l) = IF 1 <= k - 1 THEN k - 1 - 1 + 1 ELSE 0
        /\ \A j \in 1..(k - 1 - 1 + 1) : l[j] = q[1 + j - 1]
    BY ONLY <2>1, SubSeqProperties
  <2> HIDE DEF l
  <2> QED BY <1>1, <2>2
<1>3. /\ r \in Seq(S)
      /\ Len(r) = n - k
      /\ \A j \in 1..(n - k) : r[j] = q[k + j]
  <2>1. k + 1 \in Int /\ n \in Int /\ \A j \in (k + 1)..n : q[j] \in S
    BY <1>1
  <2>2. /\ r \in Seq(S)
        /\ Len(r) = IF k + 1 <= n THEN n - (k + 1) + 1 ELSE 0
        /\ \A j \in 1..(n - (k + 1) + 1) : r[j] = q[k + 1 + j - 1]
    BY ONLY <2>1, SubSeqProperties
  <2> HIDE DEF r
  <2>3. /\ n - (k + 1) + 1 = n - k
        /\ \A j \in 1..(n - k) : k + 1 + j - 1 = k + j
        /\ ~(k + 1 <= n) => n - k = 0
    BY <1>1
  <2> QED BY <2>2, <2>3
<1> HIDE DEF l, r
<1>4. /\ p \in Seq(S)
      /\ Len(p) = n - 1
      /\ \A j \in 1..(n - 1) : p[j] = IF j < k THEN q[j] ELSE q[j + 1]
  <2>1. /\ p \in Seq(S)
        /\ Len(p) = Len(l) + Len(r)
        /\ \A j \in 1..(Len(l) + Len(r)) :
             p[j] = IF j <= Len(l) THEN l[j] ELSE r[j - Len(l)]
    BY <1>2, <1>3, ConcatProperties
  <2> HIDE DEF p
  <2>2. \A j \in 1..(n - 1) :
          p[j] = IF j < k THEN q[j] ELSE q[j + 1]
    <3> SUFFICES ASSUME NEW j \in 1..(n - 1)
                 PROVE  p[j] = IF j < k THEN q[j] ELSE q[j + 1]
      OBVIOUS
    <3>1. CASE j < k
      <4>1. j \in 1..(k - 1) /\ j <= Len(l) /\ j \in 1..(Len(l) + Len(r))
        BY <3>1, <1>1, <1>2, <1>3
      <4> QED BY <3>1, <4>1, <1>2, <2>1
    <3>2. CASE ~(j < k)
      <4> DEFINE m == j - Len(l)
      <4>1. /\ m \in 1..(n - k)
            /\ ~(j <= Len(l))
            /\ j \in 1..(Len(l) + Len(r))
            /\ k + m = j + 1
        BY <3>2, <1>1, <1>2, <1>3
      <4>2. p[j] = r[m]
        BY <4>1, <2>1
      <4> HIDE DEF m
      <4> QED BY <3>2, <4>1, <4>2, <1>3
    <3> QED BY <3>1, <3>2
  <2> QED BY <1>1, <1>2, <1>3, <2>1, <2>2
<1> HIDE DEF p
<1>5. IsInjective(p)
  <2>1. DOMAIN p = 1..(n - 1)
    BY <1>4, LenProperties
  <2> SUFFICES ASSUME NEW i \in 1..(n - 1), NEW j \in 1..(n - 1), p[i] = p[j]
               PROVE  i = j
    BY <2>1 DEF IsInjective
  <2> DEFINE at(x) == IF x < k THEN x ELSE x + 1
  <2>2. at(i) \in DOMAIN q /\ at(j) \in DOMAIN q
    BY <1>1
  <2>3. q[at(i)] = q[at(j)]
    BY <1>4
  <2>4. at(i) = at(j)
    BY <2>2, <2>3 DEF IsInjective
  <2> QED BY <2>4, <1>1
<1> QED BY <1>4, <1>5 DEF p, l, r, n

-----------------------------------------------------------------------------
(* The song list *)

LEMMA ListInit == Init => ListInv
BY DEF Init, ListInv, ListsAgree, NoNameTwice

LEMMA ListStep ==
  ASSUME ListInv, Types, [Next]_vars
  PROVE  ListInv'
<1> USE DEF ListInv, ListsAgree, NoNameTwice
<1>1. ASSUME NEW name, NEW length, AddCustom(name, length)
      PROVE  ListInv'
  <2>1. DOMAIN custom' = DOMAIN custom \cup {name}
    BY <1>1 DEF AddCustom
  <2> QED BY <1>1, <2>1 DEF AddCustom
<1>2. ASSUME NEW name \in Names, RemoveCategorySong(name)
      PROVE  ListInv'
  <2>1. DOMAIN custom' = DOMAIN custom \ {name}
    BY <1>2 DEF RemoveCategorySong, Drop, Restrict
  <2> QED BY <1>2, <2>1 DEF RemoveCategorySong
<1>3. CASE ToggleRootEnabled
  <2>1. CASE rootEnabled'
    <3>1. DOMAIN custom' = DOMAIN custom \ Root
      BY <1>3, <2>1 DEF ToggleRootEnabled, Drop, Restrict
    <3> QED BY <1>3, <2>1, <3>1 DEF ToggleRootEnabled
  <2>2. CASE ~rootEnabled'
    BY <1>3, <2>2 DEF ToggleRootEnabled
  <2> QED BY <2>1, <2>2
<1>4. CASE ClearCustomList
  BY <1>4 DEF ClearCustomList
<1>5. CASE UNCHANGED musicVars
  BY <1>5 DEF musicVars
<1>6. CASE JukeboxEvent
  <2>1. UNCHANGED musicVars
    BY <1>6 DEF JukeboxEvent, PlayTrack, AddJukeboxSong, Play, SongEnds,
                JukeboxSkip, SwitchJukeboxSong, ToggleJukebox, musicVars
  <2> QED BY <1>5, <2>1
<1>7. CASE UNCHANGED vars
  BY <1>7 DEF vars
<1> QED
  BY <1>1, <1>2, <1>3, <1>4, <1>6, <1>7
     DEF Next, ListEvent, AddCustomSong, AddCustomCategory

-----------------------------------------------------------------------------
(* The jukebox *)

\* The empty sequence has no duplicates.
LEMMA NothingTwice ==
  ASSUME NEW S
  PROVE  << >> \in Seq(S) /\ IsInjective(<< >>)
<1> DEFINE e == << >>
<1>1. e \in Seq(S) /\ Len(e) = 0
  BY EmptySeq
<1> HIDE DEF e
<1>2. DOMAIN e = 1..0
  BY <1>1, LenProperties
<1>3. IsInjective(e)
  BY <1>2 DEF IsInjective
<1> QED BY <1>1, <1>3 DEF e

LEMMA QueueInit == Init => Types /\ QueueInv
BY NothingTwice DEF Init, Types, QueueInv, TimerFollowsQueue, QueuedOnce

LEMMA AddKeeps ==
  ASSUME Types, QueueInv, jukebox, NEW song \in Names \cup {Stop},
         AddJukeboxSong(song)
  PROVE  (Types /\ QueueInv)' /\ queue' # << >>
<1> USE DEF Types, QueueInv
<1>1. /\ queue' \in Seq(Names \cup {Stop})
      /\ queue' # << >>
      /\ IsInjective(queue')
  BY AppendOnce, Zenon DEF AddJukeboxSong, Queued, Enqueue, QueuedOnce
<1>2. ticking' = TRUE
  BY DEF AddJukeboxSong, StartTimer, TimerFollowsQueue
<1>3. jukebox' = jukebox /\ rootEnabled' = rootEnabled
  BY DEF AddJukeboxSong, musicVars
<1> QED BY <1>1, <1>2, <1>3 DEF TimerFollowsQueue, QueuedOnce

LEMMA SwitchKeeps ==
  ASSUME Types, QueueInv, NEW k \in DOMAIN queue, SwitchJukeboxSong(k)
  PROVE  (Types /\ QueueInv)' /\ queue' # << >>
<1> USE DEF Types, QueueInv
<1>1. Len(queue) \in Nat /\ k \in 1..Len(queue)
  BY LenProperties
<1>2. /\ queue' \in Seq(Names \cup {Stop})
      /\ queue' # << >>
      /\ IsInjective(queue')
  <2>1. CASE Len(queue) = 1
    BY <2>1, <1>1 DEF SwitchJukeboxSong, QueuedOnce
  <2>2. CASE Len(queue) # 1
    <3> DEFINE p == SubSeq(queue, 1, k - 1) \o SubSeq(queue, k + 1, Len(queue))
    <3>1. queue' = p
      BY <2>2 DEF SwitchJukeboxSong
    <3>2. p \in Seq(Names \cup {Stop}) /\ Len(p) = Len(queue) - 1 /\ IsInjective(p)
      BY WithoutOne DEF QueuedOnce
    <3>3. p # << >>
      BY <2>2, <1>1, <3>2
    <3> QED BY <3>1, <3>2, <3>3
  <2> QED BY <2>1, <2>2
<1>3. ticking' = TRUE
  BY DEF SwitchJukeboxSong, StartTimer
<1>4. jukebox' = jukebox /\ rootEnabled' = rootEnabled
  BY DEF SwitchJukeboxSong, musicVars
<1>5. jukebox
  BY <1>1 DEF TimerFollowsQueue
<1> QED BY <1>2, <1>3, <1>4, <1>5 DEF TimerFollowsQueue, QueuedOnce

\* One step keeps the jukebox in order, and empties the queue only by
\* switching the jukebox off.
LEMMA QueueStep ==
  ASSUME Types, QueueInv, [Next]_vars
  PROVE  /\ (Types /\ QueueInv)'
         /\ queue # << >> /\ queue' = << >> => jukebox /\ ~jukebox'
<1> USE DEF Types, QueueInv
<1>1. CASE ListEvent
  <2>1. UNCHANGED jukeboxVars /\ rootEnabled' \in BOOLEAN
    BY <1>1 DEF ListEvent, AddCustomSong, AddCustomCategory, AddCustom,
                RemoveCategorySong, ToggleRootEnabled, ClearCustomList
  <2> QED BY <2>1 DEF jukeboxVars, TimerFollowsQueue, QueuedOnce
<1>2. ASSUME NEW name \in Names \cup {Stop}, PlayTrack(name)
      PROVE  (Types /\ QueueInv)' /\ (queue # << >> => queue' # << >>)
  <2>1. CASE jukebox
    <3> DEFINE song == IF name \in Categories THEN Stop ELSE name
    <3>1. AddJukeboxSong(song) /\ song \in Names \cup {Stop}
      BY <1>2, <2>1 DEF PlayTrack
    <3> QED BY <3>1, <2>1, AddKeeps
  <2>2. CASE ~jukebox
    BY <1>2, <2>2 DEF PlayTrack, musicVars, TimerFollowsQueue, QueuedOnce
  <2> QED BY <2>1, <2>2
<1>3. ASSUME NEW name \in Songs, Play(name)
      PROVE  (Types /\ QueueInv)' /\ queue' = queue
  BY <1>3 DEF Play, musicVars, TimerFollowsQueue, QueuedOnce
<1>4. ASSUME NEW k \in DOMAIN queue, SongEnds(k) \/ JukeboxSkip(k)
      PROVE  (Types /\ QueueInv)' /\ queue' # << >>
  BY <1>4, SwitchKeeps DEF SongEnds, JukeboxSkip
<1>5. CASE ToggleJukebox
  <2>1. CASE jukebox
    BY <1>5, <2>1, NothingTwice
       DEF ToggleJukebox, musicVars, TimerFollowsQueue, QueuedOnce
  <2>2. CASE ~jukebox
    BY <1>5, <2>2 DEF ToggleJukebox, musicVars, TimerFollowsQueue, QueuedOnce
  <2> QED BY <2>1, <2>2
<1>6. CASE UNCHANGED vars
  BY <1>6 DEF vars, TimerFollowsQueue, QueuedOnce
<1> QED
  BY <1>1, <1>2, <1>3, <1>4, <1>5, <1>6 DEF Next, JukeboxEvent

-----------------------------------------------------------------------------
LEMMA QueueAlways == Spec => [](Types /\ QueueInv)
<1>1. Init => Types /\ QueueInv
  BY QueueInit
<1>2. Types /\ QueueInv /\ [Next]_vars => (Types /\ QueueInv)'
  BY QueueStep
<1> QED BY <1>1, <1>2, PTL DEF Spec

\* Whatever CMs do to the song list of an area, the names MusicManager shows
\* and the names it finds are the same.
THEOREM ListsStayTogether == Spec => []ListsAgree
<1>1. ListInv /\ Types /\ [Next]_vars => ListInv'
  BY ListStep
<1>2. ListInv => ListsAgree
  BY DEF ListInv
<1> QED BY <1>1, <1>2, ListInit, QueueAlways, PTL DEF Spec

\* No custom name of an area hides behind a name of the root list while that
\* is shown.
THEOREM NoNameHidden == Spec => []NoNameTwice
<1>1. ListInv /\ Types /\ [Next]_vars => ListInv'
  BY ListStep
<1>2. ListInv => NoNameTwice
  BY DEF ListInv
<1> QED BY <1>1, <1>2, ListInit, QueueAlways, PTL DEF Spec

\* The jukebox timer runs exactly while songs are queued, which is only while
\* the jukebox is on.
THEOREM TimerWithQueue == Spec => []TimerFollowsQueue
<1>1. QueueInv => TimerFollowsQueue
  BY DEF QueueInv
<1> QED BY <1>1, QueueAlways, PTL

\* No song is in the queue twice.
THEOREM NeverQueuedTwice == Spec => []QueuedOnce
<1>1. QueueInv => QueuedOnce
  BY DEF QueueInv
<1> QED BY <1>1, QueueAlways, PTL

\* Only switching the jukebox off empties its queue.
THEOREM OnlyOffSilences == Spec => PlaysUntilSwitchedOff
<1>1. Types /\ QueueInv /\ [Next]_vars
        => [queue # << >> /\ queue' = << >> => jukebox /\ ~jukebox']_vars
  BY QueueStep
<1> QED BY <1>1, QueueAlways, PTL DEF Spec, PlaysUntilSwitchedOff

=============================================================================
