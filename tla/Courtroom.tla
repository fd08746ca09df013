------------------------------ MODULE Courtroom ------------------------------
(***************************************************************************)
(* What an area shows to those who are in it: health bars, background and  *)
(* side, evidence, timers and the judge log, with the packets that keep    *)
(* the picture of every client up to date (the broadcasts of each handler, *)
(* sendEvidenceList, and what Hello and changeArea ship).                  *)
(*                                                                         *)
(* Who is where, who may lock and who owns an area is in Kenji; here the   *)
(* clients in session move freely, and whether a client has the            *)
(* permissions of a CM in its area changes at any moment.                  *)
(***************************************************************************)
EXTENDS Integers, Sequences, FiniteSets, SequencesExt

CONSTANTS
  Clients,
  Out,           \* the place of who is not in session
  AreaCount,
  Moderators,    \* who is logged in, with every permission
  Blocked,       \* clients that /block_wtce was used on
  Evidence,      \* pieces of evidence
  Addressed,     \* the positions a piece names with <owner=...>
  Positions,     \* m_pos
  NoPosition,    \* the empty one
  MaxEvidence,   \* bound on the evidence of an area
  MaxHealth,     \* 10 in the code
  HealthValues,  \* what HealthState packets ask for
  Scenes,        \* backgrounds with a side
  DefaultScene,  \* the one areas are configured with
  DefaultMode,   \* evidence_mod in areas.ini
  JudgeLogSize,  \* 10 in the code
  MaxTime        \* bound on the intervals of timers

Areas == 0..(AreaCount - 1)
Sides == {"defense", "prosecution"}
EvidenceMods == {"FFA", "MOD", "CM", "HIDDEN_CM"}

ASSUME CourtroomAssumption ==
  /\ AreaCount \in Nat \ {0}
  /\ Out \notin Areas
  /\ Moderators \subseteq Clients /\ Blocked \subseteq Clients
  /\ NoPosition \in Positions
  /\ Addressed \in [Evidence -> SUBSET Positions]
  /\ MaxEvidence \in Nat /\ MaxHealth \in Nat /\ MaxTime \in Nat
  /\ HealthValues \subseteq Int /\ DefaultScene \in Scenes
  /\ DefaultMode \in EvidenceMods
  /\ JudgeLogSize \in Nat \ {0}

VARIABLES
  place,    \* the area of each client
  pos,      \* its position
  master,   \* the clients with the permissions of a CM where they are
  room,     \* the state of each area
  clock,    \* the global timer
  view,     \* what each client was last told
  outdated  \* history: whose rights or position changed unannounced since

vars == <<place, pos, master, room, clock, view, outdated>>

-----------------------------------------------------------------------------
(* Timers: QTimer, and what SetTimerState shows of it *)

NotSet == 0
Idle == [interval |-> NotSet, active |-> FALSE]

\* remainingTime of a timer that does not run, and of one started with it.
NoTime == -1
Ticks(t) == t.active /\ t.interval # NoTime

\* addMSecs wraps at midnight: -1 becomes a day without a millisecond.
Shown(t) == IF Ticks(t) THEN "running" ELSE "wrapped"

\* A running timer as Hello and changeArea ship it; any other is hidden.
Shipped(t) == IF t.active THEN Shown(t) ELSE "hidden"

Remaining(t) == IF Ticks(t) THEN 0..t.interval ELSE {NoTime}

\* QTimer::start with a negative interval starts nothing, which isActive
\* tells in some versions of Qt only.
Started(t) == {[t EXCEPT !.active = b] :
                 b \in IF t.interval = NoTime THEN BOOLEAN ELSE {TRUE}}

-----------------------------------------------------------------------------
(* Who is told what *)

In(a) == {c \in Clients : place[c] = a}
Present == {c \in Clients : place[c] # Out}
Here(c) == room[place[c]]

\* updateEvidenceList for a client with these rights and this position.
Visible(r, rights, p) ==
  IF r.mode # "HIDDEN_CM" \/ rights THEN r.evidence
  ELSE SelectSeq(r.evidence, LAMBDA e : Addressed[e] = {} \/ p \in Addressed[e])

\* Everything Hello and changeArea ship of an area,
\* with the global timer as the client sees it then.
Picture(r, rights, p, shown) ==
  [health |-> r.health, scene |-> r.scene, evidence |-> Visible(r, rights, p),
   timer |-> Shipped(r.timer), clock |-> shown]

\* What a client that has just connected shows.
Blank == [health |-> [s \in Sides |-> MaxHealth], scene |-> DefaultScene,
          evidence |-> << >>, timer |-> "hidden", clock |-> "hidden"]

Init ==
  /\ place = [c \in Clients |-> Out]
  /\ pos = [c \in Clients |-> NoPosition]
  /\ master = Moderators
  /\ room = [a \in Areas |->
       [health |-> [side \in Sides |-> MaxHealth], scene |-> DefaultScene,
        bgLocked |-> FALSE, mode |-> DefaultMode, evidence |-> << >>, log |-> 0, timer |-> Idle]]
  /\ clock = Idle
  /\ view = [c \in Clients |-> Blank]
  /\ outdated = {}

-----------------------------------------------------------------------------
(* Packets to an area *)

\* sendEvidenceList by somebody in area a that is left in state r.
EvidenceShown(a, r) ==
  [c \in Clients |->
     IF c \in In(a) THEN [view[c] EXCEPT !.evidence = Visible(r, c \in master, pos[c])]
     ELSE view[c]]

\* The news of a handler that broadcasts nothing.
Nothing == << >>

Changes(a, r) == room' = [room EXCEPT ![a] = r]

\* Every handler that changes the evidence ends in sendEvidenceList.
ShowsEvidence(a, r) ==
  /\ Changes(a, r)
  /\ view' = EvidenceShown(a, r)
  /\ outdated' = outdated \ In(a)
  /\ UNCHANGED <<place, pos, master, clock>>

\* View w after some of it was sent anew.
Updated(w, news) == [k \in DOMAIN w |-> IF k \in DOMAIN news THEN news[k] ELSE w[k]]

\* A broadcast to area a of what is news to its clients, a part of their views.
ShowsArea(a, r, news) ==
  /\ Changes(a, r)
  /\ view' = [c \in Clients |-> IF c \in In(a) THEN Updated(view[c], news) ELSE view[c]]
  /\ UNCHANGED <<place, pos, master, clock, outdated>>

-----------------------------------------------------------------------------
(* Coming, moving, going *)

\* Hello, in area 0: everybody there gets the evidence again.
Join(c) ==
  /\ place[c] = Out
  /\ place' = [place EXCEPT ![c] = 0]
  /\ view' = [EvidenceShown(0, room[0]) EXCEPT ![c] =
                Picture(room[0], c \in master, pos[c], Shipped(clock))]
  /\ outdated' = outdated \ In(0)
  /\ UNCHANGED <<pos, master, room, clock>>

\* Mutant: an area without a running timer ships none.
PictureOfMoveWithout(c, r, rights) ==
  [Picture(r, rights, pos[c], view[c].clock) EXCEPT
     !.timer = IF r.timer.active THEN @ ELSE view[c].timer]

PictureOfMove(c, r, rights) == Picture(r, rights, pos[c], view[c].clock)

\* changeArea; whether the client has the rights of a CM there is up to Kenji.
ChangeArea(c, a) ==
  /\ c \in Present /\ place[c] # a
  /\ place' = [place EXCEPT ![c] = a]
  /\ \E rights \in IF c \in Moderators THEN {TRUE} ELSE BOOLEAN :
       /\ master' = IF rights THEN master \cup {c} ELSE master \ {c}
       /\ view' = [EvidenceShown(a, room[a]) EXCEPT ![c] =
                     PictureOfMove(c, room[a], rights)]
  /\ outdated' = outdated \ (In(a) \cup {c})
  /\ UNCHANGED <<pos, room, clock>>

Leave(c) ==
  /\ c \in Present
  /\ place' = [place EXCEPT ![c] = Out]
  /\ pos' = [pos EXCEPT ![c] = NoPosition]
  /\ master' = (master \ {c}) \cup ({c} \cap Moderators)
  /\ view' = [view EXCEPT ![c] = Blank]
  /\ outdated' = outdated \ {c}
  /\ UNCHANGED <<room, clock>>

\* /cm, /uncm and the like: nobody is sent the evidence again.
RightsChange(c) ==
  /\ c \in Present \ Moderators
  /\ master' = IF c \in master THEN master \ {c} ELSE master \cup {c}
  /\ outdated' = outdated \cup {c}
  /\ UNCHANGED <<place, pos, room, clock, view>>

\* /pos sends the client its evidence again.
PickPosition(c, p) ==
  /\ c \in Present
  /\ pos' = [pos EXCEPT ![c] = p]
  /\ view' = [view EXCEPT ![c].evidence = Visible(Here(c), c \in master, p)]
  /\ outdated' = outdated \ {c}
  /\ UNCHANGED <<place, master, room, clock>>

\* /forcepos, of any client the CM knows the id of, and the empty position
\* that comes with a new character: neither does.
LosePosition(c, p) ==
  /\ c \in Present
  /\ p = NoPosition \/ master \cap Present # {}
  /\ pos' = [pos EXCEPT ![c] = p]
  /\ outdated' = outdated \cup {c}
  /\ UNCHANGED <<place, master, room, clock, view>>

-----------------------------------------------------------------------------
(* Health bars, splashes, background *)

Clamped(v) == IF v < 0 THEN 0 ELSE IF v > MaxHealth THEN MaxHealth ELSE v

\* appendJudgelog drops the first of JudgeLogSize entries.
Logged(r) == [r EXCEPT !.log = IF @ = JudgeLogSize THEN @ ELSE @ + 1]

\* Mutant: the bars are sent before they change.
SetHealthLate(c, side, v) ==
  /\ c \in Present \ Blocked
  /\ LET r == [Logged(Here(c)) EXCEPT !.health[side] = Clamped(v)] IN
     ShowsArea(place[c], r, [health |-> Here(c).health])

SetHealth(c, side, v) ==
  /\ c \in Present \ Blocked
  /\ LET r == [Logged(Here(c)) EXCEPT !.health[side] = Clamped(v)] IN
     ShowsArea(place[c], r, [health |-> r.health])

\* WT/CE; the five seconds between two of a client are left out.
Splash(c) ==
  /\ c \in Present \ Blocked
  /\ ShowsArea(place[c], Logged(Here(c)), Nothing)

SetBackground(c, s) ==
  /\ c \in Present
  /\ c \in Moderators \/ ~Here(c).bgLocked
  /\ ShowsArea(place[c], [Here(c) EXCEPT !.scene = s], [scene |-> s])

\* /side: the lock holds for moderators too.
SetSide(c, s) ==
  /\ c \in Present /\ ~Here(c).bgLocked
  /\ ShowsArea(place[c], [Here(c) EXCEPT !.scene = s], [scene |-> s])

BgLock(c) ==
  /\ c \in Present \cap master
  /\ ShowsArea(place[c], [Here(c) EXCEPT !.bgLocked = TRUE], Nothing)

BgUnlock(c) ==
  /\ c \in Present \cap master
  /\ ShowsArea(place[c], [Here(c) EXCEPT !.bgLocked = FALSE], Nothing)

-----------------------------------------------------------------------------
(* Evidence *)

\* checkEvidenceAccess
Access(c) ==
  /\ c \in Present
  /\ \/ Here(c).mode = "FFA"
     \/ Here(c).mode \in {"CM", "HIDDEN_CM"} /\ c \in master
     \/ Here(c).mode = "MOD" /\ c \in Moderators

CreateEvidence(c, e) ==
  /\ Access(c) /\ Len(Here(c).evidence) < MaxEvidence
  /\ ShowsEvidence(place[c], [Here(c) EXCEPT !.evidence = Append(@, e)])

\* The handler never takes the id for a number, so that nothing is replaced.
EditEvidence(c) ==
  /\ Access(c)
  /\ ShowsEvidence(place[c], Here(c))

DeleteEvidence(c, i) ==
  /\ Access(c) /\ i \in DOMAIN Here(c).evidence
  /\ ShowsEvidence(place[c], [Here(c) EXCEPT !.evidence = RemoveAt(@, i)])

EvidenceSwap(c, i, j) ==
  /\ c \in Present \cap master
  /\ {i, j} \subseteq DOMAIN Here(c).evidence
  /\ LET old == Here(c).evidence IN
     ShowsEvidence(place[c],
       [Here(c) EXCEPT !.evidence = [old EXCEPT ![i] = old[j], ![j] = old[i]]])

\* Mutant: only the pieces themselves are worth sending again.
EvidenceModQuietly(c, m) ==
  /\ c \in Present \cap Moderators
  /\ ShowsArea(place[c], [Here(c) EXCEPT !.mode = m], Nothing)

EvidenceMod(c, m) ==
  /\ c \in Present \cap Moderators
  /\ ShowsEvidence(place[c], [Here(c) EXCEPT !.mode = m])

-----------------------------------------------------------------------------
(* /timer, of the area or the global one: the timer becomes t and is shown *)
(* as w.                                                                   *)

AreaTimer(c, t, w) ==
  ShowsArea(place[c], [Here(c) EXCEPT !.timer = t], [timer |-> w])

GlobalTimer(c, t, w) ==
  /\ c \in Moderators
  /\ clock' = t
  /\ view' = [d \in Clients |-> IF d \in Present THEN [view[d] EXCEPT !.clock = w]
                                ELSE view[d]]
  /\ UNCHANGED <<place, pos, master, room, outdated>>

\* What two arguments make of timer t, with what is shown of it: set to a time,
\* started, paused, unset.
TimerCommand(t) ==
  {<<[interval |-> ms, active |-> TRUE], "running">> : ms \in 0..MaxTime}
    \cup {<<s, Shown(s)>> : s \in Started(t)}
    \cup {<<[interval |-> ms, active |-> FALSE],
             IF ms = NoTime THEN "wrapped" ELSE "stopped">> : ms \in Remaining(t)}
    \cup {<<Idle, "hidden">>}

Timer(c) ==
  /\ c \in Present \cap master
  /\ \/ \E o \in TimerCommand(Here(c).timer) : AreaTimer(c, o[1], o[2])
     \/ \E o \in TimerCommand(clock) : GlobalTimer(c, o[1], o[2])

-----------------------------------------------------------------------------

CourtEvent(c) ==
  \/ \E side \in Sides, v \in HealthValues : SetHealth(c, side, v)
  \/ Splash(c)
  \/ \E s \in Scenes : SetBackground(c, s) \/ SetSide(c, s)
  \/ BgLock(c) \/ BgUnlock(c)
  \/ \E e \in Evidence : CreateEvidence(c, e)
  \/ EditEvidence(c)
  \/ \E i \in 1..MaxEvidence : DeleteEvidence(c, i) \/ \E j \in 1..MaxEvidence : EvidenceSwap(c, i, j)
  \/ \E m \in EvidenceMods : EvidenceMod(c, m)
  \/ Timer(c)

Next ==
  \E c \in Clients :
    \/ Join(c) \/ Leave(c) \/ RightsChange(c)
    \/ \E a \in Areas : ChangeArea(c, a)
    \/ \E p \in Positions : PickPosition(c, p) \/ LosePosition(c, p)
    \/ CourtEvent(c)

Spec == Init /\ [][Next]_vars

-----------------------------------------------------------------------------
(* What the clients of an area see *)

TypeOK ==
  /\ place \in [Clients -> Areas \cup {Out}]
  /\ pos \in [Clients -> Positions]
  /\ Moderators \cap Present \subseteq master /\ master \subseteq Clients
  /\ \A a \in Areas : /\ room[a].mode \in EvidenceMods
                      /\ room[a].evidence \in Seq(Evidence)
                      /\ room[a].log \in 0..JudgeLogSize
  /\ outdated \subseteq Present

\* Whoever is in an area sees its health bars and its background, no matter
\* whether it was there when they changed or came later.
SceneIsCurrent ==
  \A c \in Present : /\ view[c].health = Here(c).health
                     /\ view[c].scene = Here(c).scene

\* The same for evidence, of which a client sees what the mode, its rights
\* and its position allow: changes of the list and of the mode and moves are
\* all announced.  Only changes of the rights and positions that others
\* cause go unannounced, and matter only while evidence is hidden.
EvidenceIsCurrent ==
  \A c \in Present :
    Here(c).mode # "HIDDEN_CM" \/ c \notin outdated =>
      view[c].evidence = Visible(Here(c), c \in master, pos[c])

\* A client sees the area's timer run exactly when it runs, and the global one
\* likewise, also when it came, or came back, while they ran or stood still.
TimersAreCurrent ==
  \A c \in Present : /\ view[c].timer = "running" <=> Ticks(Here(c).timer)
                     /\ view[c].clock = "running" <=> Ticks(clock)

=============================================================================
