-------------------------- MODULE CourtroomProofs ---------------------------
(***************************************************************************)
(* Courtroom for every number of clients and areas and every length of the *)
(* lists: what the clients of an area see is what the area is.             *)
(***************************************************************************)
EXTENDS Courtroom, SequenceTheorems, TLAPS

Timers == [interval : Int, active : BOOLEAN]
Pieces == {"health", "scene", "bgLocked", "mode", "evidence", "log", "timer"}
Shape == {"health", "scene", "evidence", "timer", "clock"}

\* What the variables hold, as far as the proofs need it: records with these
\* fields, and timers that QTimer knows.
Types ==
  /\ place \in [Clients -> Areas \cup {Out}]
  /\ pos \in [Clients -> Positions]
  /\ DOMAIN room = Areas
  /\ \A a \in Areas : DOMAIN room[a] = Pieces /\ room[a].timer \in Timers
  /\ DOMAIN view = Clients
  /\ \A c \in Clients : DOMAIN view[c] = Shape
  /\ clock \in Timers

\* The view w of a client with these rights and this position, for whom the
\* evidence may be outdated, is right about an area in state r and the global
\* timer t.
Right(w, r, rights, p, old, t) ==
  /\ DOMAIN w = Shape
  /\ w.health = r.health
  /\ w.scene = r.scene
  /\ r.mode # "HIDDEN_CM" \/ ~old => w.evidence = Visible(r, rights, p)
  /\ w.timer = "running" <=> Ticks(r.timer)
  /\ w.clock = "running" <=> Ticks(t)

Current ==
  \A c \in Present : Right(view[c], Here(c), c \in master, pos[c], c \in outdated, clock)

Inv == Types /\ Current

-----------------------------------------------------------------------------
(* What is shown of timers and evidence *)

\* A shipped timer runs on the screen when it runs in the server.
LEMMA ShippedIsRight == \A t : Shipped(t) = "running" <=> Ticks(t)
BY DEF Shipped, Shown, Ticks

\* So does each one that /timer leaves.
LEMMA CommandIsRight ==
  ASSUME NEW t \in Timers, NEW o \in TimerCommand(t)
  PROVE  o[1] \in Timers /\ (o[2] = "running" <=> Ticks(o[1]))
<1>1. CASE \E ms \in 0..MaxTime : o = <<[interval |-> ms, active |-> TRUE], "running">>
  <2>1. PICK ms \in 0..MaxTime : o = <<[interval |-> ms, active |-> TRUE], "running">>
    BY <1>1
  <2>2. ms \in Int /\ ms # -1
    OBVIOUS
  <2> QED BY <2>1, <2>2 DEF Timers, Ticks, NoTime
<1>2. CASE \E s \in Started(t) : o = <<s, Shown(s)>>
  <2>1. PICK s \in Started(t) : o = <<s, Shown(s)>>
    BY <1>2
  <2>2. PICK b \in BOOLEAN :
          s = [t EXCEPT !.active = b] /\ (t.interval = NoTime \/ b = TRUE)
    BY DEF Started
  <2>3. s \in Timers /\ s.interval = t.interval /\ (s.interval = NoTime \/ s.active = TRUE)
    BY <2>2 DEF Timers
  <2>4. Shown(s) = "running" <=> Ticks(s)
    BY <2>3 DEF Shown
  <2> QED BY <2>1, <2>3, <2>4
<1>3. CASE \E ms \in Remaining(t) :
             o = <<[interval |-> ms, active |-> FALSE],
                   IF ms = NoTime THEN "wrapped" ELSE "stopped">>
  <2>1. PICK ms \in Remaining(t) :
               o = <<[interval |-> ms, active |-> FALSE],
                     IF ms = NoTime THEN "wrapped" ELSE "stopped">>
    BY <1>3
  <2>2. ms \in Int
    BY DEF Remaining, NoTime, Timers
  <2> QED BY <2>1, <2>2 DEF Timers, Ticks
<1>4. CASE o = <<Idle, "hidden">>
  BY <1>4 DEF Idle, NotSet, Timers, Ticks
<1> QED BY <1>1, <1>2, <1>3, <1>4 DEF TimerCommand

\* While nothing is hidden, rights and position make no difference.
LEMMA NothingHidden ==
  ASSUME NEW r, r.mode # "HIDDEN_CM", NEW rights, NEW p, NEW rights2, NEW p2
  PROVE  Visible(r, rights, p) = Visible(r, rights2, p2)
BY DEF Visible

\* Everything that Hello and changeArea ship is right.
LEMMA PictureIsRight ==
  ASSUME NEW r, NEW rights, NEW p, NEW t, NEW w, NEW shown,
         w = Picture(r, rights, p, shown),
         shown = "running" <=> Ticks(t)
  PROVE  Right(w, r, rights, p, FALSE, t)
<1>1. /\ DOMAIN w = Shape
      /\ w.health = r.health /\ w.scene = r.scene
      /\ w.evidence = Visible(r, rights, p)
      /\ w.timer = Shipped(r.timer)
      /\ w.clock = shown
  BY DEF Picture, Shape
<1> QED BY <1>1, ShippedIsRight DEF Right

-----------------------------------------------------------------------------
(* One area changes and its clients are told *)

\* An area becomes r, everybody in it has a view that is right about r, and
\* nothing else happens.
LEMMA OneAreaChanges ==
  ASSUME Inv, NEW a \in Areas, NEW r, DOMAIN r = Pieces, r.timer \in Timers,
         Changes(a, r), UNCHANGED <<place, pos, master, clock>>,
         DOMAIN view' = Clients,
         \A c \in In(a) : Right(view'[c], r, c \in master, pos[c], c \in outdated', clock),
         \A c \in Clients \ In(a) : view'[c] = view[c] /\ (c \in outdated' <=> c \in outdated)
  PROVE  Inv'
<1>1. DOMAIN room' = Areas /\ room'[a] = r /\ \A b \in Areas : b # a => room'[b] = room[b]
  BY DEF Inv, Types, Changes
<1>2. Types'
  <2>1. \A c \in Clients : DOMAIN view'[c] = Shape
    BY DEF Inv, Types, Right
  <2> QED BY <1>1, <2>1 DEF Inv, Types
<1>3. ASSUME NEW c \in Present'
      PROVE  Right(view'[c], Here(c)', c \in master', pos'[c], c \in outdated', clock')
  <2>1. c \in Clients /\ place'[c] = place[c] /\ c \in Present /\ place[c] \in Areas
    BY DEF Present, Inv, Types
  <2>2. Here(c)' = room'[place[c]]
    BY <2>1 DEF Here
  <2>3. CASE c \in In(a)
    <3>1. place[c] = a
      BY <2>3 DEF In
    <3> QED BY <1>1, <2>2, <2>3, <3>1
  <2>4. CASE c \notin In(a)
    <3>1. place[c] # a
      BY <2>1, <2>4 DEF In
    <3>2. Here(c)' = Here(c)
      BY <1>1, <2>1, <2>2, <3>1 DEF Here
    <3>3. view'[c] = view[c] /\ (c \in outdated' <=> c \in outdated)
      BY <2>1, <2>4
    <3>4. Right(view[c], Here(c), c \in master, pos[c], c \in outdated, clock)
      BY <2>1 DEF Inv, Current
    <3> QED BY <3>2, <3>3, <3>4 DEF Right
  <2> QED BY <2>3, <2>4
<1> QED BY <1>2, <1>3 DEF Inv, Current

\* The area of somebody in it, and what those who are there see of it.
LEMMA SeenHere ==
  ASSUME Inv, NEW c \in Present
  PROVE  /\ c \in Clients /\ place[c] \in Areas
         /\ Here(c) = room[place[c]]
         /\ DOMAIN Here(c) = Pieces /\ Here(c).timer \in Timers
         /\ \A d \in In(place[c]) :
              /\ d \in Clients /\ DOMAIN view[d] = Shape
              /\ Right(view[d], Here(c), d \in master, pos[d], d \in outdated, clock)
<1>1. c \in Clients /\ place[c] \in Areas
  BY DEF Present, Inv, Types
<1>2. Here(c) = room[place[c]]
  BY DEF Here
<1>3. ASSUME NEW d \in In(place[c])
      PROVE  /\ d \in Clients /\ DOMAIN view[d] = Shape
             /\ Right(view[d], Here(c), d \in master, pos[d], d \in outdated, clock)
  <2>1. d \in Clients /\ place[d] = place[c] /\ d \in Present
    BY <1>1, CourtroomAssumption DEF In, Present, CourtroomAssumption
  <2>2. Here(d) = Here(c)
    BY <2>1 DEF Here
  <2> QED BY <2>1, <2>2 DEF Inv, Types, Current
<1> QED BY <1>1, <1>2, <1>3 DEF Inv, Types

\* A broadcast of what has changed in an area, other than its evidence.
LEMMA AreaIsSeen ==
  ASSUME Inv, NEW c \in Present, NEW r, NEW news, ShowsArea(place[c], r, news),
         DOMAIN r = Pieces, r.timer \in Timers,
         r.evidence = Here(c).evidence, r.mode = Here(c).mode,
         \A w : /\ DOMAIN w = Shape
                /\ w.health = Here(c).health /\ w.scene = Here(c).scene
                /\ w.timer = "running" <=> Ticks(Here(c).timer)
                => /\ Updated(w, news).health = r.health
                   /\ Updated(w, news).scene = r.scene
                   /\ Updated(w, news).timer = "running" <=> Ticks(r.timer)
                   /\ Updated(w, news).evidence = w.evidence
                   /\ Updated(w, news).clock = w.clock
  PROVE  Inv'
<1> DEFINE a == place[c]
<1>1. a \in Areas
  BY SeenHere
<1>2. /\ Changes(a, r) /\ UNCHANGED <<place, pos, master, clock, outdated>>
      /\ view' = [d \in Clients |-> IF d \in In(a) THEN Updated(view[d], news) ELSE view[d]]
  BY DEF ShowsArea
<1>3. ASSUME NEW d \in In(a)
      PROVE  Right(view'[d], r, d \in master, pos[d], d \in outdated', clock)
  <2>1. /\ d \in Clients /\ DOMAIN view[d] = Shape
        /\ Right(view[d], Here(c), d \in master, pos[d], d \in outdated, clock)
    BY <1>3, SeenHere
  <2>2. view'[d] = Updated(view[d], news)
    BY <1>2, <1>3, <2>1
  <2>3. DOMAIN Updated(view[d], news) = Shape
    BY <2>1 DEF Updated
  <2>4. Visible(r, d \in master, pos[d]) = Visible(Here(c), d \in master, pos[d])
    BY DEF Visible
  <2>5. /\ Updated(view[d], news).health = r.health
        /\ Updated(view[d], news).scene = r.scene
        /\ Updated(view[d], news).timer = "running" <=> Ticks(r.timer)
        /\ Updated(view[d], news).evidence = view[d].evidence
        /\ Updated(view[d], news).clock = view[d].clock
    BY <2>1 DEF Right
  <2> QED BY <1>2, <2>1, <2>2, <2>3, <2>4, <2>5 DEF Right
<1> HIDE DEF a
<1> QED BY <1>1, <1>2, <1>3, OneAreaChanges

\* A handler that ends in sendEvidenceList and changes nothing but evidence
\* and mode.
LEMMA EvidenceIsSeen ==
  ASSUME Inv, NEW c \in Present, NEW r, ShowsEvidence(place[c], r),
         DOMAIN r = Pieces, r.timer = Here(c).timer,
         r.health = Here(c).health, r.scene = Here(c).scene
  PROVE  Inv'
<1> DEFINE a == place[c]
<1>1. a \in Areas /\ r.timer \in Timers
  BY SeenHere
<1>2. /\ Changes(a, r) /\ UNCHANGED <<place, pos, master, clock>>
      /\ outdated' = outdated \ In(a)
      /\ view' = [d \in Clients |->
                   IF d \in In(a)
                   THEN [view[d] EXCEPT !.evidence = Visible(r, d \in master, pos[d])]
                   ELSE view[d]]
  BY DEF ShowsEvidence, EvidenceShown
<1>3. ASSUME NEW d \in In(a)
      PROVE  Right(view'[d], r, d \in master, pos[d], d \in outdated', clock)
  <2>1. /\ d \in Clients /\ DOMAIN view[d] = Shape
        /\ Right(view[d], Here(c), d \in master, pos[d], d \in outdated, clock)
    BY <1>3, SeenHere
  <2>2. view'[d] = [view[d] EXCEPT !.evidence = Visible(r, d \in master, pos[d])]
    BY <1>2, <1>3, <2>1
  <2>3. /\ DOMAIN view'[d] = Shape
        /\ view'[d].evidence = Visible(r, d \in master, pos[d])
        /\ view'[d].health = view[d].health /\ view'[d].scene = view[d].scene
        /\ view'[d].timer = view[d].timer /\ view'[d].clock = view[d].clock
    BY <2>1, <2>2 DEF Shape
  <2> QED BY <2>1, <2>3 DEF Right
<1> HIDE DEF a
<1> QED BY <1>1, <1>2, <1>3, OneAreaChanges

-----------------------------------------------------------------------------
(* One client comes, goes or changes *)

\* A client comes to area a, sees w, and all who were there get the evidence.
LEMMA Arrival ==
  ASSUME Inv, NEW c \in Clients, NEW a \in Areas, NEW w,
         place' = [place EXCEPT ![c] = a], UNCHANGED <<pos, room, clock>>,
         \A d \in Clients \ {c} : d \in master' <=> d \in master,
         \A d \in Clients \ {c} : d \in outdated' <=> d \in outdated /\ d \notin In(a),
         view' = [EvidenceShown(a, room[a]) EXCEPT ![c] = w],
         Right(w, room[a], c \in master', pos[c], FALSE, clock)
  PROVE  Inv'
<1>1. /\ DOMAIN view' = Clients /\ view'[c] = w
      /\ \A d \in Clients \ {c} :
           view'[d] = IF d \in In(a)
                      THEN [view[d] EXCEPT !.evidence = Visible(room[a], d \in master, pos[d])]
                      ELSE view[d]
  BY DEF EvidenceShown
<1>2. /\ place' \in [Clients -> Areas \cup {Out}] /\ place'[c] = a
      /\ \A d \in Clients \ {c} : place'[d] = place[d]
  BY DEF Inv, Types
<1>3. ASSUME NEW d \in Clients PROVE DOMAIN view'[d] = Shape
  BY <1>1 DEF Inv, Types, Right
<1>4. Types'
  BY <1>1, <1>2, <1>3 DEF Inv, Types
<1>5. ASSUME NEW d \in Present'
      PROVE  Right(view'[d], Here(d)', d \in master', pos'[d], d \in outdated', clock')
  <2>1. CASE d = c
    <3>1. Here(d)' = room[a]
      BY <1>2, <2>1 DEF Here
    <3> QED BY <1>1, <2>1, <3>1 DEF Right
  <2>2. CASE d # c
    <3>1. d \in Clients \ {c} /\ place'[d] = place[d] /\ d \in Present
      BY <1>2, <2>2 DEF Present
    <3>2. Here(d)' = Here(d)
      BY <3>1 DEF Here
    <3>3. Right(view[d], Here(d), d \in master, pos[d], d \in outdated, clock)
      BY <3>1 DEF Inv, Current
    <3>4. CASE d \notin In(a)
      <4>1. /\ view'[d] = view[d] /\ pos'[d] = pos[d] /\ clock' = clock
            /\ d \in master' <=> d \in master
            /\ d \in outdated' <=> d \in outdated
        BY <1>1, <3>1, <3>4
      <4> QED BY <3>2, <3>3, <4>1 DEF Right
    <3>5. CASE d \in In(a)
      <4>1. Here(d) = room[a] /\ DOMAIN view[d] = Shape
        BY <3>1, <3>5 DEF Here, In, Inv, Types
      <4>2. view'[d] = [view[d] EXCEPT !.evidence = Visible(Here(d), d \in master, pos[d])]
        BY <1>1, <3>1, <3>5, <4>1
      <4>3. /\ DOMAIN view'[d] = Shape
            /\ view'[d].evidence = Visible(Here(d), d \in master, pos[d])
            /\ view'[d].health = view[d].health /\ view'[d].scene = view[d].scene
            /\ view'[d].timer = view[d].timer /\ view'[d].clock = view[d].clock
        BY <4>1, <4>2 DEF Shape
      <4>4. d \in master' <=> d \in master
        BY <3>1
      <4> QED BY <3>2, <3>3, <4>3, <4>4 DEF Right
    <3> QED BY <3>4, <3>5
  <2> QED BY <2>1, <2>2
<1> QED BY <1>4, <1>5 DEF Inv, Current

\* Of one client only the rights, the position and the view change.
LEMMA OneViewChanges ==
  ASSUME Inv, NEW c \in Present, UNCHANGED <<place, room, clock>>,
         pos' \in [Clients -> Positions], DOMAIN view' = Clients,
         \A d \in Clients \ {c} : /\ view'[d] = view[d] /\ pos'[d] = pos[d]
                                  /\ d \in master' <=> d \in master
                                  /\ d \in outdated' <=> d \in outdated,
         Right(view'[c], Here(c), c \in master', pos'[c], c \in outdated', clock)
  PROVE  Inv'
<1>1. Present' = Present /\ \A d \in Present : d \in Clients /\ Here(d)' = Here(d)
  BY DEF Present, Here
<1>2. Types'
  <2>1. \A d \in Clients : DOMAIN view'[d] = Shape
    BY DEF Inv, Types, Right
  <2> QED BY <2>1 DEF Inv, Types
<1>3. ASSUME NEW d \in Present
      PROVE  Right(view'[d], Here(d), d \in master', pos'[d], d \in outdated', clock)
  <2>1. CASE d = c
    BY <2>1
  <2>2. CASE d # c
    <3>1. Right(view[d], Here(d), d \in master, pos[d], d \in outdated, clock)
      BY DEF Inv, Current
    <3>2. /\ view'[d] = view[d] /\ pos'[d] = pos[d]
          /\ d \in master' <=> d \in master
          /\ d \in outdated' <=> d \in outdated
      BY <1>1, <2>2
    <3> QED BY <3>1, <3>2 DEF Right
  <2> QED BY <2>1, <2>2
<1> QED BY <1>1, <1>2, <1>3 DEF Inv, Current

\* Hello.
LEMMA JoinKeepsInv == ASSUME Inv, NEW c \in Clients, Join(c) PROVE Inv'
<1>1. 0 \in Areas
  BY CourtroomAssumption DEF CourtroomAssumption, Areas
<1> DEFINE w == Picture(room[0], c \in master, pos[c], Shipped(clock))
<1>2. Right(w, room[0], c \in master, pos[c], FALSE, clock)
  BY PictureIsRight, ShippedIsRight
<1> HIDE DEF w
<1>3. /\ place' = [place EXCEPT ![c] = 0] /\ UNCHANGED <<pos, room, clock, master>>
      /\ outdated' = outdated \ In(0)
      /\ view' = [EvidenceShown(0, room[0]) EXCEPT ![c] = w]
  BY DEF Join, w
<1> QED BY <1>1, <1>2, <1>3, Arrival

\* changeArea.
LEMMA MoveKeepsInv ==
  ASSUME Inv, NEW c \in Clients, NEW a \in Areas, ChangeArea(c, a) PROVE Inv'
<1>1. PICK rights \in BOOLEAN :
        /\ master' = IF rights THEN master \cup {c} ELSE master \ {c}
        /\ view' = [EvidenceShown(a, room[a]) EXCEPT ![c] = PictureOfMove(c, room[a], rights)]
  BY DEF ChangeArea
<1>2. /\ c \in Present /\ place' = [place EXCEPT ![c] = a]
      /\ outdated' = outdated \ (In(a) \cup {c}) /\ UNCHANGED <<pos, room, clock>>
  BY DEF ChangeArea
<1>3. view[c].clock = "running" <=> Ticks(clock)
  BY <1>2 DEF Inv, Current, Right
<1> DEFINE w == PictureOfMove(c, room[a], rights)
<1>4. Right(w, room[a], rights, pos[c], FALSE, clock)
  BY <1>3, PictureIsRight DEF PictureOfMove
<1>5. (c \in master') = rights
  BY <1>1
<1> HIDE DEF w
<1>6. Right(w, room[a], c \in master', pos[c], FALSE, clock)
  BY <1>4, <1>5
<1>7. view' = [EvidenceShown(a, room[a]) EXCEPT ![c] = w]
  BY <1>1 DEF w
<1>8. \A d \in Clients \ {c} : /\ d \in master' <=> d \in master
                               /\ d \in outdated' <=> d \in outdated /\ d \notin In(a)
  BY <1>1, <1>2
<1> QED BY <1>2, <1>6, <1>7, <1>8, Arrival

\* The end of a session.
LEMMA LeaveKeepsInv == ASSUME Inv, NEW c \in Clients, Leave(c) PROVE Inv'
<1>1. /\ place' \in [Clients -> Areas \cup {Out}] /\ place'[c] = Out
      /\ \A d \in Clients \ {c} : place'[d] = place[d]
  BY DEF Leave, Inv, Types
<1>2. /\ DOMAIN view' = Clients /\ view'[c] = Blank
      /\ \A d \in Clients \ {c} : view'[d] = view[d]
  BY DEF Leave, Inv, Types
<1>3. /\ pos' \in [Clients -> Positions]
      /\ \A d \in Clients \ {c} : pos'[d] = pos[d]
  BY CourtroomAssumption DEF Leave, Inv, Types, CourtroomAssumption
<1>4. DOMAIN Blank = Shape
  BY DEF Blank, Shape
<1>5. Types'
  BY <1>1, <1>2, <1>3, <1>4 DEF Leave, Inv, Types
<1>6. ASSUME NEW d \in Present'
      PROVE  Right(view'[d], Here(d)', d \in master', pos'[d], d \in outdated', clock')
  <2>1. d \in Clients \ {c} /\ place'[d] = place[d] /\ d \in Present
    BY <1>1 DEF Present
  <2>2. Here(d)' = Here(d)
    BY <2>1 DEF Here, Leave
  <2>3. Right(view[d], Here(d), d \in master, pos[d], d \in outdated, clock)
    BY <2>1 DEF Inv, Current
  <2>4. /\ view'[d] = view[d] /\ pos'[d] = pos[d] /\ clock' = clock
        /\ d \in master' <=> d \in master
        /\ d \in outdated' <=> d \in outdated
    BY <1>2, <1>3, <2>1 DEF Leave
  <2> QED BY <2>2, <2>3, <2>4 DEF Right
<1> QED BY <1>5, <1>6 DEF Inv, Current

\* /cm, /uncm, /forcepos and a new character: the evidence is outdated, and
\* right all the same where nothing is hidden.
LEMMA UnannouncedKeepsInv ==
  ASSUME Inv, NEW c \in Clients,
         RightsChange(c) \/ (\E p \in Positions : LosePosition(c, p))
  PROVE  Inv'
<1>1. /\ c \in Present /\ UNCHANGED <<place, room, clock, view>>
      /\ outdated' = outdated \cup {c}
      /\ pos' \in [Clients -> Positions]
      /\ \A d \in Clients \ {c} : pos'[d] = pos[d] /\ (d \in master' <=> d \in master)
  BY DEF RightsChange, LosePosition, Inv, Types
<1>2. Right(view[c], Here(c), c \in master, pos[c], c \in outdated, clock)
  BY <1>1 DEF Inv, Current
<1>3. Right(view[c], Here(c), c \in master', pos'[c], TRUE, clock)
  BY <1>2, NothingHidden DEF Right
<1>4. Right(view'[c], Here(c), c \in master', pos'[c], c \in outdated', clock)
  BY <1>1, <1>3 DEF Right
<1> QED BY <1>1, <1>4, OneViewChanges DEF Inv, Types

\* /pos.
LEMMA PickKeepsInv ==
  ASSUME Inv, NEW c \in Clients, NEW p \in Positions, PickPosition(c, p) PROVE Inv'
<1>1. /\ c \in Present /\ UNCHANGED <<place, room, clock, master>>
      /\ outdated' = outdated \ {c}
      /\ pos' = [pos EXCEPT ![c] = p]
      /\ view' = [view EXCEPT ![c] = [view[c] EXCEPT !.evidence =
                                      Visible(Here(c), c \in master, p)]]
  BY DEF PickPosition
<1>2. /\ DOMAIN view = Clients /\ DOMAIN view[c] = Shape
      /\ pos' \in [Clients -> Positions] /\ pos'[c] = p
      /\ \A d \in Clients \ {c} : pos'[d] = pos[d]
  BY <1>1 DEF Inv, Types
<1>3. Right(view[c], Here(c), c \in master, pos[c], c \in outdated, clock)
  BY <1>1 DEF Inv, Current
<1>4. /\ DOMAIN view' = Clients /\ \A d \in Clients \ {c} : view'[d] = view[d]
      /\ DOMAIN view'[c] = Shape
      /\ view'[c].evidence = Visible(Here(c), c \in master, p)
      /\ view'[c].health = view[c].health /\ view'[c].scene = view[c].scene
      /\ view'[c].timer = view[c].timer /\ view'[c].clock = view[c].clock
  BY <1>1, <1>2 DEF Shape
<1>5. Right(view'[c], Here(c), c \in master', pos'[c], c \in outdated', clock)
  BY <1>1, <1>2, <1>3, <1>4 DEF Right
<1> QED BY <1>1, <1>2, <1>4, <1>5, OneViewChanges

-----------------------------------------------------------------------------
(* The events of a court *)

\* Bars, splashes, background and their lock.
LEMMA SceneEventsKeepInv ==
  ASSUME Inv, NEW c \in Clients,
         \/ \E side \in Sides, v \in HealthValues : SetHealth(c, side, v)
         \/ Splash(c) \/ BgLock(c) \/ BgUnlock(c)
         \/ \E s \in Scenes : SetBackground(c, s) \/ SetSide(c, s)
  PROVE  Inv'
<1>1. c \in Present
  BY DEF SetHealth, Splash, BgLock, BgUnlock, SetBackground, SetSide
<1>2. DOMAIN Here(c) = Pieces /\ Here(c).timer \in Timers
  BY <1>1, SeenHere
<1>3. ASSUME NEW side \in Sides, NEW v \in HealthValues, SetHealth(c, side, v) PROVE Inv'
  <2> DEFINE r == [Logged(Here(c)) EXCEPT !.health[side] = Clamped(v)]
             news == [health |-> r.health]
  <2>1. ShowsArea(place[c], r, news)
    BY <1>3 DEF SetHealth
  <2>2. /\ DOMAIN r = Pieces /\ r.timer = Here(c).timer /\ r.scene = Here(c).scene
        /\ r.evidence = Here(c).evidence /\ r.mode = Here(c).mode
    BY <1>2 DEF Logged, Pieces
  <2> HIDE DEF r
  <2>3. \A w : DOMAIN w = Shape =>
                /\ Updated(w, news).health = r.health
                /\ Updated(w, news).scene = w.scene
                /\ Updated(w, news).timer = w.timer
                /\ Updated(w, news).evidence = w.evidence
                /\ Updated(w, news).clock = w.clock
    BY DEF Updated, Shape
  <2> HIDE DEF news
  <2> QED BY <1>1, <1>2, <2>1, <2>2, <2>3, AreaIsSeen
<1>4. ASSUME Splash(c) \/ BgLock(c) \/ BgUnlock(c) PROVE Inv'
  <2>1. PICK r \in {Logged(Here(c)), [Here(c) EXCEPT !.bgLocked = TRUE],
                    [Here(c) EXCEPT !.bgLocked = FALSE]} : ShowsArea(place[c], r, Nothing)
    BY <1>4 DEF Splash, BgLock, BgUnlock
  <2>2. /\ DOMAIN r = Pieces /\ r.timer = Here(c).timer /\ r.scene = Here(c).scene
        /\ r.evidence = Here(c).evidence /\ r.mode = Here(c).mode
        /\ r.health = Here(c).health
    BY <1>2, <2>1 DEF Logged, Pieces
  <2>3. \A w : DOMAIN w = Shape =>
                /\ Updated(w, Nothing).health = w.health
                /\ Updated(w, Nothing).scene = w.scene
                /\ Updated(w, Nothing).timer = w.timer
                /\ Updated(w, Nothing).evidence = w.evidence
                /\ Updated(w, Nothing).clock = w.clock
    BY DEF Updated, Shape, Nothing
  <2> QED BY <1>1, <1>2, <2>1, <2>2, <2>3, AreaIsSeen
<1>5. ASSUME NEW s \in Scenes, SetBackground(c, s) \/ SetSide(c, s) PROVE Inv'
  <2> DEFINE r == [Here(c) EXCEPT !.scene = s]
             news == [scene |-> s]
  <2>1. ShowsArea(place[c], r, news)
    BY <1>5 DEF SetBackground, SetSide
  <2>2. /\ DOMAIN r = Pieces /\ r.timer = Here(c).timer /\ r.scene = s
        /\ r.evidence = Here(c).evidence /\ r.mode = Here(c).mode
        /\ r.health = Here(c).health
    BY <1>2 DEF Pieces
  <2> HIDE DEF r
  <2>3. \A w : DOMAIN w = Shape =>
                /\ Updated(w, news).health = w.health
                /\ Updated(w, news).scene = s
                /\ Updated(w, news).timer = w.timer
                /\ Updated(w, news).evidence = w.evidence
                /\ Updated(w, news).clock = w.clock
    BY DEF Updated, Shape
  <2> HIDE DEF news
  <2> QED BY <1>1, <1>2, <2>1, <2>2, <2>3, AreaIsSeen
<1> QED BY <1>3, <1>4, <1>5

\* Everything about evidence.
LEMMA EvidenceEventsKeepInv ==
  ASSUME Inv, NEW c \in Clients,
         \/ \E e \in Evidence : CreateEvidence(c, e)
         \/ EditEvidence(c)
         \/ \E i \in 1..MaxEvidence :
              DeleteEvidence(c, i) \/ \E j \in 1..MaxEvidence : EvidenceSwap(c, i, j)
         \/ \E m \in EvidenceMods : EvidenceMod(c, m)
  PROVE  Inv'
<1>1. c \in Present
  BY DEF CreateEvidence, EditEvidence, DeleteEvidence, EvidenceSwap, EvidenceMod, Access
<1>2. DOMAIN Here(c) = Pieces /\ Here(c).timer \in Timers
  BY <1>1, SeenHere
<1>3. \/ ShowsEvidence(place[c], Here(c))
      \/ \E x : ShowsEvidence(place[c], [Here(c) EXCEPT !.evidence = x])
      \/ \E m : ShowsEvidence(place[c], [Here(c) EXCEPT !.mode = m])
  BY DEF CreateEvidence, EditEvidence, DeleteEvidence, EvidenceSwap, EvidenceMod
<1>4. CASE ShowsEvidence(place[c], Here(c))
  BY <1>1, <1>2, <1>4, EvidenceIsSeen
<1>5. ASSUME NEW x, ShowsEvidence(place[c], [Here(c) EXCEPT !.evidence = x]) PROVE Inv'
  <2> DEFINE r == [Here(c) EXCEPT !.evidence = x]
  <2>1. /\ DOMAIN r = Pieces /\ r.timer = Here(c).timer
        /\ r.health = Here(c).health /\ r.scene = Here(c).scene
    BY <1>2 DEF Pieces
  <2>2. ShowsEvidence(place[c], r)
    BY <1>5
  <2> HIDE DEF r
  <2> QED BY <1>1, <2>1, <2>2, EvidenceIsSeen
<1>6. ASSUME NEW m, ShowsEvidence(place[c], [Here(c) EXCEPT !.mode = m]) PROVE Inv'
  <2> DEFINE r == [Here(c) EXCEPT !.mode = m]
  <2>1. /\ DOMAIN r = Pieces /\ r.timer = Here(c).timer
        /\ r.health = Here(c).health /\ r.scene = Here(c).scene
    BY <1>2 DEF Pieces
  <2>2. ShowsEvidence(place[c], r)
    BY <1>6
  <2> HIDE DEF r
  <2> QED BY <1>1, <2>1, <2>2, EvidenceIsSeen
<1> QED BY <1>3, <1>4, <1>5, <1>6

\* /timer.
LEMMA TimerKeepsInv == ASSUME Inv, NEW c \in Clients, Timer(c) PROVE Inv'
<1>1. c \in Present
  BY DEF Timer
<1>2. DOMAIN Here(c) = Pieces /\ Here(c).timer \in Timers
  BY <1>1, SeenHere
<1>3. ASSUME NEW o \in TimerCommand(Here(c).timer), AreaTimer(c, o[1], o[2]) PROVE Inv'
  <2> DEFINE r == [Here(c) EXCEPT !.timer = o[1]]
             news == [timer |-> o[2]]
  <2>1. ShowsArea(place[c], r, news)
    BY <1>3 DEF AreaTimer
  <2>2. /\ DOMAIN r = Pieces /\ r.timer = o[1] /\ r.scene = Here(c).scene
        /\ r.evidence = Here(c).evidence /\ r.mode = Here(c).mode
        /\ r.health = Here(c).health
    BY <1>2 DEF Pieces
  <2>3. o[1] \in Timers /\ (o[2] = "running" <=> Ticks(o[1]))
    BY <1>2, <1>3, CommandIsRight
  <2> HIDE DEF r
  <2>4. \A w : DOMAIN w = Shape =>
                /\ Updated(w, news).health = w.health
                /\ Updated(w, news).scene = w.scene
                /\ Updated(w, news).timer = o[2]
                /\ Updated(w, news).evidence = w.evidence
                /\ Updated(w, news).clock = w.clock
    BY DEF Updated, Shape
  <2> HIDE DEF news
  <2> QED BY <1>1, <2>1, <2>2, <2>3, <2>4, AreaIsSeen
<1>4. ASSUME NEW o \in TimerCommand(clock), GlobalTimer(c, o[1], o[2]) PROVE Inv'
  <2>1. /\ clock' = o[1] /\ UNCHANGED <<place, pos, master, room, outdated>>
        /\ view' = [d \in Clients |->
                     IF d \in Present THEN [view[d] EXCEPT !.clock = o[2]] ELSE view[d]]
    BY <1>4 DEF GlobalTimer
  <2>2. o[1] \in Timers /\ (o[2] = "running" <=> Ticks(o[1]))
    BY <1>4, CommandIsRight DEF Inv, Types
  <2>3. Present' = Present /\ \A d \in Present : d \in Clients /\ Here(d)' = Here(d)
    BY <2>1 DEF Present, Here
  <2>4. ASSUME NEW d \in Present
        PROVE  /\ DOMAIN view'[d] = Shape /\ view'[d].clock = o[2]
               /\ view'[d].health = view[d].health /\ view'[d].scene = view[d].scene
               /\ view'[d].evidence = view[d].evidence /\ view'[d].timer = view[d].timer
    BY <2>1, <2>3 DEF Inv, Types, Shape
  <2>5. Types'
    BY <2>1, <2>2, <2>4 DEF Inv, Types
  <2>6. ASSUME NEW d \in Present
        PROVE  Right(view'[d], Here(d), d \in master, pos[d], d \in outdated, clock')
    <3>1. Right(view[d], Here(d), d \in master, pos[d], d \in outdated, clock)
      BY DEF Inv, Current
    <3> QED BY <2>1, <2>2, <2>4, <3>1 DEF Right
  <2> QED BY <2>1, <2>3, <2>5, <2>6 DEF Inv, Current
<1> QED BY <1>3, <1>4 DEF Timer

-----------------------------------------------------------------------------
(* The theorem *)

\* A server starts with nobody in session.
LEMMA InitInv == Init => Inv
<1> SUFFICES ASSUME Init PROVE Inv
  OBVIOUS
<1>1. Present = {}
  BY DEF Init, Present
<1>2. Idle \in Timers
  BY DEF Idle, NotSet, Timers
<1>3. Types
  BY <1>2, CourtroomAssumption
  DEF Init, Types, Blank, Shape, Pieces, CourtroomAssumption
<1> QED BY <1>1, <1>3 DEF Inv, Current

\* Every event leaves every view right.
LEMMA InvStep == Inv /\ [Next]_vars => Inv'
<1> SUFFICES ASSUME Inv, [Next]_vars PROVE Inv'
  OBVIOUS
<1>1. CASE UNCHANGED vars
  BY <1>1 DEF vars, Inv, Types, Current, Present, Here
<1>2. ASSUME NEW c \in Clients, CourtEvent(c) PROVE Inv'
  BY <1>2, SceneEventsKeepInv, EvidenceEventsKeepInv, TimerKeepsInv DEF CourtEvent
<1> QED BY <1>1, <1>2, JoinKeepsInv, LeaveKeepsInv, MoveKeepsInv, UnannouncedKeepsInv,
           PickKeepsInv DEF Next

\* Whatever changes where, whoever comes late sees the bars and the background.
THEOREM ScenesAreCurrent == Spec => []SceneIsCurrent
<1>1. Inv => SceneIsCurrent
  BY DEF Inv, Current, Right, SceneIsCurrent
<1> QED BY <1>1, InitInv, InvStep, PTL DEF Spec

\* The evidence of everybody is what the mode allows, in lists of any length.
THEOREM EvidenceStaysCurrent == Spec => []EvidenceIsCurrent
<1>1. Inv => EvidenceIsCurrent
  BY DEF Inv, Current, Right, EvidenceIsCurrent
<1> QED BY <1>1, InitInv, InvStep, PTL DEF Spec

\* Timers run on the screens exactly while they run, with intervals of any
\* length.
THEOREM TimersStayCurrent == Spec => []TimersAreCurrent
<1>1. Inv => TimersAreCurrent
  BY DEF Inv, Current, Right, TimersAreCurrent
<1> QED BY <1>1, InitInv, InvStep, PTL DEF Spec

-----------------------------------------------------------------------------
(* Types *)

SoundRoom(r) ==
  /\ r.mode \in EvidenceMods
  /\ r.evidence \in Seq(Evidence)
  /\ r.log \in 0..JudgeLogSize

\* What rooms hold, and who has rights: a moderator has them everywhere, also
\* before it comes.
Contents ==
  /\ \A a \in Areas : SoundRoom(room[a])
  /\ Moderators \subseteq master /\ master \subseteq Clients
  /\ outdated \subseteq Present

\* A piece that is taken out leaves pieces of evidence.
LEMMA PieceTaken ==
  ASSUME NEW q \in Seq(Evidence), NEW i \in DOMAIN q
  PROVE  RemoveAt(q, i) \in Seq(Evidence)
<1>1. /\ Len(q) \in Nat /\ i \in 1..Len(q)
      /\ \A j \in 1..Len(q) : q[j] \in Evidence
  BY LenProperties
<1>2. SubSeq(q, 1, i - 1) \in Seq(Evidence)
  <2>1. i - 1 \in Int /\ \A j \in 1..(i - 1) : q[j] \in Evidence
    BY <1>1
  <2> QED BY <2>1, SubSeqProperties
<1>3. SubSeq(q, i + 1, Len(q)) \in Seq(Evidence)
  <2>1. /\ i + 1 \in Int /\ Len(q) \in Int
        /\ \A j \in (i + 1)..Len(q) : q[j] \in Evidence
    BY <1>1
  <2> QED BY <2>1, SubSeqProperties
<1> QED BY <1>2, <1>3, ConcatProperties DEF RemoveAt

\* One more entry of the judge log, or one for another.
LEMMA LoggedIsSound ==
  ASSUME NEW r, DOMAIN r = Pieces, SoundRoom(r)
  PROVE  DOMAIN Logged(r) = Pieces /\ SoundRoom(Logged(r))
<1>1. JudgeLogSize \in Nat /\ r.log \in 0..JudgeLogSize
  BY CourtroomAssumption DEF CourtroomAssumption, SoundRoom
<1> DEFINE n == IF r.log = JudgeLogSize THEN r.log ELSE r.log + 1
<1>2. n \in 0..JudgeLogSize
  BY <1>1
<1>3. Logged(r) = [r EXCEPT !.log = n]
  BY DEF Logged
<1> HIDE DEF n
<1> QED BY <1>2, <1>3 DEF SoundRoom, Pieces

\* What a court event does to the area it is in.
LEMMA CourtChanges ==
  ASSUME Inv, Contents, NEW c \in Clients, CourtEvent(c), ~UNCHANGED room
  PROVE  \E r : Changes(place[c], r) /\ SoundRoom(r)
<1> DEFINE here == Here(c)
<1>1. c \in Present
  BY DEF CourtEvent, SetHealth, Splash, SetBackground, SetSide, BgLock, BgUnlock,
         CreateEvidence, EditEvidence, DeleteEvidence, EvidenceSwap, EvidenceMod, Access,
         Timer
<1>2. DOMAIN here = Pieces /\ SoundRoom(here)
  BY <1>1, SeenHere DEF Contents
<1>3. DOMAIN Logged(here) = Pieces /\ SoundRoom(Logged(here))
  BY <1>2, LoggedIsSound
<1> HIDE DEF here
<1>4. ASSUME NEW r, Changes(place[c], r), SoundRoom(r)
      PROVE  \E x : Changes(place[c], x) /\ SoundRoom(x)
  BY <1>4
<1>5. ASSUME NEW side, NEW v, SetHealth(c, side, v)
      PROVE  \E r : Changes(place[c], r) /\ SoundRoom(r)
  <2> DEFINE r == [Logged(here) EXCEPT !.health[side] = Clamped(v)]
  <2>1. Changes(place[c], r)
    BY <1>5 DEF SetHealth, ShowsArea, here
  <2>2. SoundRoom(r)
    BY <1>3 DEF SoundRoom, Pieces
  <2> QED BY <2>1, <2>2
<1>6. CASE Splash(c)
  BY <1>3, <1>6 DEF Splash, ShowsArea, here
<1>7. ASSUME BgLock(c) \/ BgUnlock(c) \/ (\E s : SetBackground(c, s) \/ SetSide(c, s))
      PROVE  \E r : Changes(place[c], r) /\ SoundRoom(r)
  <2>1. PICK x : \/ Changes(place[c], [here EXCEPT !.bgLocked = x])
                 \/ Changes(place[c], [here EXCEPT !.scene = x])
    BY <1>7 DEF BgLock, BgUnlock, SetBackground, SetSide, ShowsArea, here
  <2>2. SoundRoom([here EXCEPT !.bgLocked = x]) /\ SoundRoom([here EXCEPT !.scene = x])
    BY <1>2 DEF SoundRoom, Pieces
  <2> QED BY <2>1, <2>2
<1>8. ASSUME NEW q \in Seq(Evidence),
             ShowsEvidence(place[c], [here EXCEPT !.evidence = q])
      PROVE  \E r : Changes(place[c], r) /\ SoundRoom(r)
  <2>1. SoundRoom([here EXCEPT !.evidence = q])
    BY <1>2 DEF SoundRoom, Pieces
  <2> QED BY <1>8, <2>1 DEF ShowsEvidence
<1>9. here.evidence \in Seq(Evidence)
  BY <1>2 DEF SoundRoom
<1>10. ASSUME NEW e \in Evidence, CreateEvidence(c, e)
       PROVE  \E r : Changes(place[c], r) /\ SoundRoom(r)
  <2>1. ShowsEvidence(place[c], [here EXCEPT !.evidence = Append(here.evidence, e)])
    BY <1>10 DEF CreateEvidence, here
  <2>2. Append(here.evidence, e) \in Seq(Evidence)
    BY <1>9
  <2> QED BY <1>8, <2>1, <2>2
<1>11. CASE EditEvidence(c)
  BY <1>2, <1>11 DEF EditEvidence, ShowsEvidence, here
<1>12. ASSUME NEW i, DeleteEvidence(c, i)
       PROVE  \E r : Changes(place[c], r) /\ SoundRoom(r)
  <2>1. /\ i \in DOMAIN here.evidence
        /\ ShowsEvidence(place[c], [here EXCEPT !.evidence = RemoveAt(here.evidence, i)])
    BY <1>12 DEF DeleteEvidence, here
  <2> QED BY <1>8, <1>9, <2>1, PieceTaken
<1>13. ASSUME NEW i, NEW j, EvidenceSwap(c, i, j)
       PROVE  \E r : Changes(place[c], r) /\ SoundRoom(r)
  <2> DEFINE old == here.evidence
             q == [old EXCEPT ![i] = old[j], ![j] = old[i]]
  <2>1. {i, j} \subseteq DOMAIN old /\ ShowsEvidence(place[c], [here EXCEPT !.evidence = q])
    BY <1>13 DEF EvidenceSwap, here
  <2>2. /\ Len(old) \in Nat /\ DOMAIN old = 1..Len(old)
        /\ \A k \in 1..Len(old) : old[k] \in Evidence
    BY <1>9, LenProperties
  <2>3. q \in [1..Len(old) -> Evidence]
    <3>1. old \in [1..Len(old) -> Evidence]
      BY <1>9, LenProperties
    <3> QED BY <2>1, <2>2, <3>1
  <2>4. q \in Seq(Evidence)
    <3> HIDE DEF q
    <3> QED BY <2>2, <2>3
  <2> QED BY <1>8, <2>1, <2>4
<1>14. ASSUME NEW m \in EvidenceMods, EvidenceMod(c, m)
       PROVE  \E r : Changes(place[c], r) /\ SoundRoom(r)
  <2>1. ShowsEvidence(place[c], [here EXCEPT !.mode = m])
    BY <1>14 DEF EvidenceMod, here
  <2>2. SoundRoom([here EXCEPT !.mode = m])
    BY <1>2 DEF SoundRoom, Pieces
  <2> QED BY <2>1, <2>2 DEF ShowsEvidence
<1>15. CASE Timer(c)
  <2>1. PICK t : Changes(place[c], [here EXCEPT !.timer = t])
    BY <1>15 DEF Timer, AreaTimer, GlobalTimer, ShowsArea, here
  <2>2. SoundRoom([here EXCEPT !.timer = t])
    BY <1>2 DEF SoundRoom, Pieces
  <2> QED BY <2>1, <2>2
<1> QED BY <1>5, <1>6, <1>7, <1>10, <1>11, <1>12, <1>13, <1>14, <1>15 DEF CourtEvent

\* Who is in session, and whose evidence is outdated, during a court event.
LEMMA CourtKeepsPeople ==
  ASSUME NEW c \in Clients, CourtEvent(c)
  PROVE  UNCHANGED <<place, master>> /\ outdated' \subseteq outdated
BY DEF CourtEvent, SetHealth, Splash, SetBackground, SetSide, BgLock, BgUnlock,
       CreateEvidence, EditEvidence, DeleteEvidence, EvidenceSwap, EvidenceMod, Timer,
       AreaTimer, GlobalTimer, ShowsArea, ShowsEvidence

LEMMA ContentsStep == Inv /\ Contents /\ [Next]_vars => Contents'
<1> SUFFICES ASSUME Inv, Contents, [Next]_vars PROVE Contents'
  OBVIOUS
<1>1. CASE UNCHANGED vars
  BY <1>1 DEF vars, Contents, Present
<1>2. ASSUME NEW c \in Clients, CourtEvent(c) PROVE Contents'
  <2>1. UNCHANGED <<place, master>> /\ outdated' \subseteq outdated
    BY <1>2, CourtKeepsPeople
  <2>2. \A a \in Areas : SoundRoom(room'[a])
    <3>1. CASE UNCHANGED room
      BY <3>1 DEF Contents
    <3>2. CASE ~UNCHANGED room
      <4>1. PICK r : Changes(place[c], r) /\ SoundRoom(r)
        BY <1>2, <3>2, CourtChanges
      <4> QED BY <4>1 DEF Changes, Contents, Inv, Types
    <3> QED BY <3>1, <3>2
  <2> QED BY <2>1, <2>2 DEF Contents, Present
<1>3. ASSUME NEW c \in Clients, Join(c) \/ Leave(c) \/ (\E a \in Areas : ChangeArea(c, a))
      PROVE  Contents'
  <2>1. UNCHANGED room
    BY <1>3 DEF Join, Leave, ChangeArea
  <2>2. Moderators \subseteq master' /\ master' \subseteq Clients
    BY <1>3, CourtroomAssumption DEF Join, Leave, ChangeArea, Contents, CourtroomAssumption
  <2>3. outdated' \subseteq Present'
    <3>1. CASE Leave(c)
      <4>1. DOMAIN place = Clients
        BY DEF Inv, Types
      <4>2. Present' = Present \ {c} /\ outdated' = outdated \ {c}
        BY <3>1, <4>1 DEF Leave, Present
      <4> QED BY <4>2 DEF Contents
    <3>2. CASE ~Leave(c)
      <4>1. 0 \in Areas /\ DOMAIN place = Clients
        BY CourtroomAssumption DEF Areas, CourtroomAssumption, Inv, Types
      <4>2. PICK a \in Areas : place' = [place EXCEPT ![c] = a]
        BY <1>3, <3>2, <4>1 DEF Join, ChangeArea
      <4>3. outdated' \subseteq outdated
        BY <1>3, <3>2 DEF Join, ChangeArea
      <4>4. Present \subseteq Present'
        BY <4>1, <4>2, CourtroomAssumption DEF Present, CourtroomAssumption
      <4> QED BY <4>3, <4>4 DEF Contents
    <3> QED BY <3>1, <3>2
  <2> QED BY <2>1, <2>2, <2>3 DEF Contents
<1>4. ASSUME NEW c \in Clients,
             RightsChange(c) \/ (\E p : PickPosition(c, p) \/ LosePosition(c, p))
      PROVE  Contents'
  <2>1. UNCHANGED <<place, room>> /\ c \in Present /\ outdated' \subseteq outdated \cup {c}
    BY <1>4 DEF RightsChange, PickPosition, LosePosition
  <2>2. Moderators \subseteq master' /\ master' \subseteq Clients
    BY <1>4 DEF RightsChange, PickPosition, LosePosition, Contents
  <2> QED BY <2>1, <2>2 DEF Contents, Present
<1> QED BY <1>1, <1>2, <1>3, <1>4 DEF Next

\* Everybody is in an area or in none, moderators have their rights, rooms hold
\* a mode, pieces of evidence and a log that is not too long, and evidence is
\* outdated only for who is there.
THEOREM TypeCorrect == Spec => []TypeOK
<1>1. Init => Contents
  <2> SUFFICES ASSUME Init PROVE Contents
    OBVIOUS
  <2>1. 0 \in 0..JudgeLogSize /\ DefaultMode \in EvidenceMods /\ Moderators \subseteq Clients
    BY CourtroomAssumption DEF CourtroomAssumption
  <2>2. ASSUME NEW a \in Areas
        PROVE  room[a].mode = DefaultMode /\ room[a].evidence = << >> /\ room[a].log = 0
    <3>1. room[a] = [health |-> [side \in Sides |-> MaxHealth], scene |-> DefaultScene,
                     bgLocked |-> FALSE, mode |-> DefaultMode, evidence |-> << >>,
                     log |-> 0, timer |-> Idle]
      BY Zenon DEF Init
    <3> QED BY <3>1
  <2>3. \A a \in Areas : SoundRoom(room[a])
    <3>1. << >> \in Seq(Evidence)
      OBVIOUS
    <3> QED BY <2>1, <2>2, <3>1, Zenon DEF SoundRoom
  <2> QED BY <2>1, <2>3 DEF Init, Contents
<1>2. Inv /\ Contents => TypeOK
  BY DEF Inv, Types, Contents, SoundRoom, TypeOK
<1> QED BY <1>1, <1>2, ContentsStep, InitInv, InvStep, PTL DEF Spec

=============================================================================
