------------------------------ MODULE Jukebox -------------------------------
(***************************************************************************)
(* The music of one area: the custom song list that MusicManager keeps for *)
(* it beside the server's root list, and the jukebox of AreaData, a queue  *)
(* of songs and the timer that plays the next one.  CMs edit the list and  *)
(* players fill the queue while the timer runs.                            *)
(*                                                                         *)
(* Who may send a command (CM, DJ block, spectator, music allowed) is left *)
(* out: every action is one that somebody may take.  Names are those after *)
(* addCustomSong and addCustomCategory have completed them (".opus",       *)
(* "=="), of songs and links that validateSong accepts; a refused request  *)
(* changes nothing.                                                        *)
(***************************************************************************)
EXTENDS Integers, Sequences, Functions

CONSTANTS
  Songs,       \* names of songs
  Categories,  \* names of categories: they have no extension
  Stop,        \* "~stop.mp3"
  Root,        \* the names of the server's own list (m_root_list)
  RootLength,  \* their durations in seconds
  Lengths      \* the durations that /addsong is given

Names == Songs \cup Categories

ASSUME JukeboxAssumption ==
  /\ Songs \cap Categories = {}
  /\ Stop \notin Names
  /\ Root \subseteq Names
  /\ RootLength \in [Root -> Int]
  /\ Lengths \subseteq Int

VARIABLES
  custom,      \* m_custom_lists: name -> duration
  ordered,     \* m_customs_ordered, of which the order is only shown
  rootEnabled, \* m_global_enabled
  jukebox,     \* m_jukebox
  queue,       \* m_jukebox_queue
  ticking,     \* m_jukebox_timer runs
  interval,    \* and fires every so many seconds
  current      \* m_currentMusic

musicVars == <<custom, ordered, rootEnabled>>
jukeboxVars == <<jukebox, queue, ticking, interval, current>>
vars == <<custom, ordered, rootEnabled, jukebox, queue, ticking, interval, current>>

Init ==
  /\ custom = << >>
  /\ ordered = {}
  /\ rootEnabled = TRUE
  /\ jukebox \in BOOLEAN
  /\ queue = << >>
  /\ ticking = FALSE
  /\ interval = 0
  /\ current = Stop

-----------------------------------------------------------------------------
(* The song list *)

Drop(names) == Restrict(custom, DOMAIN custom \ names)

AddCustom(name, length) ==
  /\ ~(name \in Root /\ rootEnabled)
  /\ name \notin DOMAIN custom
  /\ custom' = [n \in DOMAIN custom \cup {name} |->
                  IF n = name THEN length ELSE custom[n]]
  /\ ordered' = ordered \cup {name}
  /\ UNCHANGED <<rootEnabled, jukeboxVars>>

\* /addsong: the second list is asked too.
AddCustomSong(name, length) == name \notin ordered /\ AddCustom(name, length)

\* /addcategory
AddCustomCategory(name) == AddCustom(name, 0)

\* /removeentry: a name of the root list stays, whether that is enabled or not.
RemoveCategorySong(name) ==
  /\ name \in DOMAIN custom \ Root
  /\ custom' = Drop({name})
  /\ ordered' = ordered \ {name}
  /\ UNCHANGED <<rootEnabled, jukeboxVars>>

\* Mutant: what the custom list has of the root list's names stays.
ToggleRootEnabledOnly ==
  /\ rootEnabled' = ~rootEnabled
  /\ UNCHANGED <<custom, ordered, jukeboxVars>>

\* /toggleroot: enabling the root list removes its names from the custom list.
ToggleRootEnabled ==
  /\ rootEnabled' = ~rootEnabled
  /\ IF rootEnabled' THEN /\ custom' = Drop(Root)
                          /\ ordered' = ordered \ (DOMAIN custom \cap Root)
     ELSE UNCHANGED <<custom, ordered>>
  /\ UNCHANGED jukeboxVars

\* Mutant: the names stay in the order.
ClearCustomListOnly ==
  /\ custom' = << >>
  /\ UNCHANGED <<ordered, rootEnabled, jukeboxVars>>

\* /clearcustom
ClearCustomList ==
  /\ custom' = << >>
  /\ ordered' = {}
  /\ UNCHANGED <<rootEnabled, jukeboxVars>>

\* The duration songInformation returns: the root list goes first, and a name
\* that is nowhere has none.
LengthOf(name) ==
  IF name \in Root THEN RootLength[name]
  ELSE IF name \in DOMAIN custom THEN custom[name] ELSE 0

-----------------------------------------------------------------------------
(* The jukebox *)

\* Mutant: only the song that plays is not taken twice.
QueuedPlaying(song) == song = current

Queued(song) == song \in Range(queue)

\* Mutant: a new song goes to the front.
EnqueueFirst(song) == <<song>> \o queue

Enqueue(song) == Append(queue, song)

StartTimer(song) == ticking' = TRUE /\ interval' = LengthOf(song)

\* addJukeboxSong: the first song plays at once, and stays in the queue.
AddJukeboxSong(song) ==
  /\ ~Queued(song)
  /\ LengthOf(song) > 0
  /\ queue' = Enqueue(song)
  /\ IF queue = << >> THEN StartTimer(song) /\ current' = song
     ELSE UNCHANGED <<ticking, interval, current>>
  /\ UNCHANGED <<musicVars, jukebox>>

\* Choosing a track of the music list; a category means silence.
PlayTrack(name) ==
  LET song == IF name \in Categories THEN Stop ELSE name IN
    /\ name \in Root \cup ordered \cup {Stop}
    /\ IF jukebox THEN AddJukeboxSong(song)
       ELSE current' = song /\ UNCHANGED <<musicVars, jukebox, queue, ticking, interval>>

\* /play, which does not ask whether the jukebox is on.
Play(name) ==
  /\ current' = name
  /\ UNCHANGED <<musicVars, jukebox, queue, ticking, interval>>

\* Mutant: a single song leaves the queue when it has been played again.
SwitchJukeboxSongAlways(k) ==
  /\ k \in DOMAIN queue
  /\ current' = queue[k]
  /\ StartTimer(queue[k])
  /\ queue' = SubSeq(queue, 1, k - 1) \o SubSeq(queue, k + 1, Len(queue))
  /\ UNCHANGED <<musicVars, jukebox>>

\* switchJukeboxSong when the draw is k: of several songs any but the last
\* may be drawn, and leaves the queue.
SwitchJukeboxSong(k) ==
  /\ k \in DOMAIN queue
  /\ k < Len(queue) \/ Len(queue) = 1
  /\ current' = queue[k]
  /\ StartTimer(queue[k])
  /\ queue' = IF Len(queue) = 1 THEN queue
              ELSE SubSeq(queue, 1, k - 1) \o SubSeq(queue, k + 1, Len(queue))
  /\ UNCHANGED <<musicVars, jukebox>>

\* The timer fires; one that was started with a negative interval never does.
SongEnds(k) ==
  /\ ticking
  /\ interval >= 0
  /\ SwitchJukeboxSong(k)

\* /jukebox_skip
JukeboxSkip(k) ==
  /\ jukebox
  /\ SwitchJukeboxSong(k)

\* Mutant: the timer goes on.
ToggleJukeboxPlaying ==
  /\ jukebox' = ~jukebox
  /\ queue' = IF jukebox THEN << >> ELSE queue
  /\ UNCHANGED <<musicVars, ticking, interval, current>>

\* /togglejukebox
ToggleJukebox ==
  /\ jukebox' = ~jukebox
  /\ queue' = IF jukebox THEN << >> ELSE queue
  /\ ticking' = (ticking /\ ~jukebox)
  /\ UNCHANGED <<musicVars, interval, current>>

-----------------------------------------------------------------------------
ListEvent ==
  \/ \E name \in Songs, length \in Lengths : AddCustomSong(name, length)
  \/ \E name \in Categories : AddCustomCategory(name)
  \/ \E name \in Names : RemoveCategorySong(name)
  \/ ToggleRootEnabled
  \/ ClearCustomList

JukeboxEvent ==
  \/ \E name \in Names \cup {Stop} : PlayTrack(name)
  \/ \E name \in Songs : Play(name)
  \/ \E k \in DOMAIN queue : SongEnds(k) \/ JukeboxSkip(k)
  \/ ToggleJukebox

Next == ListEvent \/ JukeboxEvent

Spec == Init /\ [][Next]_vars

\* A timer that runs fires, and a draw that stays possible is made: the
\* generator leaves no song out for ever.
Fairness ==
  \A song \in Songs :
    SF_vars(\E k \in DOMAIN queue : queue[k] = song /\ SongEnds(k))

FairSpec == Spec /\ Fairness

-----------------------------------------------------------------------------
\* The two places that MusicManager keeps an area's custom names in agree
\* (isCustom reads the one, songInformation the other).
ListsAgree == ordered = DOMAIN custom

\* While the root list is shown, no custom name hides behind a root name.
NoNameTwice == rootEnabled => DOMAIN custom \cap Root = {}

\* The jukebox timer runs exactly while songs are queued, and songs are
\* queued only while the jukebox is on: the timer never fires on an empty
\* queue, where the draw would have nothing to draw from.
TimerFollowsQueue ==
  /\ ticking <=> queue # << >>
  /\ ~jukebox => queue = << >>

\* No song is queued twice, whatever has become of the song list meanwhile.
QueuedOnce == IsInjective(queue)

\* Songs run out only when the jukebox is switched off: neither the timer nor
\* /jukebox_skip takes the last one.
PlaysUntilSwitchedOff ==
  [][queue # << >> /\ queue' = << >> => jukebox /\ ~jukebox']_vars

\* Every queued song is played some time, although the draw leaves out the
\* last one and players keep adding songs, unless the jukebox is switched off
\* or a negative duration stops its timer.
QueuedSongPlays ==
  \A song \in Songs :
    Queued(song) ~> (current = song \/ ~Queued(song) \/ (ticking /\ interval < 0))

=============================================================================
