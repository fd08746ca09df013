# Kenji: a TLA+ model of the server

Kenji is a server for Attorney Online: a single Qt process that accepts
websocket connections, gives each client a player id, keeps the clients in
*areas*, and lets them talk, choose characters, play music and run cases there.
These modules model the parts of it that keep state between two messages. TLC
checks them on small instances; TLAPS proves the main theorems for every
instance. Paths below are relative to the directory that holds `server.cpp`,
`aoclient.cpp` and the rest of the C++ sources.

## 1. How the server runs

There is one thread with Qt's event loop. A handler (of a packet, a command, a
timer, a disconnection) runs to its end before the next one starts, so **one
handler is one step** of the model. What interleaves is the order of events:

* packets and commands of all clients, in any order;
* disconnections, at any time, also in the middle of the handshake;
* `Server::removeClient`, which `clientConnected` connects to `sessionFinished`
  as a *queued* call (server.cpp:522): between the end of a session and the
  removal of the client other handlers run, and they still find it by id;
* timers;
* the clock, against which bans are compared (`Bans`);
* a crash of the process, and what is read back at the next start (`Accounts`).

## 2. Inventory

| Component | State it keeps | Operations | Talks to | What makes it correct | Module |
|---|---|---|---|---|---|
| Client registry (`server.cpp`) | `m_client_list`, `m_client_map`, `m_id_stack` | `clientConnected`, `removeClient`, `client(id)`, `broadcast` | every command looks clients up by id | list, map and stack agree; ids come back; limit per address | `Server`, `PlayerIds` |
| Client session (`aoclient.cpp`, `client/`) | processor (handshake, session), area, character, curse | `Hello`, `finishSession`, `changeArea`, `changeCharacter` | registry, areas | a client is in one area, and leaves nothing behind | `Server` |
| Area membership, ownership, locks (`area_data.cpp`, `commands/area.cpp`, `/clearcm`) | `m_joined_ids`, `m_playerCount`, `m_owners`, `m_invited`, `m_locked` | `/cm`, `/uncm`, `/clearcm`, `/invite`, `/uninvite`, `/area_lock`, `/area_spectate`, `/area_unlock`, `/area_kick`, `/area` | registry, area updates | owners are granted and invited, locks have owners | `AreaData`, `AreaCommands` |
| Characters and charcurse (`aoclient.cpp`, `commands/messaging.cpp`) | `m_charactersTaken`, `m_char_id`, `m_current_char`, `m_is_charcursed`, `m_charcurse_list` | select, `/switch`, `/randomchar`, `/charselect`, `/force_charselect`, `/charcurse`, `/uncharcurse` | areas, moving | what is used is taken, what is left is free, a curse is kept | `CharacterCommands` |
| Area updates, ARUP (`AOClient::arup`) | what everybody was last told | after joins, leaves, `/cm`, locks | owners are looked up by id | what was told is true | `Server` (`news`) |
| Jukebox and music lists (`area_data.cpp`, `music_manager.cpp`, `commands/music.cpp`) | `m_jukebox`, its queue and timer; `m_custom_lists`, `m_customs_ordered`, `m_global_enabled` | `/addsong`, `/addcategory`, `/removeentry`, `/toggleroot`, `/clearcustom`, `/togglejukebox`, `/jukebox_skip`, `/play`, choosing a track, the timer | the jukebox looks lengths up in the list | the lists agree, the timer follows the queue, every song plays | `Jukebox` |
| Bans and kicks (`db_manager.cpp`, `commands/moderation.cpp`, `ModerationAction`) | table `BANS`, sockets that are closing | `isIPBanned`, `isHDIDBanned`, `/ban`, `/kick`, `/unban`, `/update_ban`, the packet | registry (refusal), `Hello` | who is banned does not stay | `Bans` |
| Accounts and database (`db_manager.cpp`) | table `USERS`, `user_version` | create, delete, set role, authenticate, migrate | authentication, crashes between two statements | root is never without its role | `Accounts` |
| Authentication and roles (`commands/authentication.cpp`, `acl_roles_handler.cpp`, `loginAttempt`) | `m_authenticated`, `m_acl_role_id`, `m_is_logging_in`, the authorisation type, `m_roles` | `/login`, `/logout`, `/changeauth`, `/rootpass`, `/adduser`, `/removeuser`, `/setperms`, `/reload` | `checkPermission` of every command | root keeps its role, and who logs in gets a role that an account has then | `Accounts`, `Commands` |
| Command dispatch and extensions (`handleCommand`, `command_extension.cpp`) | `m_extensions` | load, dispatch by name and alias, `/commands` | permissions | what is listed may be run; an alias names one command | `Commands`, `Accounts` |
| Configuration (`config_manager.cpp`) | values of ini files, the authorisation type in memory and in the file | read, write | all | | constants; the type in `Accounts` |
| Testimony (`testimony_recorder.cpp`, `commands/casing.cpp`) | `m_testimony`, `m_statement`, `m_testimonyRecording`, files | `/testify`, `/examine`, `/pause`, `/add`, `/update`, `/delete`, IC messages, jumps, save and load | IC chat | the position is a statement; recording is in step with it | `Testimony` |
| Timers (`commands/roleplay.cpp`) | four timers per area, one global | set, start, pause, unset | clients in the area and on joining | what is shown is what runs | `Courtroom` |
| Evidence, judge log, health bars, background and side | lists and values of an area | add, delete, swap, change mode, change bars | broadcasts; positions of clients | everybody sees its area as it is | `Courtroom` |
| OOC chat, private and global messages, modcalls, flags (`commands/messaging.cpp`, `packet_chat`) | names, flags of a client | `/pm`, `/g`, `/m`, `/s`, `/announce`, `/ooc_mute`, ... | observer, log | a line that is heard is logged where it was said | `Chat` |
| Player state observer (`playerstateobserver.cpp`) | its own client list | register, unregister, updates | signals of clients | everybody has the true list of players | `Chat` |
| Log buffer (`logger/u_logger.cpp`) | a bounded queue per area | append | writers, modcall | the newest lines, in order | `LogBuffer`, `Chat` |
| Command helpers (`commands/command_helper.cpp`) | none | `parseTime`, dice, password rules | commands | results in range | not modelled |
| Discord, server publisher, start-up, ipid | HTTP output, files | | | | not modelled: I/O |
| `kal` network library | sockets and packets | | | | external: a submodule; its packets are the model's events |

The hard behaviours are those of ids that outlive their clients (a queued
removal, ids handed out again last-returned-first), of lists of ids kept in
areas beside the registry, of two notions of a client's character (the one in
use and the one last asked for), of timers that fire on what others have
changed since, of copies that every client keeps of what is the server's (players,
evidence, bars, timers), of positions in lists that are edited while they are
replayed, and of rights that outlive the setting under which they were given.
`PROJECT.json` lists each of them with its line.

## 3. The modules

    AreaData          operators on one area (class AreaData)
    Server            variables of the whole server, registry, session, moving
    AreaCommands      commands about owners, invitations, locks   (EXTENDS Server)
    CharacterCommands commands about characters and curses        (EXTENDS Server)
    Kenji             these events composed, Spec, FairSpec, the properties
    PlayerIds         abstract allocation of ids, which Kenji implements
    Jukebox           song list and jukebox of one area
    Bans              bans, kicks, and how they close connections
    Commands          roles, extensions and dispatch, as functions of the files
    Accounts          logins, authorisation, accounts, migration  (EXTENDS Commands)
    AccountStore      what the accounts promise, which Accounts implements
    Testimony         the recorder of one area, its commands and files
    Courtroom         bars, scene, evidence, timers and judge log of all areas
    LogBuffer         one bounded buffer of lines
    Chat              players, names, flags, messages and logs    (EXTENDS LogBuffer)

    MCKenji, MCJukebox, MCBans, MCAccounts, MCTestimony, MCCourtroom, MCChat
                      instances for TLC
    MCLimits          testimony and buffer of one area against config.ini

    KenjiProofs       types, the registry, and its refinement
    MemberProofs      ownership, area updates, members, limit, characters,
                      curses, player counts, crashes      (EXTENDS KenjiProofs)
    JukeboxProofs, BanProofs, AccountsProofs, TestimonyProofs, CourtroomProofs, ChatProofs

Every handler is one action: its early returns are its guard, its calls and their
order are in its primed variables. A command that is refused changes nothing and is a
stutter. The models of §3.2 each take one concern of the server and leave
the others free: where a question is answered by another module (who is where,
who may do what), the model allows every answer, so that what it shows holds of
the composition too.

### 3.1 Kenji and Jukebox

**State.** `idStack`, `clientMap`, `client` and `areas` are `m_id_stack`,
`m_client_map`, the `AOClient` objects and `m_areas`. The list `m_client_list`
is the set of clients whose `phase` is not `"none"`. `client[c].character` is
`m_current_char` and `client[c].charId` is `m_char_id`: the code lets them
differ, and several properties are about that. `news` is what the area updates
have last said (the packet itself is unfinished in the code; what is modelled
is when which part is announced). `process` becomes `"crashed"` where the code
dereferences a client it did not find (in `arup` and in `broadcast` to an area),
`"astray"` where it dereferences an area it did not find (`/a` with a number out of
range, messaging.cpp:569; `AskedAreas` are the numbers that clients type) and
`"hung"` where a handler loops for ever; `Halted` then stutters, so that TLC's
deadlock check stays on everywhere. `Commit` is the common end
of a handler that changes areas, clients and news, and may die on the way. The lists of ids in
an area are only searched and cleared with `removeAll`, so they are sets.

**Abstractions.** Permissions granted by a login are the constant `Moderators`;
a client that is a CM has its permission only in the area it owns, as in
`checkPermission`. Ban checks are the constant `Barred`. A socket that a handler closes is taken to
disconnect later (`FinishSession` may happen at any time); packets that may
still be delivered after `close()` depend on the network library. An `AOClient`
object is used again after its removal, as a new one. In `Jukebox`, who may send a command is left
out, and names are those after the extension or the category marks have been added; links are ones that
`validateSong` accepts. `m_customs_ordered` is a set because its order is only
displayed. `MusicManager::reloadRequest` is connected to no signal, so the root
list is constant.

### 3.2 The other models

**Bans.** `bans` is table `BANS`; the ID of a row is its position
(AUTOINCREMENT). `list` is `m_client_list`, in order, because `/ban` and `/kick`
take the clients of an address in that order
(`InListOrder`), and the row has the machine of the first. `conn` has the phase, the hardware id and
whether the handler has closed the socket. The newest matching row decides a
check; rows of the same second are ordered by nothing, so the check may take any
of them. The clock moves between events up to `MaxClock`; a duration is the
number of ticks that `parseTime` returned, or `Permanent`, a constant of the
network library whose value the repository only uses. A hello can still be
accepted after the socket was closed by a handler. The history variable `spared`
has, per client, the bans about it that came into force while it was there and
sent it nowhere: those that `/update_ban` changed, and rows that name its machine
and another address. `BannedAreLeaving` asks both checks again at every moment and
excepts these two.

**Commands and Accounts.** The files `acl_roles.ini` and `command_extensions.ini`
are sequences of groups. Loading roles is a fold, as in the code, with the group
that `ACLRolesHandler::loadFile` does not leave when a role is repeated. Loading extensions is
written without one, so that it can be reasoned about: of the groups that name a command the first
counts (`Read`), and it gets the aliases that none of those before it has (`Recorded`). Words
are in lower case, as the comparisons fold them. Roles keep their spelling (`Spelled`), because
`/setperms` asks the table for the upper case and compares with SUPER what was typed. A
password is right or wrong. `authFile`, `authType` and `pending` are
the value of `auth` in the ini file, in `QSettings`, and that the second has not
been written yet. `Crash` may happen between any two events and, while the
server starts, between any two statements of the migration; it loses what is
pending and every session. `legacy` is history: root dates from a database
without roles. `AccountStore` is the abstract specification: a store whose migration is one
step, whose accounts change one at a time, and of which a login reads one role. It knows no
passwords, prompts, files or kinds of authorisation. The mapping takes the role of root, until
the version is written, for the one it had in the old database (`StoredRole`): nobody
can log in before.

**Testimony.** `Say` is the part of the IC handler that records, inserts and
replaces statements and that replays them. The handler of this commit is empty;
`Say` is translated from `backup/packet_ms.cpp`, the handler it replaces, since
nothing else calls `addStatement` and `updateStatement`. `m_testimonyRecording`
has no initial value: `Init` allows each. Entries are titles or statements; the
texts are not told apart. `process` becomes `"crashed"` where `at()` is called out of
range. `started` is history: `/testify` began what is in `testimony`.

**Courtroom.** `place` and `pos` are area and position of each client, `master` who has
the rights of a CM there, `room` the `AreaData` part of each area, `clock` the
global timer, and `view` what the client has been sent last. Clients move freely
and their rights change at any time. An area has four timers that are handled
alike; one of them is modelled. The judge log is its length. `outdated` is
history: clients whose rights or position changed since evidence was last sent to
them; the code sends no list then.

**Chat.** A client is the id it has. `profile` is what
`PlayerStateObserver` reports of it, `seen` the list each client was sent, `log` the
buffers. Anybody may use any command and be anywhere. What a line says and how it is
signed is left out: a chat line has the name, a case announcement and a call for help
the character when the name is empty (clientsessionprocessor.cpp:76, 465). `newest` is history:
the newest lines of each buffer. `BufferIsTail` compares the buffers with it. A buffer
of the model holds what the code lets it hold, one line more than `logbuffer`.

## 4. What the runs check

| Run | Instance | What it shows |
|---|---|---|
| `ownership` | 3 client objects, 2 ids, 2 areas, no moderator | types; `ListenersAreInSession`; `OwnersAreInvited`; `LockHasOwner`; `NewsIsCurrent`; `CrashHasCause` (the process dies of nothing but an owner or a listener of area 0 that is no client, or an area that is none); `CountFollowsSessions` (area by area); `OwnershipIsGranted` |
| `lifecycle` | 5 client objects, 2 ids, one a moderator; two share an address, two are on loopback, one is banned | `RegistryConsistent`, `MultiClientLimitHeld`, `LastOwnerFreesLock`, the refinement `AllocatorSpec`, and under fairness `IdReturns` |
| `characters` | 2 clients, one a moderator that has id 0, stays and is not cursed, 2 areas, every list of 2 characters, ids asked for from -2 to 1; users send no area commands | `SpectatorHasNoCharacter`, `LeaverFreesCharacter`, `CurseLeavesChoice`, `CurseIsKept` |
| `jukebox` | a root song and its category, 2 custom songs, lengths -1, 0 and 1, a custom category | `ListsAgree`, `NoNameTwice`, `TimerFollowsQueue`, `QueuedOnce`, `PlaysUntilSwitchedOff`, and under fairness `QueuedSongPlays` |
| `bans` | 2 clients with a machine each at one address, one of them a moderator that stays; a third client on the other's machine elsewhere; 2 rows | `BannedAreLeaving` (whom the check of the address or of the machine would not let in now is being sent away) |
| `accounts` | 2 clients, root and alice; a new and an old database, files with repeated roles and with aliases that clash | `AdvancedHasRoot`, `LoginSurvivesChange` (whoever is logged in without an account has every right), `AliasNamesOne`, `ListedIsAllowed`, the refinement `StoreSpec` |
| `testimony` | 2 clients, one may save; 2 statements by `/testify`, 5 entries in all | `PositionInRange`, `RecordingInStep`, `TitleFirst` |
| `courtroom` | a moderator and a player kept from the judge controls, 2 areas, evidence hidden from some | `SceneIsCurrent`, `EvidenceIsCurrent`, `TimersAreCurrent` |
| `chat` | 2 ids that change hands, 2 areas, buffers of two lines | `PlayersSeen`, `BufferIsTail` |
| `stale_owner` | as `ownership`, ends in a violation | `OwnersAreClients`, see below |
| `count` | 2 clients, 1 area, ends in a violation | `CountIsClients`, see below |
| `limits` | the recorder and the buffer of one area, ends in a violation | `SomeLimitHolds`, see below |

**Where code and comment disagree.** Three runs state what a comment of the
repository says and end in a violation.

* `stale_owner`: area_data.h:216 calls `owners` the ids of clients. `/cm <id>` promotes
  a client whose session is over; the area keeps an owner that is no client, and the next
  update of the CMs dereferences it. The loop in `finishSession` has the same effect for a
  client that owns several areas: `l_updateLocks || removeOwner` stops calling `removeOwner`
  after the first released lock.
* `count`: area_data.h:983 calls `m_playerCount` the amount of clients inside the area. A
  client that disconnects before its Hello is subtracted without having been added, and
  `/area_kick` of a client that is being removed counts it out twice and into area 0.
  `CountFollowsSessions`, which passes, says by how much the count is off: by these two and
  nothing else.
* `limits`: config.ini:39 calls `maximum_statements` the maximum number of statements that can
  be recorded, and config.ini:29 `logbuffer` the amount of messages an area stores. A testimony gets one
  statement more, not counting its title, and a buffer keeps one line more. The property says
  that at least one of the two is kept to; that it fails refutes both.

**Bounds.** Two ids and three client objects are the least at which an id is
handed out again while another client is still there and a third waits; five
objects over two ids add every combination of shared, loopback and banned
addresses. Two areas are needed for moving and for the loop over all areas;
with two ids an area can have an owner, an invited client and a stranger (area 0 has
an owner of area 1). Two characters are the least with which one can be on a
curse list and another not. `SelectableIds` bounds the ids that clients ask for; the
`characters` run includes one below the range (which the code accepts), and its moderator comes
first, stays, does not ask for it and is not cursed itself, so that the run stays small: the
client it acts on is the one that comes, leaves and comes back. `MaxDrift` bounds
how far the player count may leave `0..MaxPlayers`, since connections that never
say Hello can lower it without end. Client objects are symmetric where none is a
moderator and none differs in address. The run about characters protects its areas
(nobody becomes CM), and
`CharactersSpec` takes users who send no command about areas
(the cfg's action constraint, `ModeratorPresides`, is what keeps the moderator there). `lifecycle` has one area
and lets clients name a second, which is where the process goes astray. Three songs are
needed for the draw to leave one out that is neither the first nor the last to
come, which is where a song could wait for ever.

In `bans` two clients share an address and differ in their machine, and a third has
one of the machines elsewhere, so that a ban can match by one and not by the other; two rows are
the least for one ban to hide another, of the same second or a later one, and the durations are
permanent, refused, over at once, and one tick, which ends within `MaxClock = 1`. The moderator
connects first and stays (`ModeratorStays`). In
`accounts` the files have what makes loading go wrong (the same role twice
before another, an alias two commands want, an alias that is a command). In
`testimony` three entries more than the limit leave room for insertions
beyond it, up to `MaxEntries`: `/add` has no limit of its own. In `courtroom`, where every
aspect is independent of the others, TLC continues only from states in which at most one
(`MaxTouched`) differs from what was configured, clients are elsewhere and their views still free
(`FewTouched`); the theorems of `CourtroomProofs` have no such bound. Bars, timers and
the judge log have the least value above zero at which an end of the range can be
passed. In `chat` two areas and two ids are the least for a list of players to miss a
move, two lines for a dropped line to be the wrong one.

**Fairness.** `IdReturns` assumes `WF(RemoveClient(c))`: Qt delivers a queued call as
long as the loop runs. Nothing is assumed of users or sockets. `QueuedSongPlays` assumes
that the timer, while it runs, makes each draw that stays possible some time: the
timer is a repeating `QTimer` and the draw comes from a uniform generator. CMs may go
on adding, removing and skipping songs all the while.

**Mutants.** Every property of the passing runs is violated when one operator is
replaced by a plausible wrong version of it; these stand in the modules just
before what they replace, each with a comment that starts with "Mutant".

## 5. What is proved

The theorems hold for any number of clients, ids, areas, characters, songs, names,
entries and pieces of evidence, under `ServerAssumption`, `JukeboxAssumption`, `BansAssumption`, `CommandsAssumption`,
`AccountsAssumption`, `TestimonyAssumption`, `CourtroomAssumption`, `LogBufferAssumption` and `ChatAssumption`. These say no
more than that the constants have their types, that there is an id and an area, that names
are not ambiguous, and that the table of commands can be put in order. Every safety property of the runs has its theorem. What
remains with TLC is listed at the end of this section. Besides, `Testimony`, `Bans`, `Accounts`
and `Courtroom` have a type invariant of their own, which no run checks and which
`TypeCorrect` in the proofs of each establishes.

*KenjiProofs.* The inductive invariant is `Registry`, that is `TypeOK` with
`RegistryConsistent`. Types alone are not inductive: `AreaKick` and `/charcurse`
act on `clientMap[t]`, which is a client only because the map agrees with the list.
`CommitRegistry` shows that a handler which ends in `Commit` keeps the registry if it
leaves every client's phase on its side of "registered" and its id alone; the lemmas per
event then only show types. The two actions that move ids rest on what popping and
pushing do to a stack without duplicates. Theorems: `TypeCorrect`,
`RegistryCorrect`, `RegistryImplementsAllocator` (a connection is a `HandOut`, a removal
a `TakeBack`, every other event a stutter).

*MemberProofs, first part.* The invariant `Order` is `OwnersAreInvited`, `LockHasOwner` and
`NewsIsCurrent` together. It is proved area by area: `Rule(A, B)` says what one area
may become in one step, `OwnerRules` and `MemberRules` that each operation of
`AreaData` obeys it, and `OneAreaOrder` lifts that to the map. `FinishSession` is
the one event that rewrites many areas. Theorems: `OwnersInvited`, `LocksOwned`,
`NewsCurrent`, `LastOwnerFrees`.

*MemberProofs, second part.* `Quiet` and `MovesTo` say what any event may do to clients and
members: leave them where they are, or take one client of the registry from its area to
another. `ListenersAreInSession` is inductive with two facts more (`Listening`): ids of clients are
distinct, and who is still in its handshake is in area 0. `SpectatorHasNoCharacter`
and `LeaverFreesCharacter` rest on `Unspoilt`: the id that means "no character" is never
among the taken ones. Without it `changeCharacter` could
refuse to become a spectator, and free nothing. The limit per address needs that
the clients of an address are finitely many, which follows from their distinct ids, and that
only a connection adds one. `Behaved` says what a step does to
curses, freed characters and new owners. Theorems: `ListenersCorrect`, `LimitHolds`,
`SpectatorsUseNone`, `LeaversFree`, `CursedHaveChoice`, `CurseHolds`, `OwnershipGranted`.

*MemberProofs, third part.* `CountFollowsSessions` compares the change of a counter with that of the
cardinality of a set, for one area at a time. `CountRules` has the four ways there are: nobody comes or goes, one comes, one
goes, and one is subtracted that was never added; it rests on the registry being finite. `Quiet` and `MovesTo` say
which way an event takes, with `Listening` for `/area_kick`, which must not find a client that is still in its handshake
outside area 0. `CrashHasCause` needs no induction on crashes: whatever handler dies, its cause is in the state
before, and stays in the state it dies in. A stray listener outside area 0 contradicts `ListenersAreInSession`
(`StrayListener`), and an owner that a handler itself adds was found before it was added (`StrayOwner`); so what
is left is an owner or a listener of area 0 that was there before. `/a` is the one event that goes astray, and an area that is not there was named. Theorems: `CountsFollow`, `CrashesHaveCause`.

*JukeboxProofs.* `TimerFollowsQueue` and `QueuedOnce` are inductive together with the types of the queue;
`AppendOnce` and `WithoutOne` say what enqueueing and drawing do to a sequence
without duplicates. Theorems: `ListsStayTogether`, `NoNameHidden`, `TimerWithQueue`,
`NeverQueuedTwice`, `OnlyOffSilences`.

*BanProofs.* `BannedAreLeaving` is inductive with two facts more: nobody is in the
list twice, so that a removal leaves nothing behind; and no row is from the future, so that a
ban of duration 0, as `/unban` leaves it, is over, and a row that is added is among the newest.
Rows that are added are all about one address: everybody there is closed in the same step, and
whoever is in session elsewhere on a machine they name is spared the row that the query may now
find first (`RowsAdded`). A duration that changes is held against nobody who is there (`DurationChanged`), and as
long as table and clock stand still, a verdict stands (`VerdictStands`). Theorems: `BannedLeave`, `TypeCorrect`.

*AccountsProofs.* One invariant is about the accounts: advanced authorisation has a
root, also in the file that a crash falls back to, and a root from a database without roles keeps its
place until the migration reaches it. The second is about the sessions: a login
without a name was made with the modpass and has role SUPER. The third, `Loaded`, says that the extensions are what one of
the files gives; of two commands in a file the later has no alias of the earlier (`LaterGroupYields`), and
a name that is nobody's alias is answered by its command only (`ListedAsDispatched`). The refinement
rests on all of these and on `ServesMigrated`: a server that runs has the present version, so that no
command reads or writes accounts before the migration is over. Each command is then a step of
the store or a stutter, and so is each statement of the migration but the last, which is the
store's `Migrate`. Two properties follow from the store alone, without looking at a handler again:
`RootStays` and `RolesAreOfAccounts`. Theorems: `AdvancedAlwaysHasRoot`, `MigrationIsComplete`,
`LoginsSurviveChange`, `AliasesNameOne`, `ListedIsAlwaysAllowed`, `AccountsImplementStore`, `RootIsKept`, `RolesAreGiven`,
`TypeCorrect`.

*TestimonyProofs.* The three properties are inductive together with the types and with
one fact about the file: what was saved of a testimony that was begun starts with
its title. `RemoveAt` and `InsertAt` are the operations on sequences the lemmas are about.
Theorems: `PositionStaysInRange`, `RecordingStaysInStep`, `TitleStaysFirst`, `TypeCorrect`.

*CourtroomProofs.* The invariant says of every client that its view is right
for the area it is in. Every event changes one area and sends it to all who are
there, moves one client and sends it all, or changes the view of one. The types need one fact more than they
say: a moderator has its rights before it comes, not only while it is there. Theorems:
`ScenesAreCurrent`, `EvidenceStaysCurrent`, `TimersStayCurrent`, `TypeCorrect`.

*ChatProofs.* One invariant is about the lists of players, one about
the buffers. The second is a refinement: the buffer is `Newest` of all lines, and
`EnqueuedIsNewest` shows that enqueueing onto the newest lines gives the newest lines.
Theorems: `PlayersAreSeen`, `BuffersAreTails`.

Only model-checked: the two liveness properties, `IdReturns` and `QueuedSongPlays`, since liveness
under fairness and ENABLED are beyond the prover. No theorem says what `LoadRoles` computes from a
file, which would be an induction over its groups; the theorems that mention roles hold for whatever it computes.

## 6. Behaviours seen on the way

These have no run of their own. Three comments that the code contradicts have one
(section 4); of what follows, no comment decides it, but for the one on locked areas.

*Areas and characters.* `/a` with a number that is no area ends the process
(commands/messaging.cpp:569). A locked area is, by area_data.h:73, one that only invited clients
can enter; a Hello enters area 0 without asking. Locking invites everybody in the area, also clients that
are gone, and the invitation passes with the id. `/clearcm` frees a lock and does not announce it,
which is why `NewsIsCurrent` speaks of locks only without moderators. A lock that a
moderator set in an area without owner goes when any client disconnects
(aoclient.cpp:548). A refused character stays in `m_char_id` and is freed when
the client moves on, though somebody else uses it (aoclient.cpp:382).
`/charcurse` keeps the names it has read when a later one is unknown, and does not send its target back to the selection, since the curse refuses the
call that was to do it (commands/messaging.cpp:477). `/randomchar` with every
character taken does not return (commands/messaging.cpp:96).

*Jukebox.* A queued song that was removed from the list plays with an
interval of 0, for ever if it is the last (area_data.cpp:701). With several songs
queued, a skip may play the song again that is being skipped.

*Bans and accounts.* A ban of an address does not disconnect a client of the same machine at another
address, nor does `/update_ban` anybody; both meet the ban when they connect again. A short ban after a permanent one lets its target in
when it ends, because only the newest row is looked at (db_manager.cpp:65).
An account root made with `/adduser` has role NONE; `/changeauth` and `/rootpass` find
it and leave it as it is, and no command sets the role of root or removes it, so nobody has all rights after
the change (db_manager.cpp:218, commands/authentication.cpp:178). A role that is repeated in `acl_roles.ini`
empties those after it. `/setperms` compares the role with SUPER as it was typed and looks it up in upper case
(commands/authentication.cpp:172, acl_roles_handler.cpp:141); `/removeperms` gives the role that was typed behind the
name, if one was, and NONE otherwise (authentication.cpp:197).

*Testimony, timers, evidence.* A full recording, two entries more than
`maximum_statements` with its title, cannot be loaded again. A jump into a testimony that has only a title reads
out of range. Pausing a timer that does not run stores -1 (commands/roleplay.cpp:272).
A piece of evidence that is edited is not replaced.

*Chat.* `/afk` sent as a packet is cleared at once (aoclient.cpp:525). `/toggleglobal`
has no effect on `/g`. A name that `ChatPacket` refuses has been set already. The objects
of removed clients are not deleted. The flags that mute, gimp, disemvowel or
shake a client, and the flood guards, are read only by the IC handler in `backup/`.

## 7. Not modelled

* *Command helpers* return text or numbers and keep nothing; `parseTime` is arithmetic on a string.
* *Discord, server publisher, start-up, ipid*: output, files and hashing.
* *The `kal` library* is a submodule without content here. Its socket, its packets
  and its constants are as the code uses them.
* *IC chat*: the handler of this commit is empty; the testimony takes what it needs from `backup/packet_ms.cpp`.
* Of modelled components: AFK and pairing, statuses, documents and note cards, the hashing of passwords and
  `/changepass`, saving and editing of roles (which nothing calls), help, notices and listings, and switches of an area
  that only IC chat reads.

## 8. Plan

1. `parseTime` with its width, dice and password rules, against reference definitions.
2. Statuses, documents and note cards in `Courtroom`; AFK in `Chat`.
3. A recorder without positions as the abstract specification of `Testimony`.
4. `Accounts` composed with `Kenji`: `Moderators` replaced by what a login grants.
