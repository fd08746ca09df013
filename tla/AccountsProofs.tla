--------------------------- MODULE AccountsProofs ---------------------------
(***************************************************************************)
(* Accounts for every table of commands, every set of names, roles and     *)
(* files, and every database the server may find: root is there when it is *)
(* needed, the migration reaches it, and logins outlive a change of type.  *)
(***************************************************************************)
EXTENDS Accounts, TLAPS

\* A session is a record with these fields.
Fields == {"authenticated", "role", "name", "prompt", "change"}

\* A crash during the migration never leaves a database that counts as
\* migrated and a root account without its role (updateDB).
MigrationReachesRoot ==
  version = DbVersion /\ legacy => users["root"] = "SUPER"

\* Root of an old database is never lost, whatever the version.
LegacyKeepsRoot == legacy => "root" \in DOMAIN users

UsersInv == AdvancedHasRoot /\ MigrationReachesRoot /\ LegacyKeepsRoot

\* The empty name is nobody's account.
NamedAccounts == DOMAIN users \subseteq Names

SessionsInv ==
  /\ NamedAccounts
  /\ DOMAIN session = Clients
  /\ \A c \in Clients : DOMAIN session[c] = Fields
  /\ \A c \in Clients : session[c].name \in Names \cup {NoName}
  /\ LoginSurvivesChange

-----------------------------------------------------------------------------
(* Accounts *)

\* An account that is created leaves the others as they are.
LEMMA CreatedAccount ==
  ASSUME NEW u, NEW role, CreateUser(u, role)
  PROVE  /\ DOMAIN users' = DOMAIN users \cup {u}
         /\ \A n \in DOMAIN users : users'[n] = users[n]
<1>1. CASE u \in DOMAIN users
  BY <1>1 DEF CreateUser
<1>2. CASE u \notin DOMAIN users
  BY <1>2 DEF CreateUser
<1> QED BY <1>1, <1>2

\* A server starts with the accounts of its database.
LEMMA InitUsers == Init => UsersInv /\ NamedAccounts
<1> SUFFICES ASSUME Init PROVE UsersInv /\ NamedAccounts
  OBVIOUS
<1>1. PICK db \in OldDatabases : version = db.version /\ users = db.users
  BY DEF Init
<1>2. version \in 0..(DbVersion - 1) /\ DOMAIN users \subseteq Names
  BY <1>1, AccountsAssumption DEF AccountsAssumption
<1>3. version # DbVersion
  BY <1>2 DEF DbVersion
<1>4. legacy = ("root" \in DOMAIN users)
  BY DEF Init
<1>5. "ADVANCED" \in {authFile, authType} => legacy
  BY DEF Init
<1> QED BY <1>2, <1>3, <1>4, <1>5
        DEF UsersInv, AdvancedHasRoot, MigrationReachesRoot, LegacyKeepsRoot, NamedAccounts

\* The events of one client.
LEMMA ClientKeepsUsers ==
  ASSUME UsersInv, NEW c \in Clients, AccountEvent(c)
  PROVE  UsersInv'
<1> USE DEF UsersInv, AdvancedHasRoot, MigrationReachesRoot, LegacyKeepsRoot,
            database, config, files
<1>1. CASE Login(c) \/ LoginFails(c) \/ LoginSucceeds(c) \/ Logout(c) \/ Leave(c)
              \/ ChangeAuth(c)
  BY <1>1 DEF Login, LoginFails, LoginSucceeds, Logout, Leave, ChangeAuth
<1>2. CASE SetRootPass(c)
  <2>1. CreateUser("root", "SUPER") /\ UNCHANGED <<version, legacy>>
    BY <1>2 DEF SetRootPass
  <2> QED BY <2>1, CreatedAccount
<1>3. CASE Reload(c)
  BY <1>3 DEF Reload, SyncSettings
<1>4. ASSUME NEW u \in Names, AddUser(c, u) PROVE UsersInv'
  <2>1. CreateUser(u, "NONE") /\ UNCHANGED <<version, legacy, authFile, authType>>
    BY <1>4 DEF AddUser
  <2> QED BY <2>1, CreatedAccount
<1>5. ASSUME NEW u \in Names, RemoveUser(c, u) PROVE UsersInv'
  BY <1>5 DEF RemoveUser, Removable
<1>6. ASSUME NEW u \in Names, NEW role, SetPerms(c, u, role) PROVE UsersInv'
  BY <1>6 DEF SetPerms
<1> QED BY <1>1, <1>2, <1>3, <1>4, <1>5, <1>6 DEF AccountEvent

\* Crashes, starts and the migration.
LEMMA ServerKeepsUsers == ASSUME UsersInv, ServerEvent PROVE UsersInv'
<1> USE DEF UsersInv, AdvancedHasRoot, MigrationReachesRoot, LegacyKeepsRoot,
            database, config, files
<1>1. CASE EditConfig \/ Sync
  BY <1>1 DEF EditConfig, Sync, SyncSettings
<1>2. CASE Crash \/ Start
  BY <1>2 DEF Crash, Start
<1>3. CASE MigrateColumn
  BY <1>3 DEF MigrateColumn, DbVersion
<1>4. CASE MigrateRoles
  BY <1>4 DEF MigrateRoles, RootMigrated, DbVersion
<1>5. CASE MigrateVersion
  BY <1>5 DEF MigrateVersion, RootMigrated
<1> QED BY <1>1, <1>2, <1>3, <1>4, <1>5 DEF ServerEvent

\* The accounts, through every event.
LEMMA UsersStep == UsersInv /\ [Next]_vars => UsersInv'
<1> SUFFICES ASSUME UsersInv, [Next]_vars PROVE UsersInv'
  OBVIOUS
<1>1. CASE UNCHANGED vars
  BY <1>1 DEF vars, UsersInv, AdvancedHasRoot, MigrationReachesRoot, LegacyKeepsRoot
<1> QED BY <1>1, ClientKeepsUsers, ServerKeepsUsers DEF Next

\* Whatever the commands, the files and the crashes: where accounts are asked
\* for, there is root.
THEOREM AdvancedAlwaysHasRoot == Spec => []AdvancedHasRoot
<1>1. UsersInv => AdvancedHasRoot
  BY DEF UsersInv
<1> QED BY <1>1, InitUsers, UsersStep, PTL DEF Spec

\* However often the migration is stopped and begun again, it is not over
\* before root has its role.
THEOREM MigrationIsComplete == Spec => []MigrationReachesRoot
<1>1. UsersInv => MigrationReachesRoot
  BY DEF UsersInv
<1> QED BY <1>1, InitUsers, UsersStep, PTL DEF Spec

-----------------------------------------------------------------------------
(* Sessions *)

\* No event gives an account the empty name.
LEMMA AccountsStayNamed == ASSUME NamedAccounts, [Next]_vars PROVE NamedAccounts'
<1> USE DEF NamedAccounts, database
<1>1. CASE UNCHANGED users
  BY <1>1
<1>2. ASSUME NEW c \in Clients, AccountEvent(c) PROVE NamedAccounts'
  <2>1. CASE SetRootPass(c)
    <3>1. CreateUser("root", "SUPER") /\ "root" \in Names
      BY <2>1, AccountsAssumption DEF SetRootPass, AccountsAssumption
    <3>2. DOMAIN users' = DOMAIN users \cup {"root"}
      BY <3>1, CreatedAccount
    <3> QED BY <3>1, <3>2
  <2>2. ASSUME NEW u \in Names, AddUser(c, u) PROVE NamedAccounts'
    <3>1. CreateUser(u, "NONE")
      BY <2>2 DEF AddUser
    <3>2. DOMAIN users' = DOMAIN users \cup {u}
      BY <3>1, CreatedAccount
    <3> QED BY <3>2
  <2>3. ASSUME NEW u \in Names, RemoveUser(c, u) PROVE NamedAccounts'
    BY <2>3 DEF RemoveUser, Removable
  <2>4. ASSUME NEW u \in Names, NEW role, SetPerms(c, u, role) PROVE NamedAccounts'
    BY <2>4 DEF SetPerms
  <2>5. CASE Login(c) \/ LoginFails(c) \/ LoginSucceeds(c) \/ Logout(c) \/ Leave(c)
               \/ ChangeAuth(c) \/ Reload(c)
    BY <2>5 DEF Login, LoginFails, LoginSucceeds, Logout, Leave, ChangeAuth, Reload
  <2> QED BY <1>2, <2>1, <2>2, <2>3, <2>4, <2>5 DEF AccountEvent
<1>3. CASE ServerEvent
  BY <1>3 DEF ServerEvent, EditConfig, Sync, Crash, Start, MigrateColumn, MigrateRoles,
              MigrateVersion
<1>4. UNCHANGED vars => UNCHANGED users
  BY DEF vars
<1> QED BY <1>1, <1>2, <1>3, <1>4 DEF Next

\* A session that is right, of one client or of all.
RightSession(s) ==
  /\ DOMAIN s = Fields
  /\ s.name \in Names \cup {NoName}
  /\ s.authenticated /\ s.name = NoName => s.role = "SUPER"

\* The invariant, one session at a time.
LEMMA RightSessions ==
  SessionsInv <=> /\ NamedAccounts
                  /\ DOMAIN session = Clients
                  /\ \A c \in Clients : RightSession(session[c])
BY DEF SessionsInv, LoginSurvivesChange, Logged, RightSession

\* A client that has just come is not logged in.
LEMMA NobodyIsRight == RightSession(LoggedOut)
BY DEF RightSession, LoggedOut, Fields

\* A right answer to the prompt gives the name of an account, or role SUPER.
LEMMA AnsweredIsRight ==
  ASSUME NamedAccounts, NEW s, RightSession(s), NEW u \in DOMAIN users
  PROVE  RightSession([LoginAs(s, u) EXCEPT !.prompt = FALSE])
<1>1. u # NoName /\ u \in Names
  BY AccountsAssumption DEF NamedAccounts, AccountsAssumption
<1> DEFINE t == [LoginAs(s, u) EXCEPT !.prompt = FALSE]
<1>2. DOMAIN t = Fields /\ t.name = u
  BY DEF RightSession, Fields, LoginAs
<1> HIDE DEF t
<1>3. RightSession(t)
  BY <1>1, <1>2 DEF RightSession
<1> QED BY <1>3 DEF t

\* The answer under simple authorisation.
LEMMA SimpleAnswerIsRight ==
  ASSUME NEW s, RightSession(s)
  PROVE  RightSession([LoginSimple(s) EXCEPT !.prompt = FALSE])
BY DEF RightSession, Fields, LoginSimple

\* The sessions of the clients, through every event.
LEMMA SessionsStep == SessionsInv /\ [Next]_vars => SessionsInv'
<1> SUFFICES ASSUME SessionsInv, [Next]_vars PROVE SessionsInv'
  OBVIOUS
<1>1. NamedAccounts /\ NamedAccounts'
  BY AccountsStayNamed DEF SessionsInv
<1>2. DOMAIN session = Clients /\ \A c \in Clients : RightSession(session[c])
  BY RightSessions
<1>3. SUFFICES DOMAIN session' = Clients /\ \A c \in Clients : RightSession(session'[c])
  BY <1>1 DEF SessionsInv, LoginSurvivesChange, Logged, RightSession
<1>4. CASE UNCHANGED session
  BY <1>2, <1>4
<1>5. CASE session' = [c \in Clients |-> LoggedOut]
  BY <1>5, NobodyIsRight
<1>6. ASSUME NEW c \in Clients, NEW s, RightSession(s),
             session' = [session EXCEPT ![c] = s]
      PROVE  DOMAIN session' = Clients /\ \A d \in Clients : RightSession(session'[d])
  BY <1>2, <1>6
<1>7. ASSUME NEW c \in Clients, LoginSucceeds(c)
      PROVE  \E s : RightSession(s) /\ session' = [session EXCEPT ![c] = s]
  <2>1. CASE authType = "SIMPLE"
    BY <1>2, <1>7, <2>1, SimpleAnswerIsRight DEF LoginSucceeds
  <2>2. CASE authType # "SIMPLE"
    <3>1. PICK u \in DOMAIN users :
            session' = [session EXCEPT ![c] = [LoginAs(session[c], u) EXCEPT !.prompt = FALSE]]
      BY <1>7, <2>2 DEF LoginSucceeds
    <3> QED BY <1>1, <1>2, <3>1, AnsweredIsRight
  <2> QED BY <2>1, <2>2
<1>8. ASSUME NEW c \in Clients,
             Login(c) \/ LoginFails(c) \/ Logout(c) \/ Leave(c) \/ ChangeAuth(c)
               \/ SetRootPass(c)
      PROVE  \E s : RightSession(s) /\ session' = [session EXCEPT ![c] = s]
  <2> DEFINE old == session[c]
  <2>1. RightSession(old)
    BY <1>2
  <2>2. /\ RightSession([old EXCEPT !.prompt = TRUE])
        /\ RightSession([old EXCEPT !.prompt = FALSE])
        /\ RightSession([old EXCEPT !.change = TRUE])
        /\ RightSession([old EXCEPT !.authenticated = FALSE])
        /\ RightSession([old EXCEPT !.authenticated = FALSE, !.role = NoRole,
                                   !.name = NoName])
    BY <2>1 DEF RightSession, Fields
  <2>3. \/ session' = [session EXCEPT ![c] = [old EXCEPT !.prompt = TRUE]]
        \/ session' = [session EXCEPT ![c] = [old EXCEPT !.prompt = FALSE]]
        \/ session' = [session EXCEPT ![c] = [old EXCEPT !.change = TRUE]]
        \/ session' = [session EXCEPT ![c] = [old EXCEPT !.authenticated = FALSE]]
        \/ session' = [session EXCEPT ![c] = [old EXCEPT !.authenticated = FALSE,
                                                 !.role = NoRole, !.name = NoName]]
        \/ session' = [session EXCEPT ![c] = LoggedOut]
    BY <1>8 DEF Login, LoginFails, Logout, Leave, ChangeAuth, SetRootPass
  <2> HIDE DEF old
  <2> QED BY <2>2, <2>3, NobodyIsRight
<1>9. ASSUME NEW c \in Clients, AccountEvent(c)
      PROVE  \/ UNCHANGED session
             \/ \E s : RightSession(s) /\ session' = [session EXCEPT ![c] = s]
  <2>1. ASSUME NEW u \in Names,
               AddUser(c, u) \/ RemoveUser(c, u) \/ (\E role : SetPerms(c, u, role))
        PROVE  UNCHANGED session
    BY <2>1 DEF AddUser, RemoveUser, SetPerms
  <2>2. Reload(c) => UNCHANGED session
    BY DEF Reload
  <2> QED BY <1>7, <1>8, <1>9, <2>1, <2>2 DEF AccountEvent
<1>10. CASE ServerEvent
  <2>1. UNCHANGED session \/ session' = [c \in Clients |-> LoggedOut]
    BY <1>10 DEF ServerEvent, EditConfig, Sync, Crash, Start, MigrateColumn,
                 MigrateRoles, MigrateVersion
  <2> QED BY <1>4, <1>5, <2>1
<1>11. UNCHANGED vars => UNCHANGED session
  BY DEF vars
<1> QED BY <1>4, <1>6, <1>9, <1>10, <1>11 DEF Next

\* Sessions of a server that has just started.
LEMMA InitSessions == Init => SessionsInv
<1>1. Init => session = [c \in Clients |-> LoggedOut]
  BY DEF Init
<1> QED BY <1>1, InitUsers, NobodyIsRight, RightSessions

\* Who logged in with the modpass has role SUPER, whatever becomes of the type
\* of authorisation and of the accounts.
THEOREM LoginsSurviveChange == Spec => []LoginSurvivesChange
<1>1. SessionsInv => LoginSurvivesChange
  BY DEF SessionsInv
<1> QED BY <1>1, InitSessions, SessionsStep, PTL DEF Spec

-----------------------------------------------------------------------------
(* Types *)

\* What is beside accounts and sessions.
Settings ==
  /\ process \in {"migrating", "running", "down"}
  /\ version \in 0..DbVersion
  /\ {authFile, authType} \subseteq {"SIMPLE", "ADVANCED"}

LEMMA InitSettings == Init => Settings
<1> SUFFICES ASSUME Init PROVE Settings
  OBVIOUS
<1>1. PICK db \in OldDatabases : version = db.version
  BY DEF Init
<1>2. version \in 0..(DbVersion - 1)
  BY <1>1, AccountsAssumption DEF AccountsAssumption
<1>3. version \in 0..DbVersion
  BY <1>2 DEF DbVersion
<1>4. authFile \in {"SIMPLE", "ADVANCED"} /\ authType = authFile /\ process = "down"
  BY DEF Init
<1> QED BY <1>3, <1>4 DEF Settings

\* The version only becomes 1 and DbVersion, and the type in memory and the
\* one in the file only each other, simple or, by /rootpass, advanced.
LEMMA SettingsStep == Settings /\ [Next]_vars => Settings'
<1> SUFFICES ASSUME Settings, [Next]_vars PROVE Settings'
  OBVIOUS
<1> USE DEF Settings, database, config
<1>1. CASE UNCHANGED vars
  BY <1>1 DEF vars
<1>2. CASE ServerEvent
  <2>1. CASE MigrateColumn \/ MigrateRoles \/ MigrateVersion
    BY <2>1 DEF MigrateColumn, MigrateRoles, MigrateVersion, DbVersion
  <2>2. CASE EditConfig \/ Sync \/ Crash \/ Start
    BY <2>2 DEF EditConfig, Sync, SyncSettings, Crash, Start
  <2> QED BY <1>2, <2>1, <2>2 DEF ServerEvent
<1>3. ASSUME NEW c \in Clients, AccountEvent(c) PROVE Settings'
  <2>1. CASE SetRootPass(c)
    BY <2>1 DEF SetRootPass
  <2>2. CASE Reload(c)
    BY <2>2 DEF Reload, SyncSettings
  <2>3. ASSUME NEW u \in Names,
               AddUser(c, u) \/ RemoveUser(c, u) \/ (\E role : SetPerms(c, u, role))
        PROVE  Settings'
    BY <2>3 DEF AddUser, RemoveUser, SetPerms
  <2>4. CASE Login(c) \/ LoginFails(c) \/ LoginSucceeds(c) \/ Logout(c) \/ Leave(c)
               \/ ChangeAuth(c)
    BY <2>4 DEF Login, LoginFails, LoginSucceeds, Logout, Leave, ChangeAuth
  <2> QED BY <1>3, <2>1, <2>2, <2>3, <2>4 DEF AccountEvent
<1> QED BY <1>1, <1>2, <1>3 DEF Next

\* The version is one the migration knows, and whoever is logged in by name has
\* one that accounts may have, also when its account is gone.
THEOREM TypeCorrect == Spec => []TypeOK
<1>1. Settings /\ SessionsInv => TypeOK
  BY DEF Settings, SessionsInv, NamedAccounts, TypeOK
<1> QED BY <1>1, InitSettings, SettingsStep, InitSessions, SessionsStep, PTL DEF Spec

-----------------------------------------------------------------------------
(* Extensions of commands *)

\* What was loaded last: nothing yet, or one of the files.
Loaded == extensions = << >> \/ \E x \in ExtensionFiles : extensions = LoadExtensions(x)

\* An extension is what one group of the file says, the first of its command.
LEMMA ExtensionOfGroup ==
  ASSUME NEW ini, NEW n \in DOMAIN LoadExtensions(ini)
  PROVE  \E i \in Read(ini) :
           ini[i].command = n /\ LoadExtensions(ini)[n] = Extension(ini, i)
<1> DEFINE i == CHOOSE j \in Read(ini) : ini[j].command = n
<1>1. n \in {ini[j].command : j \in Read(ini)}
  BY DEF LoadExtensions
<1>2. i \in Read(ini) /\ ini[i].command = n
  BY <1>1
<1>3. LoadExtensions(ini)[n] = Extension(ini, i)
  BY <1>1 DEF LoadExtensions
<1> QED BY <1>2, <1>3

\* Of two groups the later one gives up what the earlier one has.
LEMMA LaterGroupYields ==
  ASSUME NEW ini, NEW i \in Read(ini), NEW j \in Read(ini) \cap 1..(i - 1)
  PROVE  Extension(ini, j).aliases \cap Extension(ini, i).aliases = {}
<1>1. ini[j].aliases \subseteq Recorded(ini, i)
  BY DEF Recorded
<1>2. Extension(ini, i).aliases = ini[i].aliases \ Recorded(ini, i)
  BY DEF Extension, FreshAliases
<1>3. Extension(ini, j).aliases \subseteq ini[j].aliases
  BY DEF Extension, FreshAliases
<1> QED BY <1>1, <1>2, <1>3

\* What a file says gives no alias to two commands.
LEMMA LoadedAliasesApart ==
  ASSUME NEW ini \in Seq(Groups), NEW m \in DOMAIN LoadExtensions(ini),
         NEW n \in DOMAIN LoadExtensions(ini), m # n
  PROVE  LoadExtensions(ini)[m].aliases \cap LoadExtensions(ini)[n].aliases = {}
<1>1. PICK i \in Read(ini) :
        ini[i].command = m /\ LoadExtensions(ini)[m] = Extension(ini, i)
  BY ExtensionOfGroup
<1>2. PICK j \in Read(ini) :
        ini[j].command = n /\ LoadExtensions(ini)[n] = Extension(ini, j)
  BY ExtensionOfGroup
<1>3. i # j /\ i \in 1..Len(ini) /\ j \in 1..Len(ini)
  BY <1>1, <1>2 DEF Read
<1>4. i \in 1..(j - 1) \/ j \in 1..(i - 1)
  BY <1>3
<1> QED BY <1>1, <1>2, <1>4, LaterGroupYields

\* The extensions are those of a file, through every event.
LEMMA LoadedStep == Loaded /\ [Next]_vars => Loaded'
<1> SUFFICES ASSUME Loaded, [Next]_vars PROVE Loaded'
  OBVIOUS
<1>1. CASE UNCHANGED extensions
  BY <1>1 DEF Loaded
<1>2. ASSUME NEW c \in Clients, AccountEvent(c) PROVE Loaded'
  <2>1. CASE Reload(c)
    BY <2>1 DEF Reload, Loaded
  <2>2. ASSUME NEW u \in Names,
               AddUser(c, u) \/ RemoveUser(c, u) \/ (\E role : SetPerms(c, u, role))
        PROVE  UNCHANGED extensions
    BY <2>2 DEF AddUser, RemoveUser, SetPerms, files
  <2>3. CASE Login(c) \/ LoginFails(c) \/ LoginSucceeds(c) \/ Logout(c) \/ Leave(c)
               \/ ChangeAuth(c) \/ SetRootPass(c)
    BY <1>1, <2>3 DEF Login, LoginFails, LoginSucceeds, Logout, Leave, ChangeAuth,
                      SetRootPass, files
  <2> QED BY <1>1, <1>2, <2>1, <2>2, <2>3 DEF AccountEvent
<1>3. CASE Crash \/ Start
  BY <1>3 DEF Crash, Start, Loaded
<1>4. CASE EditConfig \/ Sync \/ MigrateColumn \/ MigrateRoles \/ MigrateVersion
  BY <1>1, <1>4 DEF EditConfig, Sync, MigrateColumn, MigrateRoles, MigrateVersion, files
<1>5. UNCHANGED vars => UNCHANGED extensions
  BY DEF vars
<1> QED BY <1>1, <1>2, <1>3, <1>4, <1>5 DEF Next, ServerEvent

\* However the file is written and whenever it is read again, an alias is that
\* of one command.
THEOREM AliasesNameOne == Spec => []AliasNamesOne
<1>1. Init => Loaded
  BY DEF Init, Loaded
<1>2. Loaded => AliasNamesOne
  <2> SUFFICES ASSUME Loaded, NEW m \in DOMAIN extensions, NEW n \in DOMAIN extensions,
                      m # n
               PROVE  extensions[m].aliases \cap extensions[n].aliases = {}
    BY DEF AliasNamesOne
  <2>1. extensions # << >>
    OBVIOUS
  <2>2. PICK x \in ExtensionFiles : extensions = LoadExtensions(x)
    BY <2>1 DEF Loaded
  <2> QED BY <2>2, LoadedAliasesApart, AccountsAssumption DEF AccountsAssumption
<1> QED BY <1>1, <1>2, LoadedStep, PTL DEF Spec

\* The first of one command is that command.
LEMMA FirstOfOne == ASSUME NEW n \in DOMAIN Table PROVE FirstOf({n}) = n
<1>1. Sorted \in Seq(DOMAIN Table) /\ IsInjective(Sorted) /\ n \in Range(Sorted)
  BY CommandsAssumption DEF CommandsAssumption
<1>2. PICK i \in DOMAIN Sorted : Sorted[i] = n
  BY <1>1 DEF Range
<1>3. \A j \in 1..(i - 1) : j \in DOMAIN Sorted /\ j # i
  BY <1>1
<1>4. \A j \in 1..(i - 1) : Sorted[j] \notin {n}
  BY <1>1, <1>2, <1>3 DEF IsInjective
<1>5. \E k \in DOMAIN Sorted :
        Sorted[k] \in {n} /\ \A j \in 1..(k - 1) : Sorted[j] \notin {n}
  BY <1>2, <1>4
<1>6. Sorted[CHOOSE k \in DOMAIN Sorted :
               Sorted[k] \in {n} /\ \A j \in 1..(k - 1) : Sorted[j] \notin {n}] \in {n}
  BY <1>5
<1> QED BY <1>6 DEF FirstOf

\* The two derivations agree on a name that is nobody's alias.
LEMMA ListedAsDispatched ==
  ASSUME NEW ext, NEW n \in DOMAIN Table,
         \A m \in DOMAIN ext : n \notin ext[m].aliases
  PROVE  ListedWants(ext, n) = Wanted(ext, n)
<1>1. CASE n \in DOMAIN ext
  <2>1. Answering(ext, n) = {n}
    BY <1>1 DEF Answering
  <2>2. FirstOf(Answering(ext, n)) = n /\ Target(ext, n) = n
    BY <2>1, FirstOfOne DEF Target
  <2> QED BY <1>1, <2>1, <2>2 DEF ListedWants, Wanted
<1>2. CASE n \notin DOMAIN ext
  <2>1. Answering(ext, n) = {}
    BY <1>2 DEF Answering
  <2> QED BY <1>2, <2>1 DEF ListedWants, Wanted, Target
<1> QED BY <1>1, <1>2

\* /commands lists to a client what the client may run, whatever the table, the
\* extensions and the roles.
THEOREM ListedIsAlwaysAllowed == Spec => []ListedIsAllowed
<1>1. ListedIsAllowed
  BY ListedAsDispatched DEF ListedIsAllowed
<1> QED BY <1>1, PTL

-----------------------------------------------------------------------------
(* What the accounts promise *)

\* The process serves a database of its own version only, and migrates only
\* one of an older version.
ServesMigrated ==
  /\ process = "running" => version = DbVersion
  /\ process = "migrating" => version # DbVersion

\* The process, through every event.
LEMMA ServesStep == ServesMigrated /\ [Next]_vars => ServesMigrated'
<1> SUFFICES ASSUME ServesMigrated, [Next]_vars PROVE ServesMigrated'
  OBVIOUS
<1> USE DEF ServesMigrated
<1>1. CASE UNCHANGED <<process, version>>
  BY <1>1
<1>2. ASSUME NEW c \in Clients, AccountEvent(c) PROVE UNCHANGED <<process, version>>
  <2>1. ASSUME NEW u \in Names,
               AddUser(c, u) \/ RemoveUser(c, u) \/ (\E role : SetPerms(c, u, role))
        PROVE  UNCHANGED <<process, version>>
    BY <2>1 DEF AddUser, RemoveUser, SetPerms
  <2>2. CASE Login(c) \/ LoginFails(c) \/ LoginSucceeds(c) \/ Logout(c) \/ Leave(c)
               \/ ChangeAuth(c) \/ SetRootPass(c) \/ Reload(c)
    BY <2>2 DEF Login, LoginFails, LoginSucceeds, Logout, Leave, ChangeAuth,
                SetRootPass, Reload, database
  <2> QED BY <1>2, <2>1, <2>2 DEF AccountEvent
<1>3. CASE ServerEvent
  BY <1>3 DEF ServerEvent, EditConfig, Sync, Crash, Start, MigrateColumn, MigrateRoles,
              MigrateVersion, database, DbVersion
<1>4. UNCHANGED vars => UNCHANGED <<process, version>>
  BY DEF vars
<1> QED BY <1>1, <1>2, <1>3, <1>4 DEF Next

\* The role a client is granted, one session at a time.
Granted(s) == IF s.authenticated THEN s.role ELSE NoRole

\* The granted roles of Store are those of the sessions.
LEMMA GrantedOfSessions ==
  [c \in Clients |-> IF Logged(c) THEN session[c].role ELSE NoRole]
    = [c \in Clients |-> Granted(session[c])]
BY DEF Logged, Granted

\* A change of one session is a change of what that client is granted.
LEMMA OneIsGranted ==
  ASSUME DOMAIN session = Clients, NEW c \in Clients, NEW s,
         session' = [session EXCEPT ![c] = s]
  PROVE  [d \in Clients |-> Granted(session'[d])]
           = [[d \in Clients |-> Granted(session[d])] EXCEPT ![c] = Granted(s)]
OBVIOUS

\* The roles that exist are those of the file that was read.
LEMMA RolesStand == UNCHANGED roles => UNCHANGED Roles
BY DEF Roles, RoleWords, RoleExists

\* Events that leave accounts and sessions alone are none of the store, or a
\* new reading of the roles.
LEMMA LoadsOrStutters ==
  ASSUME UNCHANGED <<version, users, session>>
  PROVE  Store!Load
BY DEF Store!Load, StoredRole, Logged

\* The store keeps its accounts and gets a new role for one client.
LEMMA OneEnters ==
  ASSUME SessionsInv, NEW c \in Clients, NEW s, session' = [session EXCEPT ![c] = s],
         UNCHANGED <<version, users, roles>>
  PROVE  /\ Granted(s) = NoRole => Store!Exit(c)
         /\ Granted(s) = Granted(session[c]) => UNCHANGED Store!store
         /\ (version = DbVersion /\ Granted(s) \in {"SUPER"} \cup {users[u] : u \in DOMAIN users})
              => Store!Enter(c)
<1>1. [d \in Clients |-> Granted(session'[d])]
        = [[d \in Clients |-> Granted(session[d])] EXCEPT ![c] = Granted(s)]
  BY OneIsGranted DEF SessionsInv
<1>2. /\ [d \in Clients |-> IF Logged(d) THEN session[d].role ELSE NoRole]
           = [d \in Clients |-> Granted(session[d])]
      /\ [d \in Clients |-> IF Logged(d) THEN session[d].role ELSE NoRole]'
           = [d \in Clients |-> Granted(session'[d])]
  BY DEF Logged, Granted
<1>3. UNCHANGED [n \in DOMAIN users |-> StoredRole(n)]
  BY DEF StoredRole
<1>4. ASSUME Granted(s) = NoRole PROVE Store!Exit(c)
  BY <1>1, <1>2, <1>3, <1>4, RolesStand DEF Store!Exit
<1>5. ASSUME Granted(s) = Granted(session[c]) PROVE UNCHANGED Store!store
  <2>1. [d \in Clients |-> Granted(session'[d])] = [d \in Clients |-> Granted(session[d])]
    BY <1>1, <1>5
  <2> QED BY <1>2, <1>3, <2>1, RolesStand DEF Store!store
<1>6. ASSUME version = DbVersion,
             Granted(s) \in {"SUPER"} \cup {users[u] : u \in DOMAIN users}
      PROVE  Store!Enter(c)
  <2> DEFINE stored == [n \in DOMAIN users |-> StoredRole(n)]
  <2>1. DOMAIN stored = DOMAIN users /\ \A u \in DOMAIN users : stored[u] = users[u]
    BY <1>6 DEF StoredRole
  <2>2. Granted(s) \in {"SUPER"} \cup {stored[u] : u \in DOMAIN stored}
    BY <1>6, <2>1
  <2> HIDE DEF stored
  <2>3. \E role \in {"SUPER"} \cup {stored[u] : u \in DOMAIN stored} :
          [d \in Clients |-> Granted(session'[d])]
            = [[d \in Clients |-> Granted(session[d])] EXCEPT ![c] = role]
    BY <1>1, <2>2
  <2> QED BY <1>2, <1>3, <1>6, <2>3, RolesStand DEF Store!Enter, stored
<1> QED BY <1>4, <1>5, <1>6

\* The login state changes; what the client is granted is the role of the
\* account it named, or of all moderators, or none any more.
LEMMA LoginsAreStoreSteps ==
  ASSUME SessionsInv, ServesMigrated, NEW c \in Clients,
         \/ Login(c) \/ LoginFails(c) \/ LoginSucceeds(c) \/ Logout(c) \/ Leave(c)
         \/ ChangeAuth(c)
  PROVE  Store!Enter(c) \/ Store!Exit(c) \/ UNCHANGED Store!store
<1> DEFINE old == session[c]
<1>1. /\ UNCHANGED <<version, users, roles>>
      /\ version = DbVersion
  BY DEF Login, LoginFails, LoginSucceeds, Logout, Leave, ChangeAuth, Runs, ServesMigrated,
         database, files
<1>2. DOMAIN old = Fields
  BY DEF SessionsInv
<1>3. ASSUME NEW s, session' = [session EXCEPT ![c] = s],
             \/ Granted(s) \in {NoRole, Granted(old)}
             \/ Granted(s) \in {"SUPER"} \cup {users[u] : u \in DOMAIN users}
      PROVE  Store!Enter(c) \/ Store!Exit(c) \/ UNCHANGED Store!store
  BY <1>1, <1>3, OneEnters
<1>4. CASE Login(c) \/ LoginFails(c) \/ ChangeAuth(c)
  <2>1. PICK s \in {[old EXCEPT !.prompt = TRUE], [old EXCEPT !.prompt = FALSE],
                    [old EXCEPT !.change = TRUE]} : session' = [session EXCEPT ![c] = s]
    BY <1>4 DEF Login, LoginFails, ChangeAuth
  <2>2. Granted(s) = Granted(old)
    BY <1>2, <2>1 DEF Granted, Fields
  <2> QED BY <1>3, <2>1, <2>2
<1>5. CASE Logout(c) \/ Leave(c)
  <2>1. PICK s \in {[old EXCEPT !.authenticated = FALSE, !.role = NoRole, !.name = NoName],
                    LoggedOut} : session' = [session EXCEPT ![c] = s]
    BY <1>5 DEF Logout, Leave
  <2>2. Granted(LoggedOut) = NoRole
    BY DEF Granted, LoggedOut
  <2>3. Granted([old EXCEPT !.authenticated = FALSE, !.role = NoRole, !.name = NoName]) = NoRole
    BY <1>2 DEF Granted, Fields
  <2>4. Granted(s) = NoRole
    BY <2>1, <2>2, <2>3
  <2> QED BY <1>3, <2>1, <2>4
<1>6. CASE LoginSucceeds(c)
  <2>1. CASE authType = "SIMPLE"
    <3>1. session' = [session EXCEPT ![c] = [LoginSimple(old) EXCEPT !.prompt = FALSE]]
      BY <1>6, <2>1 DEF LoginSucceeds
    <3>2. Granted([LoginSimple(old) EXCEPT !.prompt = FALSE]) = "SUPER"
      BY <1>2 DEF Granted, LoginSimple, Fields
    <3> QED BY <1>3, <3>1, <3>2
  <2>2. CASE authType # "SIMPLE"
    <3>1. PICK u \in DOMAIN users :
            session' = [session EXCEPT ![c] = [LoginAs(old, u) EXCEPT !.prompt = FALSE]]
      BY <1>6, <2>2 DEF LoginSucceeds
    <3>2. Granted([LoginAs(old, u) EXCEPT !.prompt = FALSE]) = users[u]
      BY <1>2 DEF Granted, LoginAs, Fields
    <3> QED BY <1>3, <3>1, <3>2
  <2> QED BY <2>1, <2>2
<1> QED BY <1>4, <1>5, <1>6

\* A migrated store holds the roles of table USERS.
LEMMA StoredWhenMigrated ==
  ASSUME version = DbVersion, UNCHANGED version
  PROVE  /\ [n \in DOMAIN users |-> StoredRole(n)] = [n \in DOMAIN users |-> users[n]]
         /\ [n \in DOMAIN users |-> StoredRole(n)]' = [n \in DOMAIN users' |-> users'[n]]
BY DEF StoredRole

\* The accounts change by one, or root is created for the advanced type.
LEMMA AccountsAreStoreSteps ==
  ASSUME SessionsInv, ServesMigrated, NEW c \in Clients
  PROVE  /\ SetRootPass(c) => Store!AddRoot(c) \/ Store!Exit(c)
         /\ \A u : /\ AddUser(c, u) => Store!Add(u) \/ UNCHANGED Store!store
                   /\ RemoveUser(c, u) => Store!Remove(u)
                   /\ \A role : SetPerms(c, u, role) => Store!Assign(u, role)
<1> DEFINE stored == [n \in DOMAIN users |-> users[n]]
<1> DEFINE next == [n \in DOMAIN users' |-> users'[n]]
<1> DEFINE mapped == [n \in DOMAIN users |-> StoredRole(n)]
<1>1. ASSUME version = DbVersion, UNCHANGED version PROVE mapped = stored /\ mapped' = next
  BY <1>1, StoredWhenMigrated
<1>2. ASSUME SetRootPass(c) PROVE Store!AddRoot(c) \/ Store!Exit(c)
  <2> DEFINE s == [session[c] EXCEPT !.authenticated = FALSE]
  <2>1. /\ version = DbVersion /\ UNCHANGED <<version, roles>>
        /\ session' = [session EXCEPT ![c] = s]
        /\ CreateUser("root", "SUPER")
    BY <1>2 DEF SetRootPass, Runs, ServesMigrated, files
  <2>2. Granted(s) = NoRole
    BY DEF Granted, SessionsInv, Fields
  <2>3. CASE "root" \in DOMAIN users
    <3>1. UNCHANGED users
      BY <2>1, <2>3 DEF CreateUser
    <3> QED BY <2>1, <2>2, <3>1, OneEnters
  <2>4. CASE "root" \notin DOMAIN users
    <3>1. users' = [n \in DOMAIN users \cup {"root"} |-> IF n = "root" THEN "SUPER" ELSE users[n]]
      BY <2>1, <2>4 DEF CreateUser
    <3>2. next = [n \in DOMAIN stored \cup {"root"} |-> IF n = "root" THEN "SUPER" ELSE stored[n]]
      BY <3>1
    <3>3. "root" \notin DOMAIN stored
      BY <2>4
    <3>4. [d \in Clients |-> Granted(session'[d])]
            = [[d \in Clients |-> Granted(session[d])] EXCEPT ![c] = NoRole]
      BY <2>1, <2>2, OneIsGranted DEF SessionsInv
    <3>5. /\ [d \in Clients |-> IF Logged(d) THEN session[d].role ELSE NoRole]
               = [d \in Clients |-> Granted(session[d])]
          /\ [d \in Clients |-> IF Logged(d) THEN session[d].role ELSE NoRole]'
               = [d \in Clients |-> Granted(session'[d])]
      BY DEF Logged, Granted
    <3>6. mapped = stored /\ mapped' = next
      BY <1>1, <2>1
    <3> HIDE DEF stored, next
    <3> QED BY <2>1, <3>2, <3>3, <3>4, <3>5, <3>6, RolesStand DEF Store!AddRoot, Store!Added
  <2> QED BY <2>3, <2>4
<1>3. ASSUME NEW u, AddUser(c, u) PROVE Store!Add(u) \/ UNCHANGED Store!store
  <2>1. /\ version = DbVersion /\ UNCHANGED <<version, roles, session>>
        /\ CreateUser(u, "NONE")
    BY <1>3 DEF AddUser, Runs, ServesMigrated, files
  <2>2. UNCHANGED [d \in Clients |-> IF Logged(d) THEN session[d].role ELSE NoRole]
    BY <2>1 DEF Logged
  <2>3. CASE u \in DOMAIN users
    <3>1. UNCHANGED users
      BY <2>1, <2>3 DEF CreateUser
    <3> QED BY <2>1, <2>2, <3>1, RolesStand DEF Store!store, StoredRole
  <2>4. CASE u \notin DOMAIN users
    <3>1. users' = [n \in DOMAIN users \cup {u} |-> IF n = u THEN "NONE" ELSE users[n]]
      BY <2>1, <2>4 DEF CreateUser
    <3>2. next = [n \in DOMAIN stored \cup {u} |-> IF n = u THEN "NONE" ELSE stored[n]]
      BY <3>1
    <3>3. u \notin DOMAIN stored
      BY <2>4
    <3>4. mapped = stored /\ mapped' = next
      BY <1>1, <2>1
    <3> HIDE DEF stored, next
    <3> QED BY <2>1, <2>2, <3>2, <3>3, <3>4, RolesStand DEF Store!Add, Store!Added
  <2> QED BY <2>3, <2>4
<1>4. ASSUME NEW u, RemoveUser(c, u) PROVE Store!Remove(u)
  <2>1. /\ version = DbVersion /\ UNCHANGED <<version, roles, session>>
        /\ u \in DOMAIN users \ {"root"}
        /\ users' = [n \in DOMAIN users \ {u} |-> users[n]]
    BY <1>4 DEF RemoveUser, Removable, Runs, ServesMigrated, files
  <2>2. UNCHANGED [d \in Clients |-> IF Logged(d) THEN session[d].role ELSE NoRole]
    BY <2>1 DEF Logged
  <2>3. next = [n \in DOMAIN stored \ {u} |-> stored[n]] /\ u \in DOMAIN stored \ {"root"}
    BY <2>1
  <2>4. mapped = stored /\ mapped' = next
    BY <1>1, <2>1
  <2> HIDE DEF stored, next
  <2> QED BY <2>1, <2>2, <2>3, <2>4, RolesStand DEF Store!Remove
<1>5. ASSUME NEW u, NEW role, SetPerms(c, u, role) PROVE Store!Assign(u, role)
  <2>1. /\ version = DbVersion /\ UNCHANGED <<version, roles, session>>
        /\ u \in DOMAIN users \ {"root"}
        /\ users' = [users EXCEPT ![u] = role]
    BY <1>5 DEF SetPerms, Runs, ServesMigrated, files
  <2>2. UNCHANGED [d \in Clients |-> IF Logged(d) THEN session[d].role ELSE NoRole]
    BY <2>1 DEF Logged
  <2>3. next = [stored EXCEPT ![u] = role] /\ u \in DOMAIN stored \ {"root"}
    BY <2>1
  <2>4. mapped = stored /\ mapped' = next
    BY <1>1, <2>1
  <2> HIDE DEF stored, next
  <2> QED BY <2>1, <2>2, <2>3, <2>4, RolesStand DEF Store!Assign
<1> HIDE DEF stored, next, mapped
<1> QED BY <1>2, <1>3, <1>4, <1>5

\* The events of one client, to the store.
LEMMA ClientStoreStep ==
  ASSUME SessionsInv, ServesMigrated, NEW c \in Clients, AccountEvent(c)
  PROVE  [Store!Next]_Store!store
<1>1. CASE Login(c) \/ LoginFails(c) \/ LoginSucceeds(c) \/ Logout(c) \/ Leave(c)
              \/ ChangeAuth(c)
  BY <1>1, LoginsAreStoreSteps DEF Store!Next
<1>2. CASE SetRootPass(c)
  BY <1>2, AccountsAreStoreSteps DEF Store!Next
<1>3. CASE Reload(c)
  BY <1>3, LoadsOrStutters DEF Reload, database, Store!Next
<1>4. ASSUME NEW u \in Names, AddUser(c, u) \/ RemoveUser(c, u)
      PROVE  [Store!Next]_Store!store
  BY <1>4, AccountsAreStoreSteps DEF Store!Next
<1>5. ASSUME NEW u \in Names, NEW role \in Roles, SetPerms(c, u, role)
      PROVE  Store!Next
  BY <1>5, AccountsAreStoreSteps DEF Store!Next
<1> QED BY <1>1, <1>2, <1>3, <1>4, <1>5 DEF AccountEvent

\* Crashes and starts are readings of the roles, and of the statements of the
\* migration only the last one is seen.
LEMMA ServerStoreStep ==
  ASSUME UsersInv, SessionsInv, ServesMigrated, ServerEvent
  PROVE  [Store!Next]_Store!store
<1>1. CASE EditConfig \/ Sync
  BY <1>1, LoadsOrStutters DEF EditConfig, Sync, database, Store!Next
<1>2. CASE Crash
  <2>1. [c \in Clients |-> IF Logged(c) THEN session[c].role ELSE NoRole]'
          = [c \in Clients |-> NoRole]
    BY <1>2 DEF Crash, Logged, LoggedOut
  <2>2. Store!Restart
    BY <1>2, <2>1 DEF Crash, database, Store!Restart, StoredRole
  <2> QED BY <2>2 DEF Store!Next
<1>3. CASE Start
  BY <1>3, LoadsOrStutters DEF Start, database, Store!Next
<1>4. CASE MigrateColumn \/ MigrateRoles
  <2>1. version # DbVersion /\ version' # DbVersion
    BY <1>4 DEF MigrateColumn, MigrateRoles, DbVersion
  <2>2. DOMAIN users' = DOMAIN users /\ \A n \in DOMAIN users : n # "root" => users'[n] = users[n]
    BY <1>4 DEF MigrateColumn, MigrateRoles
  <2>3. UNCHANGED [n \in DOMAIN users |-> StoredRole(n)]
    BY <2>1, <2>2 DEF StoredRole
  <2>4. Store!Load
    BY <1>4, <2>1, <2>3 DEF MigrateColumn, MigrateRoles, Store!Load, Logged
  <2> QED BY <2>4 DEF Store!Next
<1>5. CASE MigrateVersion
  <2> DEFINE stored == [n \in DOMAIN users |-> StoredRole(n)]
  <2>1. /\ version # DbVersion /\ version' = DbVersion
        /\ "root" \in DOMAIN users => users["root"] = "SUPER"
        /\ UNCHANGED <<users, roles, session>>
    BY <1>5 DEF MigrateVersion, RootMigrated, DbVersion, files
  <2>2. stored' = [n \in DOMAIN stored |-> IF n = "root" THEN "SUPER" ELSE stored[n]]
    BY <2>1 DEF StoredRole
  <2>3. UNCHANGED [c \in Clients |-> IF Logged(c) THEN session[c].role ELSE NoRole]
    BY <2>1 DEF Logged
  <2> HIDE DEF stored
  <2>4. Store!Migrate
    BY <2>1, <2>2, <2>3, RolesStand DEF Store!Migrate, stored
  <2> QED BY <2>4 DEF Store!Next
<1> QED BY <1>1, <1>2, <1>3, <1>4, <1>5 DEF ServerEvent

\* The old database is one of the store.
LEMMA InitStore == Init => Store!Init
<1> SUFFICES ASSUME Init PROVE Store!Init
  OBVIOUS
<1>1. PICK db \in OldDatabases : version = db.version /\ users = db.users
  BY DEF Init
<1>2. version # DbVersion /\ DOMAIN users \subseteq Names
  BY <1>1, AccountsAssumption DEF AccountsAssumption, DbVersion
<1>3. (version = DbVersion) = FALSE
  BY <1>2
<1>4. [c \in Clients |-> IF Logged(c) THEN session[c].role ELSE NoRole] = [c \in Clients |-> NoRole]
  BY DEF Init, Logged, LoggedOut
<1> QED BY <1>2, <1>3, <1>4 DEF Store!Init, StoredRole

StoreInv == UsersInv /\ SessionsInv /\ ServesMigrated

LEMMA InitStoreInv == Init => StoreInv
<1>1. Init => ServesMigrated
  BY DEF Init, ServesMigrated
<1> QED BY <1>1, InitUsers, InitSessions DEF StoreInv

LEMMA StoreInvStep == StoreInv /\ [Next]_vars => StoreInv'
BY UsersStep, SessionsStep, ServesStep DEF StoreInv

LEMMA EveryStepIsOfTheStore == StoreInv /\ [Next]_vars => [Store!Next]_Store!store
<1>1. UNCHANGED vars => UNCHANGED Store!store
  BY RolesStand DEF vars, Store!store, StoredRole, Logged
<1> QED BY <1>1, ClientStoreStep, ServerStoreStep DEF StoreInv, Next

\* The server with its statements, crashes and sessions implements the store,
\* for every set of clients, names, files and old databases.
THEOREM AccountsImplementStore == Spec => StoreSpec
BY InitStoreInv, StoreInvStep, EveryStepIsOfTheStore, InitStore, PTL
DEF Spec, StoreSpec, Store!Spec

-----------------------------------------------------------------------------
(* What follows from the store alone *)

\* Once the migration is over, root keeps its place and its role, whatever it
\* is: no command, no crash and no later start changes them.
RootStays ==
  [][version = DbVersion /\ "root" \in DOMAIN users =>
       /\ version' = DbVersion
       /\ "root" \in DOMAIN users' /\ users'["root"] = users["root"]]_vars

\* Nobody gets a role that is not the role of an account at that moment, or
\* SUPER with the password of all moderators (loginAttempt).
RolesAreOfAccounts ==
  [][\A c \in Clients :
       session'[c].authenticated
         /\ (~session[c].authenticated \/ session'[c].role # session[c].role) =>
         session'[c].role \in {NoRole, "SUPER"} \cup {users[u] : u \in DOMAIN users}]_vars

THEOREM RootIsKept == Spec => RootStays
<1>1. ASSUME StoreInv, [Next]_vars, version = DbVersion, "root" \in DOMAIN users
      PROVE  /\ version' = DbVersion
             /\ "root" \in DOMAIN users' /\ users'["root"] = users["root"]
  <2> DEFINE old == [n \in DOMAIN users |-> StoredRole(n)]
             new == [n \in DOMAIN users' |-> StoredRole(n)']
  <2>1. [Store!Next]_Store!store
    BY <1>1, EveryStepIsOfTheStore
  <2>2. (version' = DbVersion) /\ "root" \in DOMAIN new /\ new["root"] = old["root"]
    <3>1. DOMAIN old = DOMAIN users
      OBVIOUS
    <3> HIDE DEF old, new
    <3> QED BY <1>1, <2>1, <3>1
            DEF Store!Next, Store!store, Store!Migrate, Store!Load, Store!Restart, Store!Add,
                Store!AddRoot, Store!Added, Store!Remove, Store!Assign, Store!Enter,
                Store!Exit, old, new
  <2> QED BY <1>1, <2>2 DEF StoredRole
<1> QED BY <1>1, InitStoreInv, StoreInvStep, PTL DEF Spec, RootStays

THEOREM RolesAreGiven == Spec => RolesAreOfAccounts
<1>1. ASSUME StoreInv, [Next]_vars, NEW c \in Clients, session'[c].authenticated,
             ~session[c].authenticated \/ session'[c].role # session[c].role
      PROVE  session'[c].role \in {NoRole, "SUPER"} \cup {users[u] : u \in DOMAIN users}
  <2> DEFINE old == [d \in Clients |-> IF Logged(d) THEN session[d].role ELSE NoRole]
             new == [d \in Clients |-> IF Logged(d)' THEN session'[d].role ELSE NoRole]
             stored == [n \in DOMAIN users |-> StoredRole(n)]
  <2>1. new[c] = session'[c].role /\ (old[c] = new[c] => new[c] = NoRole)
    BY <1>1 DEF Logged
  <2>2. [Store!Next]_Store!store
    BY <1>1, EveryStepIsOfTheStore
  <2>3. \/ new = old \/ new = [d \in Clients |-> NoRole]
        \/ \E d \in Clients : new = [old EXCEPT ![d] = NoRole]
        \/ /\ version = DbVersion
           /\ \E d \in Clients, role \in {"SUPER"} \cup {stored[u] : u \in DOMAIN stored} :
                new = [old EXCEPT ![d] = role]
    <3> HIDE DEF stored
    <3> QED BY <2>2
            DEF Store!Next, Store!store, Store!Migrate, Store!Load, Store!Restart, Store!Add,
                Store!AddRoot, Store!Added, Store!Remove, Store!Assign, Store!Enter,
                Store!Exit, stored
  <2>4. version = DbVersion => \A u \in DOMAIN stored : u \in DOMAIN users /\ stored[u] = users[u]
    BY DEF StoredRole
  <2>5. DOMAIN old = Clients
    OBVIOUS
  <2> HIDE DEF old, new, stored
  <2> QED BY <2>1, <2>3, <2>4, <2>5
<1>2. StoreInv /\ [Next]_vars =>
        [\A c \in Clients :
           session'[c].authenticated
             /\ (~session[c].authenticated \/ session'[c].role # session[c].role) =>
             session'[c].role \in {NoRole, "SUPER"} \cup {users[u] : u \in DOMAIN users}]_vars
  BY <1>1
<1> QED BY <1>2, InitStoreInv, StoreInvStep, PTL DEF Spec, RolesAreOfAccounts

=============================================================================
