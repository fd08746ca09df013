------------------------------ MODULE Accounts ------------------------------
(***************************************************************************)
(* Who is a moderator: the login prompt of AOClient, the two types of      *)
(* authorisation and the change from one to the other, the accounts of     *)
(* table USERS with their roles, and what of it survives a crash.          *)
(*                                                                         *)
(* A password is modelled by whether it is the right one.  The server may  *)
(* die between any two events and, while it starts, between two statements *)
(* of the migration of its database; config.ini is written by QSettings    *)
(* some time after a value was set.                                        *)
(***************************************************************************)
EXTENDS Commands

CONSTANTS
  Clients,        \* AOClient objects
  Names,          \* names of accounts, "root" among them
  NoName,         \* the empty moderator name
  RoleFiles,      \* the contents acl_roles.ini may have
  ExtensionFiles, \* the contents command_extensions.ini may have
  OldDatabases    \* [version, users] a server may find when it first starts

DbVersion == 2        \* DB_VERSION

ASSUME AccountsAssumption ==
  /\ "root" \in Names
  /\ NoName \notin Names
  /\ \A db \in OldDatabases :
       db.version \in 0..(DbVersion - 1) /\ DOMAIN db.users \subseteq Names
  /\ ExtensionFiles \subseteq Seq(Groups)

VARIABLES
  process,     \* "migrating", "running" or "down"
  version,     \* user_version of the database
  users,       \* the role of each account of table USERS
  legacy,      \* history: root dates from a database without roles
  authFile,    \* auth in config.ini
  authType,    \* ConfigManager::authType(), what QSettings has in memory
  pending,     \* QSettings has a value that is not in the file yet
  roles,       \* m_roles
  extensions,  \* m_extensions
  session      \* the login state of each client

vars == <<process, version, users, legacy, authFile, authType, pending,
          roles, extensions, session>>
database == <<version, users, legacy>>
files == <<roles, extensions>>
config == <<authFile, authType, pending>>

LegacyRole == "1"   \* what USERS held before there were roles
NoRole == ""

LoggedOut == [authenticated |-> FALSE, role |-> NoRole, name |-> NoName,
              prompt |-> FALSE, change |-> FALSE]

\* A server that is new, or comes with the database of an older version.
Init ==
  /\ process = "down"
  /\ \E db \in OldDatabases : version = db.version /\ users = db.users
  /\ legacy = ("root" \in DOMAIN users)
  /\ authFile \in {"SIMPLE"} \cup (IF legacy THEN {"ADVANCED"} ELSE {})
  /\ authType = authFile /\ pending = FALSE
  /\ roles = << >> /\ extensions = << >>
  /\ session = [c \in Clients |-> LoggedOut]

-----------------------------------------------------------------------------
(* Permissions *)

Logged(c) == session[c].authenticated

\* checkPermission, away from an area the client owns.
HasPermission(c, p) ==
  \/ p = NONE
  \/ /\ Logged(c)
     /\ authType = "SIMPLE" \/ RoleGrants(roles, session[c].role, p)

\* The client types a word that handleCommand lets it run this command with.
Runs(c, command) ==
  /\ process = "running"
  /\ \E w \in Words :
       /\ Target(extensions, w) = command
       /\ \E p \in Wanted(extensions, w) : HasPermission(c, p)

\* Mutant: the role is left out.
LoginSimpleWithoutRole(s) == [s EXCEPT !.authenticated = TRUE]

LoginSimple(s) == [s EXCEPT !.authenticated = TRUE, !.role = "SUPER"]

LoginAs(s, u) == [s EXCEPT !.authenticated = TRUE, !.role = users[u], !.name = u]

-----------------------------------------------------------------------------
(* Login and logout *)

\* /login: the next chat message is the answer to the prompt.  modpass is set.
Login(c) ==
  /\ Runs(c, "login") /\ ~Logged(c) /\ ~session[c].prompt
  /\ session' = [session EXCEPT ![c].prompt = TRUE]
  /\ UNCHANGED <<process, database, config, files>>

\* loginAttempt under the type of authorisation there is by now, with a wrong
\* answer or the right one.
LoginFails(c) ==
  /\ process = "running" /\ session[c].prompt
  /\ session' = [session EXCEPT ![c].prompt = FALSE]
  /\ UNCHANGED <<process, database, config, files>>

LoginSucceeds(c) ==
  /\ process = "running" /\ session[c].prompt
  /\ \E s \in IF authType = "SIMPLE" THEN {LoginSimple(session[c])}
              ELSE {LoginAs(session[c], u) : u \in DOMAIN users} :
       session' = [session EXCEPT ![c] = [s EXCEPT !.prompt = FALSE]]
  /\ UNCHANGED <<process, database, config, files>>

Logout(c) ==
  /\ Runs(c, "logout") /\ Logged(c)
  /\ session' = [session EXCEPT ![c].authenticated = FALSE, ![c].role = NoRole,
                                ![c].name = NoName]
  /\ UNCHANGED <<process, database, config, files>>

\* The client goes, and another takes its place.
Leave(c) ==
  /\ process = "running"
  /\ session' = [session EXCEPT ![c] = LoggedOut]
  /\ UNCHANGED <<process, database, config, files>>

-----------------------------------------------------------------------------
(* The type of authorisation *)

ChangeAuth(c) ==
  /\ Runs(c, "changeauth") /\ authType = "SIMPLE"
  /\ session' = [session EXCEPT ![c].change = TRUE]
  /\ UNCHANGED <<process, database, config, files>>

\* createUser: an account that exists is left as it is.
CreateUser(u, role) ==
  users' = IF u \in DOMAIN users THEN users
           ELSE [n \in DOMAIN users \cup {u} |-> IF n = u THEN role ELSE users[n]]

\* /rootpass with a password that meets the requirements.
SetRootPass(c) ==
  /\ Runs(c, "rootpass") /\ session[c].change
  /\ session' = [session EXCEPT ![c].authenticated = FALSE]
  /\ authType' = "ADVANCED" /\ pending' = TRUE
  /\ CreateUser("root", "SUPER")
  /\ UNCHANGED <<process, version, legacy, authFile, files>>

\* The operator turns back to simple authorisation in config.ini.  Advanced
\* authorisation is for /rootpass to turn on.
EditConfig ==
  /\ authFile' = "SIMPLE"
  /\ UNCHANGED <<process, database, authType, pending, files, session>>

\* QSettings::sync: what was set in memory goes to the file, or else what is
\* in the file comes to memory.
SyncSettings ==
  /\ authFile' = IF pending THEN authType ELSE authFile
  /\ authType' = IF pending THEN authType ELSE authFile
  /\ pending' = FALSE

\* QSettings synchronises on its own some time after a value was set.
Sync ==
  /\ process = "running" /\ pending
  /\ SyncSettings
  /\ UNCHANGED <<process, database, files, session>>

\* /reload: config.ini is synchronised and the two other files are read again.
Reload(c) ==
  /\ Runs(c, "reload")
  /\ SyncSettings
  /\ \E r \in RoleFiles : roles' = LoadRoles(r)
  /\ \E x \in ExtensionFiles : extensions' = LoadExtensions(x)
  /\ UNCHANGED <<process, database, session>>

-----------------------------------------------------------------------------
(* Accounts *)

AddUser(c, u) ==
  /\ Runs(c, "adduser")
  /\ CreateUser(u, "NONE")
  /\ UNCHANGED <<process, version, legacy, config, files, session>>

\* Mutant: root is an account like others.
RemovableAny == DOMAIN users

Removable == DOMAIN users \ {"root"}

\* /removeuser; the sessions of the account go on.
RemoveUser(c, u) ==
  /\ Runs(c, "removeuser") /\ u \in Removable
  /\ users' = [n \in DOMAIN users \ {u} |-> users[n]]
  /\ UNCHANGED <<process, version, legacy, config, files, session>>

\* What names a role that exists, in upper case or not.
RoleWords == ReadOnlyRoles \cup DOMAIN roles \cup DOMAIN Spelled
Roles == {r \in RoleWords : RoleExists(roles, r)}

\* /setperms, and /removeperms, which is /setperms with NONE put after what was
\* typed: a role that was typed counts.  The table of roles is asked for the
\* upper case, but only SUPER in capitals wants a client with every right.
SetPerms(c, u, role) ==
  /\ Runs(c, "setperms") \/ Runs(c, "removeperms")
  /\ role \in Roles
  /\ role = "SUPER" => HasPermission(c, SUPER)
  /\ u # "root" /\ u \in DOMAIN users
  /\ users' = [users EXCEPT ![u] = role]
  /\ UNCHANGED <<process, version, legacy, config, files, session>>

-----------------------------------------------------------------------------
(* Crash and start *)

Crash ==
  /\ process # "down"
  /\ process' = "down"
  /\ session' = [c \in Clients |-> LoggedOut]
  /\ authType' = authFile /\ pending' = FALSE
  /\ roles' = << >> /\ extensions' = << >>
  /\ UNCHANGED <<database, authFile>>

\* The start of the process up to the constructor of DBManager.
Start ==
  /\ process = "down"
  /\ authType' = authFile
  /\ process' = IF version # DbVersion THEN "migrating" ELSE "running"
  /\ \E r \in RoleFiles : roles' = LoadRoles(r)
  /\ \E x \in ExtensionFiles : extensions' = LoadExtensions(x)
  /\ UNCHANGED <<database, authFile, pending, session>>

RootMigrated == "root" \in DOMAIN users => users["root"] = "SUPER"

\* Mutant: the version may be written before the roles.
MigrateRolesUnordered ==
  /\ process = "migrating" /\ ~RootMigrated
  /\ \/ users' = [users EXCEPT !["root"] = "SUPER"] /\ UNCHANGED version
     \/ version' = DbVersion /\ UNCHANGED users
  /\ UNCHANGED <<process, legacy, config, files, session>>

\* The statements of updateDB that change something, each on its own: the new
\* column and version 1, which a repeated start does again, root's role, and
\* the new version at the end.
MigrateColumn ==
  /\ process = "migrating" /\ version = 0
  /\ version' = 1
  /\ UNCHANGED <<process, users, legacy, config, files, session>>

MigrateRoles ==
  /\ process = "migrating" /\ version = 1 /\ ~RootMigrated
  /\ users' = [users EXCEPT !["root"] = "SUPER"]
  /\ UNCHANGED <<process, version, legacy, config, files, session>>

MigrateVersion ==
  /\ process = "migrating" /\ version = 1 /\ RootMigrated
  /\ version' = DbVersion
  /\ process' = "running"
  /\ UNCHANGED <<users, legacy, config, files, session>>

-----------------------------------------------------------------------------

AccountEvent(c) ==
  \/ Login(c) \/ LoginFails(c) \/ LoginSucceeds(c) \/ Logout(c) \/ Leave(c)
  \/ ChangeAuth(c) \/ SetRootPass(c) \/ Reload(c)
  \/ \E u \in Names :
       \/ AddUser(c, u)
       \/ RemoveUser(c, u)
       \/ \E role \in Roles : SetPerms(c, u, role)

ServerEvent ==
  EditConfig \/ Sync \/ Crash \/ Start \/ MigrateColumn \/ MigrateRoles \/ MigrateVersion

Next == ServerEvent \/ \E c \in Clients : AccountEvent(c)

Spec == Init /\ [][Next]_vars

-----------------------------------------------------------------------------
(* What the accounts keep to *)

\* Accounts, sessions and what was loaded have the types the code declares.
TypeOK ==
  /\ process \in {"migrating", "running", "down"}
  /\ version \in 0..DbVersion
  /\ DOMAIN users \subseteq Names
  /\ {authFile, authType} \subseteq {"SIMPLE", "ADVANCED"}
  /\ \A c \in Clients : session[c].name \in Names \cup {NoName}

\* Under advanced authorisation there is an account root to log in with: it
\* is created in the step that changes the type, no command deletes it, and
\* neither a crash nor config.ini written early or late gets between the two.
AdvancedHasRoot ==
  "ADVANCED" \in {authFile, authType} => "root" \in DOMAIN users

\* A client that logged in with the modpass keeps its rights when the type of
\* authorisation changes under it: without an account it has role SUPER.
LoginSurvivesChange ==
  \A c \in Clients :
    Logged(c) /\ session[c].name = NoName => session[c].role = "SUPER"

\* An alias stands for one command (CommandExtensionCollection::loadFile), so
\* that the order of the extensions does not matter to who types it.
AliasNamesOne ==
  \A m, n \in DOMAIN extensions :
    m # n => extensions[m].aliases \cap extensions[n].aliases = {}

\* What /commands lists is what the client may run, unless its name is also an
\* alias of another command: two pieces of code derive it from the table and
\* the extensions.
ListedIsAllowed ==
  \A c \in Clients, n \in DOMAIN Table :
    (\A m \in DOMAIN extensions : n \notin extensions[m].aliases) =>
      ((\E p \in ListedWants(extensions, n) : HasPermission(c, p))
         <=> (\E p \in Wanted(extensions, n) : HasPermission(c, p)))

-----------------------------------------------------------------------------
(* What the accounts promise: AccountStore *)

\* Root's role is not read before the migration is over.
StoredRole(n) ==
  IF n = "root" /\ version # DbVersion THEN LegacyRole ELSE users[n]

Store == INSTANCE AccountStore WITH
           migrated <- version = DbVersion,
           accounts <- [n \in DOMAIN users |-> StoredRole(n)],
           roles    <- Roles,
           granted  <- [c \in Clients |-> IF Logged(c) THEN session[c].role ELSE NoRole],
           Legacy   <- LegacyRole,
           Nobody   <- NoRole

\* Stopped and begun again however often, the migration is one step to who
\* logs in; accounts change one at a time, roles that are given exist, root
\* keeps its role, and a login grants the role that the account then has.
StoreSpec == Store!Spec

=============================================================================
