------------------------------ MODULE Commands ------------------------------
(***************************************************************************)
(* What a typed command runs and who may run it: the table of commands,    *)
(* the command extensions and the roles that the server reads from         *)
(* command_extensions.ini and acl_roles.ini, and the dispatch of           *)
(* AOClient::handleCommand.  Everything here is a function of the files;   *)
(* Accounts keeps what was loaded last.  Words are in lower case, as the   *)
(* code folds them before it compares; of roles it compares some as they   *)
(* were typed, so that their spelling is kept.                             *)
(***************************************************************************)
EXTENDS Integers, Sequences, FiniteSets, SequencesExt

CONSTANTS
  Table,        \* AOClient::COMMANDS: the permissions of each command
  Sorted,       \* the commands in the order of their names (QMap)
  Permissions,  \* ACLRole::Permission but NONE and SUPER
  Words,        \* what clients type: commands, aliases and anything else
  Spelled       \* ids of roles typed in other letters, with their upper case

NONE == "none"     \* ACLRole::NONE
SUPER == "super"   \* ACLRole::SUPER, every flag at once

ASSUME CommandsAssumption ==
  /\ Sorted \in Seq(DOMAIN Table) /\ IsInjective(Sorted)
  /\ DOMAIN Table \subseteq Range(Sorted)
  /\ \A n \in DOMAIN Table : Table[n] \subseteq Permissions \cup {NONE, SUPER}
  /\ DOMAIN Table \subseteq Words
  /\ NONE \notin Permissions /\ SUPER \notin Permissions
  /\ DOMAIN Spelled \cap (Range(Spelled) \cup {"NONE", "SUPER"}) = {}

-----------------------------------------------------------------------------
(* acl_roles.ini: a sequence of groups [id, permissions], sorted by name; an *)
(* id occurs twice when it is spelled in two ways.                           *)

ReadOnlyRoles == {"NONE", "SUPER"}

\* ACLRolesHandler::loadFile.  A repeated role is skipped without leaving its
\* group, so that every later one is looked for inside it and comes out empty.
LoadRoles(ini) ==
  LET Insert(acc, group) ==
        IF group.id \in ReadOnlyRoles THEN acc
        ELSE IF group.id \in DOMAIN acc.roles THEN [acc EXCEPT !.nested = TRUE]
        ELSE [acc EXCEPT !.roles =
                [r \in DOMAIN @ \cup {group.id} |->
                   IF r # group.id THEN @[r]
                   ELSE IF acc.nested THEN {} ELSE group.permissions]]
  IN FoldLeft(Insert, [roles |-> << >>, nested |-> FALSE], ini).roles

Upper(id) == IF id \in DOMAIN Spelled THEN Spelled[id] ELSE id

RoleExists(roles, id) == Upper(id) \in ReadOnlyRoles \cup DOMAIN roles

\* ACLRolesHandler::getRoleById and ACLRole::checkPermission.
RoleGrants(roles, id, p) ==
  \/ p = NONE
  \/ Upper(id) = "SUPER"
  \/ /\ Upper(id) \in DOMAIN roles \ ReadOnlyRoles
     /\ p \in roles[Upper(id)] \/ SUPER \in roles[Upper(id)]

-----------------------------------------------------------------------------
(* command_extensions.ini: a sequence of groups [command, aliases,           *)
(* permissions], sorted by name; permissions that do not exist are left out. *)

Groups == [command : Words, aliases : SUBSET Words,
           permissions : SUBSET (Permissions \cup {NONE, SUPER})]

\* Mutant: aliases that an earlier command has are kept.
FreshAliasesAll(group, recorded) == group.aliases

FreshAliases(group, recorded) == group.aliases \ recorded

\* CommandExtensionCollection::loadFile, with the table's names as whitelist:
\* a command is extended by the first group of its name, which gets the
\* aliases that no earlier one has.
Read(ini) ==
  {i \in DOMAIN ini :
     /\ ini[i].command \in DOMAIN Table
     /\ \A j \in 1..(i - 1) : ini[j].command # ini[i].command}

Recorded(ini, i) == UNION {ini[j].aliases : j \in Read(ini) \cap 1..(i - 1)}

Extension(ini, i) ==
  [aliases |-> FreshAliases(ini[i], Recorded(ini, i)), permissions |-> ini[i].permissions]

LoadExtensions(ini) ==
  [n \in {ini[i].command : i \in Read(ini)} |->
     Extension(ini, CHOOSE i \in Read(ini) : ini[i].command = n)]

\* The extensions that answer to a word, checkCommandNameAndAlias.
Answering(extensions, word) ==
  {n \in DOMAIN extensions : word = n \/ word \in extensions[n].aliases}

FirstOf(names) ==
  Sorted[CHOOSE i \in DOMAIN Sorted :
           Sorted[i] \in names /\ \A j \in 1..(i - 1) : Sorted[j] \notin names]

\* The command a word stands for: what the first extension that answers to it
\* extends, or the word itself.
Target(extensions, word) ==
  IF Answering(extensions, word) = {} THEN word
  ELSE FirstOf(Answering(extensions, word))

\* COMMANDS.value: an unknown word gets cmdDefault, which is open to all.
Default(command) == IF command \in DOMAIN Table THEN Table[command] ELSE {NONE}

\* The permissions of which handleCommand wants one.
Wanted(extensions, word) ==
  LET own == IF Answering(extensions, word) = {} THEN {}
             ELSE extensions[FirstOf(Answering(extensions, word))].permissions
  IN IF own = {} THEN Default(Target(extensions, word)) ELSE own

\* Mutant: an extension adds permissions and takes none away.
ListedWantsEither(extensions, command) ==
  Default(command) \cup (IF command \in DOMAIN extensions
                         THEN extensions[command].permissions ELSE {})

\* The permissions of which cmdCommands wants one before it lists a command.
ListedWants(extensions, command) ==
  IF command \in DOMAIN extensions /\ extensions[command].permissions # {}
  THEN extensions[command].permissions
  ELSE Default(command)

=============================================================================
