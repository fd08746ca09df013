----------------------------- MODULE MCAccounts -----------------------------
(* Two clients, root and one more account, a role, and extensions that give  *)
(* aliases, new permissions and a name away, for model checking Accounts.    *)
EXTENDS Accounts, TLC

CONSTANTS c1, c2

Symmetric == Permutations(Clients)

CommandTable ==
  [adduser |-> {"modify_users"}, changeauth |-> {SUPER}, login |-> {NONE},
   logout |-> {NONE}, reload |-> {SUPER}, removeperms |-> {"modify_users"},
   removeuser |-> {"modify_users"}, rootpass |-> {SUPER},
   setperms |-> {"modify_users"}]

ByName == <<"adduser", "changeauth", "login", "logout", "reload", "removeperms",
            "removeuser", "rootpass", "setperms">>

Typed == DOMAIN CommandTable \cup {"new"}

\* One role, and the same one spelled twice before another.
RoleInis ==
  {<<[id |-> "HELPER", permissions |-> {"modify_users"}]>>,
   <<[id |-> "HELPER", permissions |-> {}],
     [id |-> "HELPER", permissions |-> {"modify_users"}],
     [id |-> "JUDGE", permissions |-> {"modify_users"}]>>}

\* A role in small letters.
Small == [super |-> "SUPER"]

\* None, or an alias that two commands want and one that is a command.
ExtensionInis ==
  {<< >>,
   <<[command |-> "adduser", aliases |-> {"new", "reload"}, permissions |-> {"kick"}],
     [command |-> "removeuser", aliases |-> {"new"}, permissions |-> {SUPER}]>>}

\* A new database and one from before roles.
Databases ==
  {[version |-> 0, users |-> << >>],
   [version |-> 0, users |-> [n \in {"root"} |-> LegacyRole]]}

=============================================================================
