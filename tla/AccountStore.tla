---------------------------- MODULE AccountStore ----------------------------
(***************************************************************************)
(* What the accounts promise to who logs in: an old database becomes a new *)
(* one in a single step, which gives root its role; then accounts come and *)
(* go and get roles one at a time, root's role is never changed, and a     *)
(* login grants the role that the store has at that moment.                *)
(***************************************************************************)
CONSTANTS
  Clients,  \* who may log in
  Names,    \* names of accounts, "root" among them
  Legacy,   \* root's role in an old database
  Nobody    \* what a client is granted that is not logged in

VARIABLES
  migrated,  \* the database is of the present version
  accounts,  \* the role of each account
  roles,     \* the roles that exist
  granted    \* the role of each client

store == <<migrated, accounts, roles, granted>>

Init ==
  /\ migrated = FALSE
  /\ DOMAIN accounts \subseteq Names
  /\ "root" \in DOMAIN accounts => accounts["root"] = Legacy
  /\ granted = [c \in Clients |-> Nobody]

Migrate ==
  /\ ~migrated
  /\ migrated' = TRUE
  /\ accounts' = [n \in DOMAIN accounts |-> IF n = "root" THEN "SUPER" ELSE accounts[n]]
  /\ UNCHANGED <<roles, granted>>

\* An account that exists is not created again, and so keeps its role.
Added(u, role) ==
  /\ migrated /\ u \notin DOMAIN accounts
  /\ accounts' = [n \in DOMAIN accounts \cup {u} |-> IF n = u THEN role ELSE accounts[n]]
  /\ UNCHANGED <<migrated, roles>>

Add(u) == Added(u, "NONE") /\ UNCHANGED granted

\* Root is created by a client that is then asked to log in as root.
AddRoot(c) == Added("root", "SUPER") /\ granted' = [granted EXCEPT ![c] = Nobody]

Remove(u) ==
  /\ migrated /\ u \in DOMAIN accounts \ {"root"}
  /\ accounts' = [n \in DOMAIN accounts \ {u} |-> accounts[n]]
  /\ UNCHANGED <<migrated, roles, granted>>

Assign(u, role) ==
  /\ migrated /\ u \in DOMAIN accounts \ {"root"}
  /\ accounts' = [accounts EXCEPT ![u] = role]
  /\ UNCHANGED <<migrated, roles, granted>>

\* With the password of all moderators, or that of an account.
Enter(c) ==
  /\ migrated
  /\ \E role \in {"SUPER"} \cup {accounts[u] : u \in DOMAIN accounts} :
       granted' = [granted EXCEPT ![c] = role]
  /\ UNCHANGED <<migrated, accounts, roles>>

Exit(c) ==
  /\ granted' = [granted EXCEPT ![c] = Nobody]
  /\ UNCHANGED <<migrated, accounts, roles>>

\* The roles are read again, by the same process or by the next.
Load == UNCHANGED <<migrated, accounts, granted>>

Restart ==
  /\ granted' = [c \in Clients |-> Nobody]
  /\ UNCHANGED <<migrated, accounts>>

Next ==
  \/ Migrate \/ Load \/ Restart
  \/ \E u \in Names :
       Add(u) \/ Remove(u) \/ \E role \in roles : Assign(u, role)
  \/ \E c \in Clients : AddRoot(c) \/ Enter(c) \/ Exit(c)

Spec == Init /\ [][Next]_store

=============================================================================
