------------------------------- MODULE Directory -------------------------------
(***************************************************************************)
(* The directory of one account: its roles (internal/service/              *)
(* account_role.go), the rows of its users (user.go, account.go) and the   *)
(* links that reset their passwords (auth.go).                             *)
(*                                                                         *)
(* A request is a transaction at READ COMMITTED that checks first and      *)
(* writes later, and no table has a key for what it checks: request keeps  *)
(* what it has read. A request whose checks the foreign keys repeat at its *)
(* write is a step. The system role of the owner is always there, and is   *)
(* refused by every request that changes roles.                            *)
(***************************************************************************)
EXTENDS Naturals, FiniteSets

CONSTANTS
  Roles,        \* ids of the roles that may ever be created
  OwnerRole,    \* the system role made with the account
  Users,        \* ids of the rows of users that may ever be created
  Emails,
  EmailOf,      \* the address that a row of users will have
  Links,        \* tokens that may ever be mailed
  UserOf,       \* the row of users that a token will be for
  Clients       \* requests in flight at once

ASSUME NamesAssumption ==
  /\ OwnerRole \notin Roles
  /\ "none" \notin Clients /\ IsFiniteSet(Clients)
ASSUME RowsAssumption == EmailOf \in [Users -> Emails] /\ UserOf \in [Links -> Users]

VARIABLES
  roles,        \* the rows of app.account_roles that managers made
  retired,      \* the ids of those deleted
  defaultBy,    \* of each role with is_default, whose request made it so
  user,         \* [state, role] of each row of app.users
  hiredBy,      \* whose request inserted the row
  link,         \* of each token: "none", "usable" or "void", deleted or expired
  spent,        \* the tokens that have set a password
  request       \* what each request in flight has read

roleVars == <<roles, retired, defaultBy>>
userVars == <<user, hiredBy>>
linkVars == <<link, spent>>
vars == <<roleVars, userVars, linkVars, request>>

NoUser == [state |-> "none", role |-> OwnerRole]
Idle == [op |-> "none", role |-> OwnerRole, seen |-> {}, email |-> "none",
         targets |-> {}, found |-> {}]

Init ==
  /\ roles = {} /\ retired = {}
  /\ defaultBy = [r \in Roles |-> "none"]
  /\ user = [u \in Users |-> NoUser]
  /\ hiredBy = [u \in Users |-> "none"]
  /\ link = [t \in Links |-> "none"]
  /\ spent = {}
  /\ request = [c \in Clients |-> Idle]

-----------------------------------------------------------------------------
(* What the requests read *)

Defaults == {r \in Roles : defaultBy[r] # "none"}
RowsOf(email) == {u \in Users : user[u].state # "none" /\ EmailOf[u] = email}
ActiveRowsOf(email) == {u \in RowsOf(email) : user[u].state = "active"}
LinksOf(email) == {t \in Links : link[t] = "usable" /\ EmailOf[UserOf[t]] = email}

\* A slip: a deactivated employee is hired once more.
NotActive(email) == ActiveRowsOf(email) = {}

\* AccountService.CreateUser: a row with the address blocks it, active or not.
NotEmployed(email) == RowsOf(email) = {}

Begin(c, req) ==
  /\ request[c] = Idle
  /\ request' = [request EXCEPT ![c] = req]
  /\ UNCHANGED <<roleVars, userVars, linkVars>>

Ended(c) == request' = [request EXCEPT ![c] = Idle]

\* A request of one step, by a client that has no other in flight.
Step(c) == request[c] = Idle /\ UNCHANGED request

-----------------------------------------------------------------------------
(* Roles *)

\* A slip: without ClearDefault.
MarkDefault(c, r, seen) == defaultBy' = [defaultBy EXCEPT ![r] = c]

\* ClearDefault on the rows its snapshot has, then is_default of r. A row that
\* was inserted after the snapshot keeps its flag.
MoveDefault(c, r, seen) ==
  defaultBy' = [s \in Roles |-> IF s = r THEN c ELSE IF s \in seen THEN "none" ELSE defaultBy[s]]

\* Create of a role that is not the default: one insert.
CreateRole(c, r) ==
  /\ Step(c)
  /\ r \notin roles \cup retired
  /\ roles' = roles \cup {r}
  /\ UNCHANGED <<retired, defaultBy, userVars, linkVars>>

BeginCreateDefault(c) == Begin(c, [Idle EXCEPT !.op = "create_default", !.seen = roles])

CommitCreateDefault(c, r) ==
  /\ request[c].op = "create_default"
  /\ r \notin roles \cup retired
  /\ roles' = roles \cup {r}
  /\ MoveDefault(c, r, request[c].seen)
  /\ Ended(c)
  /\ UNCHANGED <<retired, userVars, linkVars>>

BeginMakeDefault(c, r) ==
  /\ r \in roles
  /\ Begin(c, [Idle EXCEPT !.op = "make_default", !.role = r, !.seen = roles])

CommitMakeDefault(c) ==
  /\ request[c].op = "make_default"
  /\ request[c].role \in roles
  /\ MoveDefault(c, request[c].role, request[c].seen)
  /\ Ended(c)
  /\ UNCHANGED <<roles, retired, userVars, linkVars>>

\* Update with is_default = false: ErrDefaultRoleRequired for the default one.
BeginUpdateRole(c, r) ==
  /\ r \in roles \ Defaults
  /\ Begin(c, [Idle EXCEPT !.op = "update_role", !.role = r])

\* repo.Update writes the flag, whatever the row has by now.
CommitUpdateRole(c) ==
  /\ request[c].op = "update_role"
  /\ request[c].role \in roles
  /\ defaultBy' = [defaultBy EXCEPT ![request[c].role] = "none"]
  /\ Ended(c)
  /\ UNCHANGED <<roles, retired, userVars, linkVars>>

\* Delete: ErrRoleInUse if an active user has it, and fk_role for the others.
DeleteRole(c, r) ==
  /\ Step(c)
  /\ r \in roles
  /\ \A u \in Users : user[u].state # "none" => user[u].role # r
  /\ roles' = roles \ {r}
  /\ retired' = retired \cup {r}
  /\ defaultBy' = [defaultBy EXCEPT ![r] = "none"]
  /\ UNCHANGED <<userVars, linkVars>>

-----------------------------------------------------------------------------
(* Users *)

\* CreateUser needs exactly one default role (findDefaultRole).
BeginCreateUser(c, email) ==
  /\ NotEmployed(email)
  /\ \E r \in Defaults :
       /\ Defaults = {r}
       /\ Begin(c, [Idle EXCEPT !.op = "create_user", !.email = email, !.role = r])

CommitCreateUser(c, u) ==
  /\ request[c].op = "create_user"
  /\ EmailOf[u] = request[c].email
  /\ user[u].state = "none"
  /\ request[c].role \in roles
  /\ user' = [user EXCEPT ![u] = [state |-> "active", role |-> request[c].role]]
  /\ hiredBy' = [hiredBy EXCEPT ![u] = c]
  /\ Ended(c)
  /\ UNCHANGED <<roleVars, linkVars>>

\* Update with a role, of an active user or not: any role of the account.
ChangeRole(c, u, r) ==
  /\ Step(c)
  /\ user[u].state # "none"
  /\ r \in roles \cup {OwnerRole}
  /\ user' = [user EXCEPT ![u].role = r]
  /\ UNCHANGED <<roleVars, hiredBy, linkVars>>

Deactivate(c, u) ==
  /\ Step(c)
  /\ user[u].state = "active"
  /\ user[u].role # OwnerRole
  /\ user' = [user EXCEPT ![u].state = "inactive"]
  /\ UNCHANGED <<roleVars, hiredBy, linkVars>>

\* The role is still there: fk_role keeps it.
Reactivate(c, u) ==
  /\ Step(c)
  /\ user[u].state = "inactive"
  /\ user' = [user EXCEPT ![u].state = "active"]
  /\ UNCHANGED <<roleVars, hiredBy, linkVars>>

-----------------------------------------------------------------------------
(* Links that reset a password *)

\* RequestPasswordReset: the active rows, and the links its DELETE finds.
BeginRequestReset(c, email) ==
  /\ ActiveRowsOf(email) # {}
  /\ Begin(c, [Idle EXCEPT !.op = "request_reset", !.targets = ActiveRowsOf(email),
                           !.found = LinksOf(email)])

\* One new link for each of them.
CommitRequestReset(c, new) ==
  /\ request[c].op = "request_reset"
  /\ \A t \in new : link[t] = "none"
  /\ {UserOf[t] : t \in new} = request[c].targets
  /\ \A s, t \in new : UserOf[s] = UserOf[t] => s = t
  /\ link' = [t \in Links |-> IF t \in new THEN "usable"
                              ELSE IF t \in request[c].found THEN "void" ELSE link[t]]
  /\ Ended(c)
  /\ UNCHANGED <<roleVars, userVars, spent>>

\* ResetPassword: the link is usable and its row of users active.
BeginReset(c, t) ==
  /\ link[t] = "usable"
  /\ user[UserOf[t]].state = "active"
  /\ Begin(c, [Idle EXCEPT !.op = "reset", !.found = {t}])

\* A slip: "the other links" are deleted, and the one that was used is not marked.
VoidOthers(t) ==
  link' = [s \in Links |-> IF s # t /\ s \in LinksOf(EmailOf[UserOf[t]]) THEN "void" ELSE link[s]]

\* MarkUsed and DeleteByEmail.
VoidAll(t) ==
  link' = [s \in Links |-> IF s \in LinksOf(EmailOf[UserOf[t]]) THEN "void" ELSE link[s]]

\* The password is set, even if the link was deleted meanwhile.
CommitReset(c) ==
  /\ request[c].op = "reset"
  /\ \E t \in request[c].found :
       /\ VoidAll(t)
       /\ spent' = spent \cup {t}
  /\ Ended(c)
  /\ UNCHANGED <<roleVars, userVars>>

Expire(t) ==
  /\ link[t] = "usable"
  /\ link' = [link EXCEPT ![t] = "void"]
  /\ UNCHANGED <<roleVars, userVars, spent, request>>

\* An error, a refusal by a foreign key, a lost connection.
Abort(c) ==
  /\ request[c] # Idle
  /\ Ended(c)
  /\ UNCHANGED <<roleVars, userVars, linkVars>>

-----------------------------------------------------------------------------
RoleStep(c) ==
  \/ BeginCreateDefault(c) \/ CommitMakeDefault(c) \/ CommitUpdateRole(c)
  \/ \E r \in Roles :
       \/ CreateRole(c, r) \/ CommitCreateDefault(c, r) \/ BeginMakeDefault(c, r)
       \/ BeginUpdateRole(c, r) \/ DeleteRole(c, r)

UserStep(c) ==
  \/ \E email \in Emails : BeginCreateUser(c, email)
  \/ \E u \in Users :
       \/ CommitCreateUser(c, u) \/ Deactivate(c, u) \/ Reactivate(c, u)
       \/ \E r \in Roles \cup {OwnerRole} : ChangeRole(c, u, r)

LinkStep(c) ==
  \/ \E email \in Emails : BeginRequestReset(c, email)
  \/ \E new \in SUBSET Links : CommitRequestReset(c, new)
  \/ \E t \in Links : BeginReset(c, t)
  \/ CommitReset(c)

Next ==
  \/ \E c \in Clients : RoleStep(c) \/ UserStep(c) \/ LinkStep(c) \/ Abort(c)
  \/ \E t \in Links : Expire(t)

Spec == Init /\ [][Next]_vars

-----------------------------------------------------------------------------
(* What must hold *)

Request ==
  [op : {"none", "create_default", "make_default", "update_role", "create_user",
         "request_reset", "reset"},
   role : Roles \cup {OwnerRole}, seen : SUBSET Roles, email : Emails \cup {"none"},
   targets : SUBSET Users, found : SUBSET Links]

\* Every variable has its type, a default role is there, and so is the role of
\* every user, whichever deletions of roles it met on the way.
TypeOK ==
  /\ roles \in SUBSET Roles /\ retired \in SUBSET Roles /\ roles \cap retired = {}
  /\ defaultBy \in [Roles -> Clients \cup {"none"}] /\ Defaults \subseteq roles
  /\ user \in [Users -> [state : {"none", "active", "inactive"}, role : Roles \cup {OwnerRole}]]
  /\ \A u \in Users : user[u].state # "none" => user[u].role \in roles \cup {OwnerRole}
  /\ hiredBy \in [Users -> Clients \cup {"none"}]
  /\ \A u \in Users : user[u].state = "none" <=> hiredBy[u] = "none"
  /\ link \in [Links -> {"none", "usable", "void"}]
  /\ spent \in SUBSET Links
  /\ request \in [Clients -> Request]

\* ClearDefault: "never more than one default role". It holds for requests one
\* after another. Of two default roles there can be, no client made both: his
\* second request began after the first, and cleared what that had left.
DefaultsUpToOverlap == \A r, s \in Defaults : defaultBy[r] = defaultBy[s] => r = s

\* CreateUser: "an address is unique within the account". No key says so, but
\* rows with one address are inserted by requests that checked together.
RowsOfEmailUpToOverlap ==
  \A email \in Emails : \A u, w \in RowsOf(email) : hiredBy[u] = hiredBy[w] => u = w

\* So there are at most as many of either as requests in flight at once.
AtMostOnePerClient ==
  /\ Cardinality(Defaults) <= Cardinality(Clients)
  /\ \A email \in Emails : Cardinality(RowsOf(email)) <= Cardinality(Clients)

\* ResetPassword: a link that has set a password passes no check again. The
\* second use that two overlapping requests can make of it was checked before.
SpentStaysSpent ==
  [][\A c \in Clients : \A t \in spent :
       (request'[c].op = "reset" /\ t \in request'[c].found)
         => request[c].op = "reset" /\ t \in request[c].found]_vars

-----------------------------------------------------------------------------
(* What the comments promise, and requests that overlap break *)

\* AccountRoleRepository.ClearDefault: "so that there is never more than one
\* default role in an account". CreateUser needs that one.
OneDefaultRole == Cardinality(Defaults) <= 1

\* AccountService.CreateUser: "the address is unique within the organization".
EmailIsUnique == \A email \in Emails : Cardinality(RowsOf(email)) <= 1

\* app.password_reset_tokens: "single-use tokens". A token that has set a
\* password sets no other.
TokensAreSingleUse ==
  [][\A c \in Clients : CommitReset(c) => request[c].found \cap spent = {}]_vars
=============================================================================
