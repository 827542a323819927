---------------------------- MODULE DirectoryProofs ----------------------------
(***************************************************************************)
(* Proofs about the directory. What a request has read is enough to know   *)
(* that its write spares nobody but those who read along with it.          *)
(***************************************************************************)
EXTENDS Directory, FiniteSetTheorems, TLAPS

\* The snapshot of a request that moves the default has all that its client
\* ever made default.
MovesDefault(c) == request[c].op \in {"create_default", "make_default"}
SnapshotHasOwn ==
  \A c \in Clients : MovesDefault(c) =>
    \A r \in Roles : defaultBy[r] = c => r \in request[c].seen

\* A client that is about to insert a row has inserted none with its address.
HiresNoneTwice ==
  \A c \in Clients : request[c].op = "create_user" =>
    \A u \in Users : hiredBy[u] = c => EmailOf[u] # request[c].email

\* A spent link is void, and a request that resets holds one that was mailed.
SpentAreVoid ==
  /\ \A t \in spent : link[t] = "void"
  /\ \A c \in Clients : request[c].op = "reset" => \A t \in request[c].found : link[t] # "none"

IInv ==
  /\ TypeOK
  /\ DefaultsUpToOverlap /\ SnapshotHasOwn
  /\ RowsOfEmailUpToOverlap /\ HiresNoneTwice
  /\ SpentAreVoid
-----------------------------------------------------------------------------
(* Types *)

\* Every request is idle or of one of the six kinds.
LEMMA RequestType == TypeOK => \A c \in Clients : request[c] \in Request
BY DEF TypeOK

\* What a request has read has its type.
LEMMA BeginType ==
  ASSUME TypeOK, NEW c \in Clients, NEW req \in Request, Begin(c, req)
  PROVE  TypeOK'
BY DEF TypeOK, Begin, Defaults, roleVars, userVars, linkVars

LEMMA IdleType == Idle \in Request
BY DEF Idle, Request

\* A step of any request, and the expiry of a link, keeps the types.
LEMMA TypeStep == TypeOK /\ [Next]_vars => TypeOK'
<1> SUFFICES ASSUME TypeOK, [Next]_vars PROVE TypeOK'
  OBVIOUS
<1> USE NamesAssumption, RowsAssumption
<1>1. ASSUME NEW c \in Clients, BeginCreateDefault(c) PROVE TypeOK'
  <2> DEFINE req == [Idle EXCEPT !.op = "create_default", !.seen = roles]
  <2>1. req \in Request
    BY DEF Idle, Request, TypeOK
  <2>2. Begin(c, req)
    BY <1>1 DEF BeginCreateDefault
  <2> HIDE DEF req
  <2> QED
    BY <2>1, <2>2, BeginType
<1>2. ASSUME NEW c \in Clients, CommitMakeDefault(c) PROVE TypeOK'
  BY <1>2, IdleType DEF CommitMakeDefault, Step, Ended, TypeOK, Request, Defaults, MoveDefault, VoidAll, LinksOf, roleVars, userVars, linkVars
<1>3. ASSUME NEW c \in Clients, CommitUpdateRole(c) PROVE TypeOK'
  BY <1>3, IdleType DEF CommitUpdateRole, Step, Ended, TypeOK, Request, Defaults, MoveDefault, VoidAll, LinksOf, roleVars, userVars, linkVars
<1>4. ASSUME NEW c \in Clients, NEW r \in Roles, CreateRole(c, r) PROVE TypeOK'
  BY <1>4, IdleType DEF CreateRole, Step, Ended, TypeOK, Request, Defaults, MoveDefault, VoidAll, LinksOf, roleVars, userVars, linkVars
<1>5. ASSUME NEW c \in Clients, NEW r \in Roles, CommitCreateDefault(c, r) PROVE TypeOK'
  BY <1>5, IdleType DEF CommitCreateDefault, Step, Ended, TypeOK, Request, Defaults, MoveDefault, VoidAll, LinksOf, roleVars, userVars, linkVars
<1>6. ASSUME NEW c \in Clients, NEW r \in Roles, BeginMakeDefault(c, r) PROVE TypeOK'
  <2> DEFINE req == [Idle EXCEPT !.op = "make_default", !.role = r, !.seen = roles]
  <2>1. req \in Request
    BY DEF Idle, Request, TypeOK
  <2>2. Begin(c, req)
    BY <1>6 DEF BeginMakeDefault
  <2> HIDE DEF req
  <2> QED
    BY <2>1, <2>2, BeginType
<1>7. ASSUME NEW c \in Clients, NEW r \in Roles, BeginUpdateRole(c, r) PROVE TypeOK'
  <2> DEFINE req == [Idle EXCEPT !.op = "update_role", !.role = r]
  <2>1. req \in Request
    BY DEF Idle, Request, TypeOK
  <2>2. Begin(c, req)
    BY <1>7 DEF BeginUpdateRole
  <2> HIDE DEF req
  <2> QED
    BY <2>1, <2>2, BeginType
<1>8. ASSUME NEW c \in Clients, NEW r \in Roles, DeleteRole(c, r) PROVE TypeOK'
  BY <1>8, IdleType DEF DeleteRole, Step, Ended, TypeOK, Request, Defaults, MoveDefault, VoidAll, LinksOf, roleVars, userVars, linkVars
<1>9. ASSUME NEW c \in Clients, NEW email \in Emails, BeginCreateUser(c, email) PROVE TypeOK'
  <2>1. PICK r \in Defaults :
          Begin(c, [Idle EXCEPT !.op = "create_user", !.email = email, !.role = r])
    BY <1>9 DEF BeginCreateUser
  <2> DEFINE req == [Idle EXCEPT !.op = "create_user", !.email = email, !.role = r]
  <2>2. req \in Request
    BY DEF Idle, Request, TypeOK, Defaults
  <2>3. Begin(c, req)
    BY <2>1
  <2> HIDE DEF req
  <2> QED
    BY <2>2, <2>3, BeginType
<1>10. ASSUME NEW c \in Clients, NEW u \in Users, CommitCreateUser(c, u) PROVE TypeOK'
  BY <1>10, IdleType DEF CommitCreateUser, Step, Ended, TypeOK, Request, Defaults, MoveDefault, VoidAll, LinksOf, roleVars, userVars, linkVars
<1>11. ASSUME NEW c \in Clients, NEW u \in Users, Deactivate(c, u) PROVE TypeOK'
  BY <1>11, IdleType DEF Deactivate, Step, Ended, TypeOK, Request, Defaults, MoveDefault, VoidAll, LinksOf, roleVars, userVars, linkVars
<1>12. ASSUME NEW c \in Clients, NEW u \in Users, Reactivate(c, u) PROVE TypeOK'
  BY <1>12, IdleType DEF Reactivate, Step, Ended, TypeOK, Request, Defaults, MoveDefault, VoidAll, LinksOf, roleVars, userVars, linkVars
<1>13. ASSUME NEW c \in Clients, NEW u \in Users, NEW r \in Roles \cup {OwnerRole}, ChangeRole(c, u, r) PROVE TypeOK'
  BY <1>13, IdleType DEF ChangeRole, Step, Ended, TypeOK, Request, Defaults, MoveDefault, VoidAll, LinksOf, roleVars, userVars, linkVars
<1>14. ASSUME NEW c \in Clients, NEW email \in Emails, BeginRequestReset(c, email) PROVE TypeOK'
  <2> DEFINE req == [Idle EXCEPT !.op = "request_reset", !.targets = ActiveRowsOf(email),
                       !.found = LinksOf(email)]
  <2>1. req \in Request
    BY DEF Idle, Request, TypeOK, ActiveRowsOf, RowsOf, LinksOf
  <2>2. Begin(c, req)
    BY <1>14 DEF BeginRequestReset
  <2> HIDE DEF req
  <2> QED
    BY <2>1, <2>2, BeginType
<1>15. ASSUME NEW c \in Clients, NEW new \in SUBSET Links, CommitRequestReset(c, new) PROVE TypeOK'
  BY <1>15, IdleType DEF CommitRequestReset, Step, Ended, TypeOK, Request, Defaults, MoveDefault, VoidAll, LinksOf, roleVars, userVars, linkVars
<1>16. ASSUME NEW c \in Clients, NEW t \in Links, BeginReset(c, t) PROVE TypeOK'
  <2> DEFINE req == [Idle EXCEPT !.op = "reset", !.found = {t}]
  <2>1. req \in Request
    BY DEF Idle, Request, TypeOK
  <2>2. Begin(c, req)
    BY <1>16 DEF BeginReset
  <2> HIDE DEF req
  <2> QED
    BY <2>1, <2>2, BeginType
<1>17. ASSUME NEW c \in Clients, CommitReset(c) PROVE TypeOK'
  BY <1>17, IdleType DEF CommitReset, Step, Ended, TypeOK, Request, Defaults, MoveDefault, VoidAll, LinksOf, roleVars, userVars, linkVars
<1>18. ASSUME NEW c \in Clients, Abort(c) PROVE TypeOK'
  BY <1>18, IdleType DEF Abort, Step, Ended, TypeOK, Request, Defaults, MoveDefault, VoidAll, LinksOf, roleVars, userVars, linkVars
<1>19. ASSUME NEW t \in Links, Expire(t) PROVE TypeOK'
  BY <1>19 DEF Expire, TypeOK, Defaults, roleVars, userVars
<1>20. CASE UNCHANGED vars
  BY <1>20 DEF vars, roleVars, userVars, linkVars, TypeOK, Defaults
<1>21. QED
  BY <1>1, <1>2, <1>3, <1>4, <1>5, <1>6, <1>7, <1>8, <1>9, <1>10, <1>11, <1>12, <1>13, <1>14, <1>15, <1>16, <1>17, <1>18, <1>19, <1>20 DEF Next, RoleStep, UserStep, LinkStep

-----------------------------------------------------------------------------
(* Default roles *)

DefaultsInv == DefaultsUpToOverlap /\ SnapshotHasOwn

\* Flags that are only dropped, by requests that read all the roles, or end.
LEMMA DefaultsDrop ==
  ASSUME TypeOK, DefaultsInv,
         \A r \in Roles : defaultBy'[r] \in {defaultBy[r], "none"},
         \A d \in Clients : \/ request'[d] = request[d]
                            \/ request'[d].op \notin {"create_default", "make_default"}
                            \/ request'[d].seen = roles
  PROVE  DefaultsInv'
<1>1. DefaultsUpToOverlap'
  BY DEF DefaultsInv, DefaultsUpToOverlap, Defaults
<1>2. SnapshotHasOwn'
  <2> SUFFICES ASSUME NEW d \in Clients, MovesDefault(d)', NEW r \in Roles, defaultBy'[r] = d
               PROVE  r \in request'[d].seen
    BY DEF SnapshotHasOwn
  <2>1. defaultBy[r] = d
    BY NamesAssumption
  <2>2. r \in roles
    BY <2>1, NamesAssumption DEF TypeOK, Defaults
  <2>3. CASE request'[d] = request[d]
    BY <2>1, <2>3 DEF DefaultsInv, SnapshotHasOwn, MovesDefault
  <2>4. CASE request'[d].seen = roles
    BY <2>2, <2>4
  <2> QED
    BY <2>3, <2>4 DEF MovesDefault
<1> QED
  BY <1>1, <1>2 DEF DefaultsInv

\* The flag moves: what the client made default before is in its snapshot.
LEMMA DefaultMoved ==
  ASSUME TypeOK, DefaultsInv, NEW c \in Clients, NEW r \in Roles,
         MovesDefault(c), MoveDefault(c, r, request[c].seen), Ended(c)
  PROVE  DefaultsInv'
<1>1. \A s \in Roles : s # r => defaultBy'[s] # c
  BY NamesAssumption DEF MoveDefault, DefaultsInv, SnapshotHasOwn
<1>2. \A s \in Roles : s # r => defaultBy'[s] \in {defaultBy[s], "none"}
  BY DEF MoveDefault
<1>3. defaultBy'[r] = c
  BY DEF MoveDefault
<1>4. DefaultsUpToOverlap'
  <2> SUFFICES ASSUME NEW p \in Roles, NEW q \in Roles, defaultBy'[p] # "none",
                      defaultBy'[q] # "none", defaultBy'[p] = defaultBy'[q], p # q
               PROVE  FALSE
    BY DEF DefaultsUpToOverlap, Defaults
  <2>1. p # r /\ q # r
    BY <1>1, <1>3
  <2>2. defaultBy[p] = defaultBy'[p] /\ defaultBy[q] = defaultBy'[q]
    BY <1>2, <2>1
  <2> QED
    BY <2>2 DEF DefaultsInv, DefaultsUpToOverlap, Defaults
<1>5. SnapshotHasOwn'
  <2> SUFFICES ASSUME NEW d \in Clients, MovesDefault(d)', NEW s \in Roles, defaultBy'[s] = d
               PROVE  s \in request'[d].seen
    BY DEF SnapshotHasOwn
  <2>1. d # c
    BY DEF Ended, MovesDefault, Idle, TypeOK
  <2>2. request'[d] = request[d]
    BY <2>1 DEF Ended, TypeOK
  <2>3. s # r /\ defaultBy[s] = d
    BY <1>2, <1>3, <2>1, NamesAssumption
  <2> QED
    BY <2>2, <2>3 DEF DefaultsInv, SnapshotHasOwn, MovesDefault
<1> QED
  BY <1>4, <1>5 DEF DefaultsInv

LEMMA DefaultsStep == TypeOK /\ DefaultsInv /\ [Next]_vars => DefaultsInv'
<1> SUFFICES ASSUME TypeOK, DefaultsInv, [Next]_vars PROVE DefaultsInv'
  OBVIOUS
<1>1. ASSUME NEW c \in Clients, BeginCreateDefault(c) PROVE DefaultsInv'
  BY <1>1, DefaultsDrop DEF BeginCreateDefault, Begin, TypeOK, Idle, roleVars
<1>2. ASSUME NEW c \in Clients, CommitMakeDefault(c) PROVE DefaultsInv'
  <2> DEFINE r == request[c].role
  <2>1. r \in Roles
    BY <1>2 DEF CommitMakeDefault, TypeOK
  <2>2. MovesDefault(c) /\ MoveDefault(c, r, request[c].seen) /\ Ended(c)
    BY <1>2 DEF CommitMakeDefault, MovesDefault
  <2> HIDE DEF r
  <2> QED
    BY <2>1, <2>2, DefaultMoved
<1>3. ASSUME NEW c \in Clients, CommitUpdateRole(c) PROVE DefaultsInv'
  BY <1>3, DefaultsDrop DEF CommitUpdateRole, Ended, TypeOK, Idle, roleVars
<1>4. ASSUME NEW c \in Clients, NEW r \in Roles, CreateRole(c, r) PROVE DefaultsInv'
  BY <1>4, DefaultsDrop DEF CreateRole, Step, TypeOK, Idle, roleVars
<1>5. ASSUME NEW c \in Clients, NEW r \in Roles, CommitCreateDefault(c, r) PROVE DefaultsInv'
  BY <1>5, DefaultMoved DEF CommitCreateDefault, MovesDefault
<1>6. ASSUME NEW c \in Clients, NEW r \in Roles, BeginMakeDefault(c, r) PROVE DefaultsInv'
  BY <1>6, DefaultsDrop DEF BeginMakeDefault, Begin, TypeOK, Idle, roleVars
<1>7. ASSUME NEW c \in Clients, NEW r \in Roles, BeginUpdateRole(c, r) PROVE DefaultsInv'
  BY <1>7, DefaultsDrop DEF BeginUpdateRole, Begin, TypeOK, Idle, roleVars
<1>8. ASSUME NEW c \in Clients, NEW r \in Roles, DeleteRole(c, r) PROVE DefaultsInv'
  BY <1>8, DefaultsDrop DEF DeleteRole, Step, TypeOK, Idle, roleVars
<1>9. ASSUME NEW c \in Clients, NEW email \in Emails, BeginCreateUser(c, email) PROVE DefaultsInv'
  BY <1>9, DefaultsDrop DEF BeginCreateUser, Begin, TypeOK, Idle, roleVars
<1>10. ASSUME NEW c \in Clients, NEW u \in Users, CommitCreateUser(c, u) PROVE DefaultsInv'
  BY <1>10, DefaultsDrop DEF CommitCreateUser, Ended, TypeOK, Idle, roleVars
<1>11. ASSUME NEW c \in Clients, NEW u \in Users, Deactivate(c, u) PROVE DefaultsInv'
  BY <1>11, DefaultsDrop DEF Deactivate, Step, TypeOK, Idle, roleVars
<1>12. ASSUME NEW c \in Clients, NEW u \in Users, Reactivate(c, u) PROVE DefaultsInv'
  BY <1>12, DefaultsDrop DEF Reactivate, Step, TypeOK, Idle, roleVars
<1>13. ASSUME NEW c \in Clients, NEW u \in Users, NEW r \in Roles \cup {OwnerRole}, ChangeRole(c, u, r) PROVE DefaultsInv'
  BY <1>13, DefaultsDrop DEF ChangeRole, Step, TypeOK, Idle, roleVars
<1>14. ASSUME NEW c \in Clients, NEW email \in Emails, BeginRequestReset(c, email) PROVE DefaultsInv'
  BY <1>14, DefaultsDrop DEF BeginRequestReset, Begin, TypeOK, Idle, roleVars
<1>15. ASSUME NEW c \in Clients, NEW new \in SUBSET Links, CommitRequestReset(c, new) PROVE DefaultsInv'
  BY <1>15, DefaultsDrop DEF CommitRequestReset, Ended, TypeOK, Idle, roleVars
<1>16. ASSUME NEW c \in Clients, NEW t \in Links, BeginReset(c, t) PROVE DefaultsInv'
  BY <1>16, DefaultsDrop DEF BeginReset, Begin, TypeOK, Idle, roleVars
<1>17. ASSUME NEW c \in Clients, CommitReset(c) PROVE DefaultsInv'
  BY <1>17, DefaultsDrop DEF CommitReset, Ended, TypeOK, Idle, roleVars
<1>18. ASSUME NEW c \in Clients, Abort(c) PROVE DefaultsInv'
  BY <1>18, DefaultsDrop DEF Abort, Ended, TypeOK, Idle, roleVars
<1>19. ASSUME NEW t \in Links, Expire(t) PROVE DefaultsInv'
  BY <1>19, DefaultsDrop DEF Expire, TypeOK, roleVars
<1>20. CASE UNCHANGED vars
  BY <1>20, DefaultsDrop DEF vars, roleVars, TypeOK
<1>21. QED
  BY <1>1, <1>2, <1>3, <1>4, <1>5, <1>6, <1>7, <1>8, <1>9, <1>10, <1>11, <1>12, <1>13, <1>14, <1>15, <1>16, <1>17, <1>18, <1>19, <1>20 DEF Next, RoleStep, UserStep, LinkStep

-----------------------------------------------------------------------------
(* Rows of one address *)

HiredInv == RowsOfEmailUpToOverlap /\ HiresNoneTwice

\* No row is inserted, and who begins to hire has seen that there is none.
LEMMA NobodyHired ==
  ASSUME TypeOK, HiredInv, hiredBy' = hiredBy,
         \A u \in Users : user'[u].state = "none" <=> user[u].state = "none",
         \A d \in Clients : \/ request'[d] = request[d]
                            \/ request'[d].op # "create_user"
                            \/ RowsOf(request'[d].email) = {}
  PROVE  HiredInv'
<1>1. RowsOfEmailUpToOverlap'
  BY DEF HiredInv, RowsOfEmailUpToOverlap, RowsOf
<1>2. HiresNoneTwice'
  <2> SUFFICES ASSUME NEW d \in Clients, request'[d].op = "create_user",
                      NEW u \in Users, hiredBy[u] = d, EmailOf[u] = request'[d].email
               PROVE  FALSE
    BY DEF HiresNoneTwice
  <2>1. user[u].state # "none"
    BY NamesAssumption DEF TypeOK
  <2>2. CASE request'[d] = request[d]
    BY <2>2 DEF HiredInv, HiresNoneTwice
  <2>3. CASE RowsOf(request'[d].email) = {}
    BY <2>1, <2>3 DEF RowsOf
  <2> QED
    BY <2>2, <2>3
<1> QED
  BY <1>1, <1>2 DEF HiredInv

\* A row is inserted by a client that has inserted none with its address.
LEMMA OneHired ==
  ASSUME TypeOK, HiredInv, NEW c \in Clients, NEW u \in Users, CommitCreateUser(c, u)
  PROVE  HiredInv'
<1>1. \A w \in Users : w # u => hiredBy'[w] = hiredBy[w] /\ user'[w] = user[w]
  BY DEF CommitCreateUser, TypeOK
<1>2. hiredBy'[u] = c /\ hiredBy[u] = "none"
  BY DEF CommitCreateUser, TypeOK
<1>3. \A w \in Users : w # u /\ EmailOf[w] = EmailOf[u] => hiredBy[w] # c
  BY DEF CommitCreateUser, HiredInv, HiresNoneTwice
<1>4. RowsOfEmailUpToOverlap'
  <2> SUFFICES ASSUME NEW email \in Emails, NEW v \in RowsOf(email)', NEW w \in RowsOf(email)',
                      hiredBy'[v] = hiredBy'[w], v # w
               PROVE  FALSE
    BY DEF RowsOfEmailUpToOverlap
  <2>0. v \in Users /\ w \in Users /\ EmailOf[v] = email /\ EmailOf[w] = email
    BY DEF RowsOf
  <2>1. v # u /\ w # u
    BY <1>1, <1>2, <1>3, <2>0
  <2>2. v \in RowsOf(email) /\ w \in RowsOf(email)
    BY <1>1, <2>0, <2>1 DEF RowsOf
  <2> QED
    BY <1>1, <2>0, <2>1, <2>2 DEF HiredInv, RowsOfEmailUpToOverlap
<1>5. HiresNoneTwice'
  <2> SUFFICES ASSUME NEW d \in Clients, request'[d].op = "create_user",
                      NEW w \in Users, hiredBy'[w] = d, EmailOf[w] = request'[d].email
               PROVE  FALSE
    BY DEF HiresNoneTwice
  <2>1. d # c
    BY DEF CommitCreateUser, Ended, Idle, TypeOK
  <2>2. request'[d] = request[d]
    BY <2>1 DEF CommitCreateUser, Ended, TypeOK
  <2>3. w # u
    BY <1>2, <2>1
  <2> QED
    BY <1>1, <2>2, <2>3 DEF HiredInv, HiresNoneTwice
<1> QED
  BY <1>4, <1>5 DEF HiredInv

LEMMA HiredStep == TypeOK /\ HiredInv /\ [Next]_vars => HiredInv'
<1> SUFFICES ASSUME TypeOK, HiredInv, [Next]_vars PROVE HiredInv'
  OBVIOUS
<1>1. ASSUME NEW c \in Clients, BeginCreateDefault(c) PROVE HiredInv'
  BY <1>1, NobodyHired DEF BeginCreateDefault, Begin, TypeOK, Idle, userVars
<1>2. ASSUME NEW c \in Clients, CommitMakeDefault(c) PROVE HiredInv'
  BY <1>2, NobodyHired DEF CommitMakeDefault, Ended, TypeOK, Idle, userVars
<1>3. ASSUME NEW c \in Clients, CommitUpdateRole(c) PROVE HiredInv'
  BY <1>3, NobodyHired DEF CommitUpdateRole, Ended, TypeOK, Idle, userVars
<1>4. ASSUME NEW c \in Clients, NEW r \in Roles, CreateRole(c, r) PROVE HiredInv'
  BY <1>4, NobodyHired DEF CreateRole, Step, TypeOK, Idle, userVars
<1>5. ASSUME NEW c \in Clients, NEW r \in Roles, CommitCreateDefault(c, r) PROVE HiredInv'
  BY <1>5, NobodyHired DEF CommitCreateDefault, Ended, TypeOK, Idle, userVars
<1>6. ASSUME NEW c \in Clients, NEW r \in Roles, BeginMakeDefault(c, r) PROVE HiredInv'
  BY <1>6, NobodyHired DEF BeginMakeDefault, Begin, TypeOK, Idle, userVars
<1>7. ASSUME NEW c \in Clients, NEW r \in Roles, BeginUpdateRole(c, r) PROVE HiredInv'
  BY <1>7, NobodyHired DEF BeginUpdateRole, Begin, TypeOK, Idle, userVars
<1>8. ASSUME NEW c \in Clients, NEW r \in Roles, DeleteRole(c, r) PROVE HiredInv'
  BY <1>8, NobodyHired DEF DeleteRole, Step, TypeOK, Idle, userVars
<1>9. ASSUME NEW c \in Clients, NEW email \in Emails, BeginCreateUser(c, email) PROVE HiredInv'
  BY <1>9, NobodyHired DEF BeginCreateUser, Begin, TypeOK, Idle, userVars, NotEmployed
<1>10. ASSUME NEW c \in Clients, NEW u \in Users, CommitCreateUser(c, u) PROVE HiredInv'
  BY <1>10, OneHired
<1>11. ASSUME NEW c \in Clients, NEW u \in Users, Deactivate(c, u) PROVE HiredInv'
  BY <1>11, NobodyHired DEF Deactivate, Step, TypeOK, Idle, userVars
<1>12. ASSUME NEW c \in Clients, NEW u \in Users, Reactivate(c, u) PROVE HiredInv'
  BY <1>12, NobodyHired DEF Reactivate, Step, TypeOK, Idle, userVars
<1>13. ASSUME NEW c \in Clients, NEW u \in Users, NEW r \in Roles \cup {OwnerRole}, ChangeRole(c, u, r) PROVE HiredInv'
  BY <1>13, NobodyHired DEF ChangeRole, Step, TypeOK, Idle, userVars
<1>14. ASSUME NEW c \in Clients, NEW email \in Emails, BeginRequestReset(c, email) PROVE HiredInv'
  BY <1>14, NobodyHired DEF BeginRequestReset, Begin, TypeOK, Idle, userVars
<1>15. ASSUME NEW c \in Clients, NEW new \in SUBSET Links, CommitRequestReset(c, new) PROVE HiredInv'
  BY <1>15, NobodyHired DEF CommitRequestReset, Ended, TypeOK, Idle, userVars
<1>16. ASSUME NEW c \in Clients, NEW t \in Links, BeginReset(c, t) PROVE HiredInv'
  BY <1>16, NobodyHired DEF BeginReset, Begin, TypeOK, Idle, userVars
<1>17. ASSUME NEW c \in Clients, CommitReset(c) PROVE HiredInv'
  BY <1>17, NobodyHired DEF CommitReset, Ended, TypeOK, Idle, userVars
<1>18. ASSUME NEW c \in Clients, Abort(c) PROVE HiredInv'
  BY <1>18, NobodyHired DEF Abort, Ended, TypeOK, Idle, userVars
<1>19. ASSUME NEW t \in Links, Expire(t) PROVE HiredInv'
  BY <1>19, NobodyHired DEF Expire, TypeOK, userVars
<1>20. CASE UNCHANGED vars
  BY <1>20, NobodyHired DEF vars, userVars, TypeOK
<1>21. QED
  BY <1>1, <1>2, <1>3, <1>4, <1>5, <1>6, <1>7, <1>8, <1>9, <1>10, <1>11, <1>12, <1>13, <1>14, <1>15, <1>16, <1>17, <1>18, <1>19, <1>20 DEF Next, RoleStep, UserStep, LinkStep

-----------------------------------------------------------------------------
(* Links *)

\* A link that was void stays so, and the link that sets a password becomes it.
LEMMA LinksSettle ==
  ASSUME TypeOK, SpentAreVoid,
         \A t \in Links : /\ link[t] = "void" => link'[t] = "void"
                          /\ link[t] # "none" => link'[t] # "none",
         \A t \in spent' \ spent : link'[t] = "void",
         \A d \in Clients : \/ request'[d] = request[d]
                            \/ request'[d].op # "reset"
                            \/ \A t \in request'[d].found : link'[t] # "none",
         spent' \subseteq Links,
         \A d \in Clients : request[d].found \subseteq Links
  PROVE  SpentAreVoid'
<1>1. ASSUME NEW t \in spent' PROVE link'[t] = "void"
  <2>1. CASE t \in spent
    BY <2>1 DEF SpentAreVoid
  <2>2. CASE t \notin spent
    BY <2>2
  <2> QED
    BY <2>1, <2>2
<1>2. ASSUME NEW d \in Clients, request'[d].op = "reset", NEW t \in request'[d].found
      PROVE  link'[t] # "none"
  <2>1. CASE request'[d] = request[d]
    BY <1>2, <2>1 DEF SpentAreVoid
  <2> QED
    BY <1>2, <2>1
<1> QED
  BY <1>1, <1>2 DEF SpentAreVoid

\* A spent link stays void through every step.
LEMMA SpentStep == TypeOK /\ SpentAreVoid /\ [Next]_vars => SpentAreVoid'
<1> SUFFICES ASSUME TypeOK, SpentAreVoid, [Next]_vars PROVE SpentAreVoid'
  OBVIOUS
<1>0. spent \subseteq Links /\ \A d \in Clients : request[d].found \subseteq Links
  BY DEF TypeOK, Request
<1>1. ASSUME NEW c \in Clients, BeginCreateDefault(c) PROVE SpentAreVoid'
  BY <1>1, <1>0, LinksSettle DEF BeginCreateDefault, Begin, TypeOK, Idle, linkVars
<1>2. ASSUME NEW c \in Clients, CommitMakeDefault(c) PROVE SpentAreVoid'
  BY <1>2, <1>0, LinksSettle DEF CommitMakeDefault, Ended, TypeOK, Idle, linkVars
<1>3. ASSUME NEW c \in Clients, CommitUpdateRole(c) PROVE SpentAreVoid'
  BY <1>3, <1>0, LinksSettle DEF CommitUpdateRole, Ended, TypeOK, Idle, linkVars
<1>4. ASSUME NEW c \in Clients, NEW r \in Roles, CreateRole(c, r) PROVE SpentAreVoid'
  BY <1>4, <1>0, LinksSettle DEF CreateRole, Step, TypeOK, Idle, linkVars
<1>5. ASSUME NEW c \in Clients, NEW r \in Roles, CommitCreateDefault(c, r) PROVE SpentAreVoid'
  BY <1>5, <1>0, LinksSettle DEF CommitCreateDefault, Ended, TypeOK, Idle, linkVars
<1>6. ASSUME NEW c \in Clients, NEW r \in Roles, BeginMakeDefault(c, r) PROVE SpentAreVoid'
  BY <1>6, <1>0, LinksSettle DEF BeginMakeDefault, Begin, TypeOK, Idle, linkVars
<1>7. ASSUME NEW c \in Clients, NEW r \in Roles, BeginUpdateRole(c, r) PROVE SpentAreVoid'
  BY <1>7, <1>0, LinksSettle DEF BeginUpdateRole, Begin, TypeOK, Idle, linkVars
<1>8. ASSUME NEW c \in Clients, NEW r \in Roles, DeleteRole(c, r) PROVE SpentAreVoid'
  BY <1>8, <1>0, LinksSettle DEF DeleteRole, Step, TypeOK, Idle, linkVars
<1>9. ASSUME NEW c \in Clients, NEW email \in Emails, BeginCreateUser(c, email) PROVE SpentAreVoid'
  BY <1>9, <1>0, LinksSettle DEF BeginCreateUser, Begin, TypeOK, Idle, linkVars
<1>10. ASSUME NEW c \in Clients, NEW u \in Users, CommitCreateUser(c, u) PROVE SpentAreVoid'
  BY <1>10, <1>0, LinksSettle DEF CommitCreateUser, Ended, TypeOK, Idle, linkVars
<1>11. ASSUME NEW c \in Clients, NEW u \in Users, Deactivate(c, u) PROVE SpentAreVoid'
  BY <1>11, <1>0, LinksSettle DEF Deactivate, Step, TypeOK, Idle, linkVars
<1>12. ASSUME NEW c \in Clients, NEW u \in Users, Reactivate(c, u) PROVE SpentAreVoid'
  BY <1>12, <1>0, LinksSettle DEF Reactivate, Step, TypeOK, Idle, linkVars
<1>13. ASSUME NEW c \in Clients, NEW u \in Users, NEW r \in Roles \cup {OwnerRole}, ChangeRole(c, u, r) PROVE SpentAreVoid'
  BY <1>13, <1>0, LinksSettle DEF ChangeRole, Step, TypeOK, Idle, linkVars
<1>14. ASSUME NEW c \in Clients, NEW email \in Emails, BeginRequestReset(c, email) PROVE SpentAreVoid'
  BY <1>14, <1>0, LinksSettle DEF BeginRequestReset, Begin, TypeOK, Idle, linkVars
<1>15. ASSUME NEW c \in Clients, NEW new \in SUBSET Links, CommitRequestReset(c, new) PROVE SpentAreVoid'
  BY <1>15, <1>0, LinksSettle DEF CommitRequestReset, Ended, TypeOK, Idle, linkVars
<1>16. ASSUME NEW c \in Clients, NEW t \in Links, BeginReset(c, t) PROVE SpentAreVoid'
  BY <1>16, <1>0, LinksSettle DEF BeginReset, Begin, TypeOK, Idle, linkVars
<1>17. ASSUME NEW c \in Clients, CommitReset(c) PROVE SpentAreVoid'
  <2>1. PICK t \in request[c].found : VoidAll(t) /\ spent' = spent \cup {t}
    BY <1>17 DEF CommitReset
  <2>2. t \in Links /\ link[t] # "none"
    BY <1>17, <1>0, <2>1 DEF CommitReset, SpentAreVoid
  <2>3. \A s \in Links : link'[s] \in {link[s], "void"}
    BY <2>1 DEF VoidAll
  <2>4. link'[t] = "void"
    BY <2>1, <2>2 DEF VoidAll, LinksOf, TypeOK
  <2>5. \A d \in Clients : request'[d] = request[d] \/ request'[d].op # "reset"
    BY <1>17 DEF CommitReset, Ended, Idle, TypeOK
  <2> QED
    BY <1>0, <2>1, <2>2, <2>3, <2>4, <2>5, LinksSettle
<1>18. ASSUME NEW c \in Clients, Abort(c) PROVE SpentAreVoid'
  BY <1>18, <1>0, LinksSettle DEF Abort, Ended, TypeOK, Idle, linkVars
<1>19. ASSUME NEW t \in Links, Expire(t) PROVE SpentAreVoid'
  BY <1>19, <1>0, LinksSettle DEF Expire, TypeOK
<1>20. CASE UNCHANGED vars
  BY <1>20, <1>0, LinksSettle DEF vars, linkVars, TypeOK
<1>21. QED
  BY <1>1, <1>2, <1>3, <1>4, <1>5, <1>6, <1>7, <1>8, <1>9, <1>10, <1>11, <1>12, <1>13, <1>14, <1>15, <1>16, <1>17, <1>18, <1>19, <1>20 DEF Next, RoleStep, UserStep, LinkStep

\* No step of a request passes the check with a spent link.
LEMMA SpentRefused ==
  ASSUME TypeOK, SpentAreVoid, [Next]_vars, NEW c \in Clients, NEW t \in spent,
         request'[c].op = "reset", t \in request'[c].found
  PROVE  request[c].op = "reset" /\ t \in request[c].found
<1>0. t \in Links /\ link[t] = "void"
  BY DEF TypeOK, SpentAreVoid
<1> SUFFICES ASSUME request'[c] # request[c] PROVE FALSE
  OBVIOUS
<1>1. ASSUME NEW d \in Clients, BeginCreateDefault(d) PROVE FALSE
  BY <1>1, <1>0 DEF BeginCreateDefault, Begin, TypeOK, Idle
<1>2. ASSUME NEW d \in Clients, CommitMakeDefault(d) PROVE FALSE
  BY <1>2, <1>0 DEF CommitMakeDefault, Ended, TypeOK, Idle
<1>3. ASSUME NEW d \in Clients, CommitUpdateRole(d) PROVE FALSE
  BY <1>3, <1>0 DEF CommitUpdateRole, Ended, TypeOK, Idle
<1>4. ASSUME NEW d \in Clients, NEW r \in Roles, CreateRole(d, r) PROVE FALSE
  BY <1>4, <1>0 DEF CreateRole, Step, TypeOK, Idle
<1>5. ASSUME NEW d \in Clients, NEW r \in Roles, CommitCreateDefault(d, r) PROVE FALSE
  BY <1>5, <1>0 DEF CommitCreateDefault, Ended, TypeOK, Idle
<1>6. ASSUME NEW d \in Clients, NEW r \in Roles, BeginMakeDefault(d, r) PROVE FALSE
  BY <1>6, <1>0 DEF BeginMakeDefault, Begin, TypeOK, Idle
<1>7. ASSUME NEW d \in Clients, NEW r \in Roles, BeginUpdateRole(d, r) PROVE FALSE
  BY <1>7, <1>0 DEF BeginUpdateRole, Begin, TypeOK, Idle
<1>8. ASSUME NEW d \in Clients, NEW r \in Roles, DeleteRole(d, r) PROVE FALSE
  BY <1>8, <1>0 DEF DeleteRole, Step, TypeOK, Idle
<1>9. ASSUME NEW d \in Clients, NEW email \in Emails, BeginCreateUser(d, email) PROVE FALSE
  BY <1>9, <1>0 DEF BeginCreateUser, Begin, TypeOK, Idle
<1>10. ASSUME NEW d \in Clients, NEW u \in Users, CommitCreateUser(d, u) PROVE FALSE
  BY <1>10, <1>0 DEF CommitCreateUser, Ended, TypeOK, Idle
<1>11. ASSUME NEW d \in Clients, NEW u \in Users, Deactivate(d, u) PROVE FALSE
  BY <1>11, <1>0 DEF Deactivate, Step, TypeOK, Idle
<1>12. ASSUME NEW d \in Clients, NEW u \in Users, Reactivate(d, u) PROVE FALSE
  BY <1>12, <1>0 DEF Reactivate, Step, TypeOK, Idle
<1>13. ASSUME NEW d \in Clients, NEW u \in Users, NEW r \in Roles \cup {OwnerRole}, ChangeRole(d, u, r) PROVE FALSE
  BY <1>13, <1>0 DEF ChangeRole, Step, TypeOK, Idle
<1>14. ASSUME NEW d \in Clients, NEW email \in Emails, BeginRequestReset(d, email) PROVE FALSE
  BY <1>14, <1>0 DEF BeginRequestReset, Begin, TypeOK, Idle
<1>15. ASSUME NEW d \in Clients, NEW new \in SUBSET Links, CommitRequestReset(d, new) PROVE FALSE
  BY <1>15, <1>0 DEF CommitRequestReset, Ended, TypeOK, Idle
<1>16. ASSUME NEW d \in Clients, NEW s \in Links, BeginReset(d, s) PROVE FALSE
  BY <1>16, <1>0 DEF BeginReset, Begin, TypeOK, Idle
<1>17. ASSUME NEW d \in Clients, CommitReset(d) PROVE FALSE
  BY <1>17, <1>0 DEF CommitReset, Ended, TypeOK, Idle
<1>18. ASSUME NEW d \in Clients, Abort(d) PROVE FALSE
  BY <1>18, <1>0 DEF Abort, Ended, TypeOK, Idle
<1>19. ASSUME NEW s \in Links, Expire(s) PROVE FALSE
  BY <1>19 DEF Expire
<1>20. CASE UNCHANGED vars
  BY <1>20 DEF vars
<1>21. QED
  BY <1>1, <1>2, <1>3, <1>4, <1>5, <1>6, <1>7, <1>8, <1>9, <1>10, <1>11, <1>12, <1>13, <1>14, <1>15, <1>16, <1>17, <1>18, <1>19, <1>20 DEF Next, RoleStep, UserStep, LinkStep

-----------------------------------------------------------------------------
(* Theorems *)

LEMMA Initially == Init => IInv
BY NamesAssumption
   DEF Init, IInv, TypeOK, Request, Idle, NoUser, Defaults, DefaultsUpToOverlap, SnapshotHasOwn,
       MovesDefault, RowsOfEmailUpToOverlap, RowsOf, HiresNoneTwice, SpentAreVoid

LEMMA Inductive == IInv /\ [Next]_vars => IInv'
<1> SUFFICES ASSUME IInv, [Next]_vars PROVE IInv'
  OBVIOUS
<1>1. TypeOK'
  BY TypeStep DEF IInv
<1>2. DefaultsInv'
  BY DefaultsStep DEF IInv, DefaultsInv
<1>3. HiredInv'
  BY HiredStep DEF IInv, HiredInv
<1>4. SpentAreVoid'
  BY SpentStep DEF IInv
<1> QED
  BY <1>1, <1>2, <1>3, <1>4 DEF IInv, DefaultsInv, HiredInv

\* IInv holds in every state the directory reaches.
THEOREM Invariance == Spec => []IInv
BY Initially, Inductive, PTL DEF Spec

\* The role of every user and every default role exist, for any number of
\* roles, users, addresses, links and requests.
THEOREM DirectoryTypeCorrect == Spec => []TypeOK
<1>1. IInv => TypeOK
  BY DEF IInv
<1> QED
  BY <1>1, Invariance, PTL

\* No client leaves a second default role next to one he made (ClearDefault).
THEOREM DefaultsOverlapOnly == Spec => []DefaultsUpToOverlap
<1>1. IInv => DefaultsUpToOverlap
  BY DEF IInv
<1> QED
  BY <1>1, Invariance, PTL

\* No client inserts a second row with an address (CreateUser).
THEOREM RowsOverlapOnly == Spec => []RowsOfEmailUpToOverlap
<1>1. IInv => RowsOfEmailUpToOverlap
  BY DEF IInv
<1> QED
  BY <1>1, Invariance, PTL

\* Hence the bounds: default roles, and rows of one address, are at most as
\* many as the requests that can be in flight at once.
THEOREM OnePerClient == Spec => []AtMostOnePerClient
<1>1. ASSUME IInv PROVE AtMostOnePerClient
  <2>0. IsFiniteSet(Clients)
    BY NamesAssumption
  <2>1. Cardinality(Defaults) <= Cardinality(Clients)
    <3> DEFINE f == [r \in Defaults |-> defaultBy[r]]
    <3>1. f \in Injection(Defaults, Clients)
      BY <1>1 DEF IInv, TypeOK, Defaults, DefaultsUpToOverlap, Injection, IsInjective
    <3> QED
      BY <2>0, <3>1, FS_Injection
  <2>2. ASSUME NEW email \in Emails PROVE Cardinality(RowsOf(email)) <= Cardinality(Clients)
    <3> DEFINE f == [u \in RowsOf(email) |-> hiredBy[u]]
    <3>1. f \in Injection(RowsOf(email), Clients)
      BY <1>1 DEF IInv, TypeOK, RowsOf, RowsOfEmailUpToOverlap, Injection, IsInjective
    <3> QED
      BY <2>0, <3>1, FS_Injection
  <2> QED
    BY <2>1, <2>2 DEF AtMostOnePerClient
<1> QED
  BY <1>1, Invariance, PTL

\* A link that has set a password passes no check again (ResetPassword).
THEOREM SpentForGood == Spec => SpentStaysSpent
<1>1. ASSUME IInv, [Next]_vars
      PROVE  [\A c \in Clients : \A t \in spent :
                (request'[c].op = "reset" /\ t \in request'[c].found)
                  => request[c].op = "reset" /\ t \in request[c].found]_vars
  BY <1>1, SpentRefused DEF IInv
<1> QED
  BY <1>1, Invariance, PTL DEF Spec, SpentStaysSpent
=============================================================================
