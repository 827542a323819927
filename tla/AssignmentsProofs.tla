--------------------------- MODULE AssignmentsProofs ---------------------------
(***************************************************************************)
(* Proofs about the assignments. Everything rests on what a request keeps  *)
(* of what it has read: the assignments it writes are not those another    *)
(* request creates, and an UPDATE that cancels has found every open row    *)
(* that Create made, since only newcomers are enrolled afterwards.         *)
(***************************************************************************)
EXTENDS Assignments, TLAPS

Pairs == Assignments \X Users
Known == {a \in Assignments : assignment[a] # "none"}
Closes(op) == op \in {"cancel", "video_deleted", "group_deleted"}

\* An assignment that is not created has no rows.
NoRowsBefore == \A a \in Assignments \ Known, u \in Users : participant[a][u] = NoParticipant

PersonalOpen(a, u) == IsOpen(a, u) /\ participant[a][u].source = "personal"

\* What a request in flight keeps true of the rows, whatever others commit.
RequestFits(req) ==
  /\ req.op = "create" => req.on \cap Known = {} /\ \E a \in Assignments : req.on = {a}
  /\ req.op # "create" => req.on \subseteq Known
  /\ \A p \in req.found : p[1] \in Known
  /\ req.op \in {"create", "add"} => \A u \in req.users : req.source[u] # "none"
  /\ req.op = "add" => \A u \in req.users : req.source[u] = "group"
  /\ req.op \in {"create", "add", "due"} => \A a \in req.on : req.terms[a] \in Terms
  /\ req.op = "due" => \A p \in req.found : p[1] \in req.on
  /\ Closes(req.op) =>
       \A a \in req.on, u \in Users : PersonalOpen(a, u) => <<a, u>> \in req.found

RequestsFit == \A c \in Clients : RequestFits(request[c])

\* No two requests create the same assignment.
CreatorsApart ==
  \A c, d \in Clients :
    request[c].op = "create" /\ request[d].op = "create" /\ c # d
      => request[c].on \cap request[d].on = {}

IInv ==
  /\ TypeOK
  /\ NoRowsBefore
  /\ RequestsFit /\ CreatorsApart
  /\ JournalMatchesRows
  /\ OnlyNewcomersOutlive

-----------------------------------------------------------------------------
(* What the statements do to a row *)

Kept(a, u) == participant'[a][u] = participant[a][u] /\ journal'[a][u] = journal[a][u]

Enrolled(a, u) ==
  /\ participant[a][u].status \in {"none", "cancelled"}
  /\ participant'[a][u] \in Participant
  /\ participant'[a][u].status \in Stages
  /\ journal'[a][u] = IF participant'[a][u].status = "completed" THEN "completed" ELSE "enrolled"

Withdrawn(a, u) ==
  /\ IsOpen(a, u)
  /\ participant'[a][u] = [participant[a][u] EXCEPT !.status = "cancelled"]
  /\ journal'[a][u] = "cancelled"

Rescheduled(a, u) ==
  /\ IsOpen(a, u)
  /\ \E t \in Terms : participant'[a][u] = [participant[a][u] EXCEPT !.due = t]
  /\ journal'[a][u] = journal[a][u]

Watched(a, u) ==
  /\ IsOpen(a, u) /\ assignment[a] = "active"
  /\ \E s \in {"in_progress", "completed"} :
       participant'[a][u] = [participant[a][u] EXCEPT !.status = s]
  /\ journal'[a][u] = journal[a][u]

RowMoves(a, u) ==
  Kept(a, u) \/ Enrolled(a, u) \/ Withdrawn(a, u) \/ Rescheduled(a, u) \/ Watched(a, u)

RowTypes ==
  /\ participant \in [Assignments -> [Users -> Participant \cup {NoParticipant}]]
  /\ journal \in [Assignments -> [Users -> {"none", "enrolled", "cancelled", "completed"}]]

\* An open row is the row of a participant.
LEMMA OpenIsParticipant ==
  ASSUME TypeOK, NEW a \in Assignments, NEW u \in Users, IsOpen(a, u)
  PROVE  participant[a][u] \in Participant
BY DEF TypeOK, IsOpen, NoParticipant, Unfinished

LEMMA EnrolShape ==
  ASSUME TypeOK, NEW R \in SUBSET Pairs, NEW source \in [Users -> {"none", "personal", "group"}],
         NEW due \in [Assignments -> Terms \cup {"none"}], NEW stage \in [Users -> Stages],
         \A p \in R : source[p[2]] # "none" /\ due[p[1]] \in Terms,
         Enrol(R, source, due, stage)
  PROVE  /\ RowTypes'
         /\ \A a \in Assignments, u \in Users :
              \/ Kept(a, u)
              \/ /\ <<a, u>> \in R
                 /\ participant'[a][u] = [status |-> stage[u], source |-> source[u], due |-> due[a]]
                 /\ Enrolled(a, u)
<1> DEFINE touched == {p \in R : Reactivates(participant[p[1]][p[2]].status)}
<1>1. /\ participant' = [a \in Assignments |-> [u \in Users |->
           IF <<a, u>> \in touched
           THEN [status |-> stage[u], source |-> source[u], due |-> due[a]]
           ELSE participant[a][u]]]
      /\ journal' = [a \in Assignments |-> [u \in Users |->
           IF <<a, u>> \notin touched THEN journal[a][u]
           ELSE IF stage[u] = "completed" THEN "completed" ELSE "enrolled"]]
  BY DEF Enrol
<1>2. \A a \in Assignments, u \in Users : <<a, u>> \in touched =>
        /\ <<a, u>> \in R
        /\ participant[a][u].status \in {"none", "cancelled"}
        /\ source[u] # "none" /\ due[a] \in Terms
  BY DEF Reactivates
<1> HIDE DEF touched
<1>3. \A a \in Assignments, u \in Users : <<a, u>> \in touched =>
        [status |-> stage[u], source |-> source[u], due |-> due[a]] \in Participant
  BY <1>2 DEF Participant
<1>4. RowTypes'
  BY <1>1, <1>3 DEF RowTypes, TypeOK
<1>5. ASSUME NEW a \in Assignments, NEW u \in Users
      PROVE  \/ Kept(a, u)
             \/ /\ <<a, u>> \in R
                /\ participant'[a][u] = [status |-> stage[u], source |-> source[u], due |-> due[a]]
                /\ Enrolled(a, u)
  <2>1. CASE <<a, u>> \notin touched
    BY <1>1, <2>1 DEF Kept
  <2>2. CASE <<a, u>> \in touched
    <3>1. participant'[a][u] = [status |-> stage[u], source |-> source[u], due |-> due[a]]
      BY <1>1, <2>2
    <3>2. journal'[a][u] = IF stage[u] = "completed" THEN "completed" ELSE "enrolled"
      BY <1>1, <2>2
    <3>3. participant'[a][u] \in Participant
      BY <3>1, <1>3, <2>2
    <3>4. participant'[a][u].status = stage[u] /\ stage[u] \in Stages
      BY <3>1
    <3> QED
      BY <1>2, <2>2, <3>1, <3>2, <3>3, <3>4 DEF Enrolled
  <2> QED
    BY <2>1, <2>2
<1> QED
  BY <1>4, <1>5

LEMMA WithdrawShape ==
  ASSUME TypeOK, NEW R \in SUBSET Pairs, Withdraw(R)
  PROVE  /\ RowTypes'
         /\ \A a \in Assignments, u \in Users :
              \/ Kept(a, u) /\ (<<a, u>> \in R => ~ IsOpen(a, u))
              \/ <<a, u>> \in R /\ Withdrawn(a, u)
<1> DEFINE touched == {p \in R : IsOpen(p[1], p[2])}
<1>1. /\ participant' = [a \in Assignments |-> [u \in Users |->
           IF <<a, u>> \in touched THEN [participant[a][u] EXCEPT !.status = "cancelled"]
           ELSE participant[a][u]]]
      /\ journal' = [a \in Assignments |-> [u \in Users |->
           IF <<a, u>> \in touched THEN "cancelled" ELSE journal[a][u]]]
  BY DEF Withdraw
<1>2. \A a \in Assignments, u \in Users :
        <<a, u>> \in touched <=> <<a, u>> \in R /\ IsOpen(a, u)
  OBVIOUS
<1> HIDE DEF touched
<1>3. \A a \in Assignments, u \in Users : <<a, u>> \in touched =>
        [participant[a][u] EXCEPT !.status = "cancelled"] \in Participant
  BY <1>2, OpenIsParticipant DEF Participant
<1>4. RowTypes'
  BY <1>1, <1>3 DEF RowTypes, TypeOK
<1>5. \A a \in Assignments, u \in Users :
        \/ Kept(a, u) /\ (<<a, u>> \in R => ~ IsOpen(a, u))
        \/ <<a, u>> \in R /\ Withdrawn(a, u)
  BY <1>1, <1>2 DEF Kept, Withdrawn
<1> QED
  BY <1>4, <1>5

-----------------------------------------------------------------------------
(* A request begins *)

LEMMA BeginKeeps ==
  ASSUME IInv, NEW c \in Clients, NEW req \in Request, RequestFits(req), Begin(c, req),
         req.op = "create" =>
           \A d \in Clients : request[d].op = "create" => req.on \cap request[d].on = {}
  PROVE  IInv'
<1>1. /\ UNCHANGED <<assignment, term, forGroup, participant, journal, members, inactive,
                    present, seen, past>>
      /\ request' = [request EXCEPT ![c] = req]
  BY DEF Begin, rows
<1>2. TypeOK'
  BY <1>1 DEF IInv, TypeOK
<1>3. NoRowsBefore' /\ JournalMatchesRows' /\ OnlyNewcomersOutlive'
  BY <1>1 DEF IInv, NoRowsBefore, Known, JournalMatchesRows, OnlyNewcomersOutlive, Cancelled, IsOpen
<1>4. \A d \in Clients : request'[d] = IF d = c THEN req ELSE request[d]
  BY <1>1 DEF IInv, TypeOK
<1>5. ASSUME NEW d \in Clients PROVE RequestFits(request[d])'
  <2>1. RequestFits(request'[d])
    BY <1>4 DEF IInv, RequestsFit
  <2> QED
    BY <2>1, <1>1 DEF RequestFits, Known, PersonalOpen, IsOpen
<1>6. CreatorsApart'
  BY <1>4 DEF IInv, CreatorsApart
<1> QED
  BY <1>2, <1>3, <1>5, <1>6 DEF IInv, RequestsFit

LEMMA StageTypes ==
  ASSUME TypeOK, NEW U \in SUBSET Users
  PROVE  StagesOf(U) \in [Users -> Stages]
BY DEF StagesOf, InitialStage, TypeOK, Stages, Unfinished

LEMMA BeginSteps ==
  ASSUME IInv, NEW c \in Clients
  PROVE  /\ \A a \in Assignments, personal \in SUBSET Users, toGroup \in BOOLEAN, t \in Terms :
              BeginCreate(c, a, personal, toGroup, t) => IInv'
         /\ \A a \in Assignments, t \in Terms : BeginUpdateDue(c, a, t) => IInv'
         /\ \A a \in Assignments : BeginCancel(c, a) => IInv'
         /\ \A a \in Assignments, u \in Users : BeginRemoveParticipant(c, a, u) => IInv'
         /\ \A U \in SUBSET Users : BeginAddMembers(c, U) => IInv'
         /\ BeginDeleteVideo(c) \/ BeginDeleteGroup(c) => IInv'
<1> USE TermsAssumption
<1>0. TypeOK
  BY DEF IInv
<1>1. ASSUME NEW a \in Assignments, NEW personal \in SUBSET Users, NEW toGroup \in BOOLEAN,
             NEW t \in Terms, BeginCreate(c, a, personal, toGroup, t)
      PROVE  IInv'
  <2> DEFINE source == AcceptedSource(personal, toGroup)
             enrolled == {u \in Users : source[u] # "none"}
             stage == StagesOf(enrolled)
             req == [Idle EXCEPT !.op = "create", !.on = {a}, !.users = enrolled,
                                 !.toGroup = toGroup, !.source = source,
                                 !.stage = stage, !.terms[a] = t]
  <2>1. source \in [Users -> {"none", "personal", "group"}]
    BY DEF AcceptedSource
  <2>2. stage \in [Users -> Stages]
    BY StageTypes, <1>0
  <2>3. /\ Begin(c, req) /\ assignment[a] = "none"
        /\ \A d \in Clients : request[d].op = "create" => a \notin request[d].on
    BY <1>1 DEF BeginCreate
  <2>4. enrolled \in SUBSET Users /\ \A u \in enrolled : source[u] # "none"
    OBVIOUS
  <2> HIDE DEF source, enrolled, stage
  <2>5. /\ req.op = "create" /\ req.on = {a} /\ req.users = enrolled /\ req.source = source
        /\ req.terms = [b \in Assignments |-> IF b = a THEN t ELSE "none"]
        /\ req.found = {} /\ req.stage = stage /\ req.toGroup = toGroup
    BY DEF Idle
  <2>6. req \in Request
    BY <2>1, <2>2, <2>4, <2>5 DEF Idle, Request
  <2> HIDE DEF req
  <2>7. RequestFits(req)
    BY <2>3, <2>4, <2>5 DEF RequestFits, Known, Closes
  <2> QED
    BY <2>3, <2>5, <2>6, <2>7, BeginKeeps
<1>2. ASSUME NEW a \in Assignments, NEW t \in Terms, BeginUpdateDue(c, a, t) PROVE IInv'
  <2> DEFINE req == [Idle EXCEPT !.op = "due", !.on = {a}, !.found = OpenRows({a}), !.terms[a] = t]
  <2>1. Begin(c, req) /\ a \in Known
    BY <1>2 DEF BeginUpdateDue, Known
  <2>2. OpenRows({a}) \in SUBSET Pairs /\ \A p \in OpenRows({a}) : p[1] = a
    BY DEF OpenRows, Pairs
  <2>3. /\ req.op = "due" /\ req.on = {a} /\ req.found = OpenRows({a}) /\ req.users = {}
        /\ req.terms = [b \in Assignments |-> IF b = a THEN t ELSE "none"]
    BY DEF Idle
  <2>4. req \in Request
    BY <2>2, <2>3 DEF Idle, Request, Stages, Unfinished, Pairs
  <2> HIDE DEF req
  <2>5. \A b \in req.on : req.terms[b] \in Terms
    BY <2>3
  <2>6. /\ req.on \subseteq Known
        /\ \A p \in req.found : p[1] \in Known /\ p[1] \in req.on
    BY <2>1, <2>2, <2>3
  <2>7. RequestFits(req)
    BY <2>3, <2>5, <2>6 DEF RequestFits, Closes
  <2> QED
    BY <2>1, <2>3, <2>4, <2>7, BeginKeeps
<1>3. ASSUME NEW op \in {"cancel", "video_deleted", "group_deleted"},
             NEW S \in SUBSET Known,
             Begin(c, [Idle EXCEPT !.op = op, !.on = S, !.found = OpenRows(S)])
      PROVE  IInv'
  <2> DEFINE req == [Idle EXCEPT !.op = op, !.on = S, !.found = OpenRows(S)]
  <2>1. OpenRows(S) \in SUBSET Pairs /\ \A p \in OpenRows(S) : p[1] \in S
    BY DEF OpenRows, Pairs, Known
  <2>2. \A a \in S, u \in Users : PersonalOpen(a, u) => <<a, u>> \in OpenRows(S)
    BY DEF OpenRows, PersonalOpen
  <2>3. /\ req.op = op /\ req.on = S /\ req.found = OpenRows(S) /\ req.users = {}
        /\ req.terms = [a \in Assignments |-> "none"]
    BY DEF Idle
  <2>4. req \in Request
    BY <2>1, <2>3 DEF Idle, Request, Stages, Unfinished, Pairs, Known
  <2>5. Begin(c, req)
    BY <1>3
  <2> HIDE DEF req
  <2>6. RequestFits(req)
    BY <2>1, <2>2, <2>3 DEF RequestFits, Closes
  <2> QED
    BY <2>3, <2>4, <2>5, <2>6, BeginKeeps
<1>4. ASSUME NEW a \in Assignments, BeginCancel(c, a) PROVE IInv'
  <2>1. {a} \in SUBSET Known
    BY <1>4 DEF BeginCancel, Known
  <2> QED
    BY <2>1, <1>3, <1>4 DEF BeginCancel
<1>5. ASSUME NEW a \in Assignments, NEW u \in Users, BeginRemoveParticipant(c, a, u) PROVE IInv'
  <2> DEFINE req == [Idle EXCEPT !.op = "remove", !.found = {<<a, u>>}]
  <2>1. Begin(c, req) /\ a \in Known
    BY <1>5 DEF BeginRemoveParticipant, Known
  <2>2. /\ req.op = "remove" /\ req.on = {} /\ req.found = {<<a, u>>} /\ req.users = {}
    BY DEF Idle
  <2>3. req \in Request
    <3>1. {<<a, u>>} \in SUBSET Pairs
      BY DEF Pairs
    <3> QED
      BY <2>2, <3>1 DEF Idle, Request, Stages, Unfinished, Pairs
  <2> HIDE DEF req
  <2>4. RequestFits(req)
    BY <2>1, <2>2 DEF RequestFits, Closes
  <2> QED
    BY <2>1, <2>2, <2>3, <2>4, BeginKeeps
<1>6. ASSUME NEW U \in SUBSET Users, BeginAddMembers(c, U) PROVE IInv'
  <2> DEFINE joined == {a \in Active \cap forGroup : EnrollsNewcomers(a)}
             source == [u \in Users |-> IF u \in U THEN "group" ELSE "none"]
             stage == StagesOf(U)
             terms == [a \in Assignments |-> IF a \in joined THEN term[a] ELSE "none"]
             req == [Idle EXCEPT !.op = "add", !.users = U, !.on = joined, !.source = source,
                                 !.stage = stage, !.terms = terms]
  <2>1. Begin(c, req)
    BY <1>6 DEF BeginAddMembers
  <2>2. joined \subseteq Known /\ \A a \in joined : term[a] \in Terms
    BY DEF Active, Known, EnrollsNewcomers, ValidDue
  <2>3. source \in [Users -> {"none", "personal", "group"}] /\ \A u \in U : source[u] = "group"
    OBVIOUS
  <2>4. stage \in [Users -> Stages]
    BY StageTypes, <1>0
  <2>5. terms \in [Assignments -> Terms \cup {"none"}] /\ \A a \in joined : terms[a] \in Terms
    BY <2>2 DEF Known
  <2> HIDE DEF joined, source, stage, terms
  <2>6. /\ req.op = "add" /\ req.on = joined /\ req.found = {} /\ req.users = U
        /\ req.source = source /\ req.terms = terms /\ req.stage = stage
    BY DEF Idle
  <2>7. req \in Request
    BY <2>2, <2>3, <2>4, <2>5, <2>6 DEF Idle, Request, Known
  <2> HIDE DEF req
  <2>8. RequestFits(req)
    BY <2>2, <2>3, <2>5, <2>6 DEF RequestFits, Closes
  <2> QED
    BY <2>1, <2>6, <2>7, <2>8, BeginKeeps
<1>7. ASSUME BeginDeleteVideo(c) \/ BeginDeleteGroup(c) PROVE IInv'
  <2>1. Active \in SUBSET Known
    BY DEF Active, Known
  <2> QED
    BY <2>1, <1>3, <1>7 DEF BeginDeleteVideo, BeginDeleteGroup, BeginDelete
<1> QED
  BY <1>1, <1>2, <1>4, <1>5, <1>6, <1>7

-----------------------------------------------------------------------------
(* What a step that is not the beginning of a request does *)

\* An assignment is created by the request that was to create it, or closed
\* without leaving an open row of its personal participants.
AssignmentMoves(a) ==
  \/ assignment'[a] = assignment[a]
  \/ /\ assignment[a] = "none" /\ assignment'[a] = "active"
     /\ \E c \in Clients : request[c].op = "create" /\ a \in request[c].on /\ request'[c] = Idle
  \/ /\ assignment[a] = "active" /\ assignment'[a] \in Reasons
     /\ \A u \in Users : ~ PersonalOpen(a, u)'

\* Rows appear with their assignment, or are those of newcomers.
EnrolledDuly(a, u) ==
  \/ assignment[a] = "none" /\ assignment'[a] = "active"
  \/ /\ a \in Known /\ assignment'[a] = assignment[a]
     /\ u \in members' \ members /\ participant'[a][u].source = "group"

RowsEffect ==
  /\ \A a \in Assignments : AssignmentMoves(a)
  /\ \A a \in Assignments, u \in Users :
       RowMoves(a, u) /\ (Enrolled(a, u) => EnrolledDuly(a, u))

RequestsEnd == \A d \in Clients : request'[d] \in {request[d], Idle}

Effect == TypeOK' /\ RowsEffect /\ RequestsEnd

LEMMA Statuses ==
  /\ "none" \notin Reasons /\ "active" \notin Reasons
  /\ Unfinished \subseteq Stages /\ "completed" \in Stages
  /\ "none" \notin Stages /\ "cancelled" \notin Stages /\ "completed" \notin Unfinished
  /\ NoParticipant.status = "none" /\ Idle.op = "idle"
BY DEF Reasons, Unfinished, Stages, NoParticipant, Idle

\* What a row has after it moved.
LEMMA MovedRow ==
  ASSUME TypeOK, NEW a \in Assignments, NEW u \in Users, RowMoves(a, u)
  PROVE  /\ Kept(a, u) \/ Enrolled(a, u) \/ IsOpen(a, u)
         /\ ~ Enrolled(a, u) => participant'[a][u].source = participant[a][u].source
         /\ participant'[a][u].status \in Unfinished => IsOpen(a, u) \/ Enrolled(a, u)
         /\ Withdrawn(a, u) => participant'[a][u].status = "cancelled"
         /\ Rescheduled(a, u) => participant'[a][u].status = participant[a][u].status
         /\ Watched(a, u) => participant'[a][u].status \in {"in_progress", "completed"}
<1>1. IsOpen(a, u) => participant[a][u] \in Participant
  BY OpenIsParticipant
<1>2. Withdrawn(a, u) => /\ participant'[a][u].status = "cancelled"
                         /\ participant'[a][u].source = participant[a][u].source
  BY <1>1 DEF Withdrawn, Participant
<1>3. Rescheduled(a, u) => /\ participant'[a][u].status = participant[a][u].status
                           /\ participant'[a][u].source = participant[a][u].source
  BY <1>1 DEF Rescheduled, Participant
<1>4. Watched(a, u) => /\ participant'[a][u].status \in {"in_progress", "completed"}
                       /\ participant'[a][u].source = participant[a][u].source
  BY <1>1 DEF Watched, Participant
<1>5. Kept(a, u) => participant'[a][u] = participant[a][u]
  BY DEF Kept
<1>6. Withdrawn(a, u) \/ Rescheduled(a, u) \/ Watched(a, u) => IsOpen(a, u)
  BY DEF Withdrawn, Rescheduled, Watched
<1>7. participant[a][u].status \in Unfinished => IsOpen(a, u)
  BY DEF IsOpen
<1> QED
  BY <1>2, <1>3, <1>4, <1>5, <1>6, <1>7, Statuses DEF RowMoves, Unfinished

LEMMA EffectKeeps == ASSUME IInv, Effect PROVE IInv'
<1> USE Statuses
<1>1. /\ TypeOK /\ TypeOK' /\ NoRowsBefore /\ RequestsFit /\ CreatorsApart
      /\ JournalMatchesRows /\ OnlyNewcomersOutlive /\ RequestsEnd
      /\ \A a \in Assignments : AssignmentMoves(a)
      /\ \A a \in Assignments, u \in Users :
           RowMoves(a, u) /\ (Enrolled(a, u) => EnrolledDuly(a, u))
  BY DEF IInv, Effect, RowsEffect
<1>2. Known \subseteq Known'
  BY <1>1 DEF AssignmentMoves, Known
<1>3. NoRowsBefore'
  <2> SUFFICES ASSUME NEW a \in Assignments, assignment'[a] = "none", NEW u \in Users
               PROVE  participant'[a][u] = NoParticipant
    BY DEF NoRowsBefore, Known
  <2>1. assignment[a] = "none" /\ a \notin Known
    BY <1>1 DEF AssignmentMoves, Known
  <2>2. participant[a][u] = NoParticipant /\ ~ IsOpen(a, u)
    BY <2>1, <1>1 DEF NoRowsBefore, IsOpen
  <2>3. ~ Enrolled(a, u)
    BY <2>1, <1>1 DEF EnrolledDuly
  <2>4. Kept(a, u)
    BY <2>2, <2>3, <1>1 DEF RowMoves, Withdrawn, Rescheduled, Watched
  <2> QED
    BY <2>2, <2>4 DEF Kept
<1>4. ASSUME NEW a \in Known, NEW u \in Users, PersonalOpen(a, u)' PROVE PersonalOpen(a, u)
  <2>1. a \in Assignments /\ assignment[a] # "none"
    BY DEF Known
  <2>2. ~ Enrolled(a, u)
    BY <2>1, <1>1, <1>4 DEF EnrolledDuly, PersonalOpen
  <2> QED
    BY <2>1, <2>2, <1>1, <1>4, MovedRow DEF PersonalOpen, IsOpen
<1>5. ASSUME NEW d \in Clients PROVE RequestFits(request[d])'
  <2>1. CASE request'[d] = Idle
    BY <2>1 DEF RequestFits, Idle, Closes
  <2>2. CASE request'[d] = request[d] /\ request'[d] # Idle
    <3>1. RequestFits(request[d])
      BY <1>1 DEF RequestsFit
    <3>2. ASSUME request[d].op = "create", NEW a \in request[d].on, a \in Known' PROVE FALSE
      <4>1. a \notin Known /\ a \in Assignments
        BY <3>1, <3>2 DEF RequestFits, Known
      <4>2. PICK c \in Clients : request[c].op = "create" /\ a \in request[c].on /\ request'[c] = Idle
        BY <4>1, <3>2, <1>1 DEF AssignmentMoves, Known
      <4>3. c # d
        BY <4>2, <2>2
      <4> QED
        BY <4>2, <4>3, <3>2, <1>1 DEF CreatorsApart
    <3>3. ASSUME request[d].op # "create" PROVE request[d].on \subseteq Known'
      BY <3>1, <3>3, <1>2 DEF RequestFits
    <3>4. ASSUME NEW p \in request[d].found PROVE p[1] \in Known'
      BY <3>1, <1>2 DEF RequestFits
    <3>5. ASSUME Closes(request[d].op), NEW a \in request[d].on, NEW u \in Users, PersonalOpen(a, u)'
          PROVE  <<a, u>> \in request[d].found
      BY <3>1, <3>5, <1>4 DEF RequestFits, Closes
    <3> QED
      BY <2>2, <3>1, <3>2, <3>3, <3>4, <3>5 DEF RequestFits
  <2> QED
    BY <2>1, <2>2, <1>1 DEF RequestsEnd
<1>6. CreatorsApart'
  BY <1>1 DEF CreatorsApart, RequestsEnd
<1>7. JournalMatchesRows'
  <2> SUFFICES ASSUME NEW a \in Assignments, NEW u \in Users
               PROVE  LET status == participant'[a][u].status IN
                      /\ status = "none" <=> journal'[a][u] = "none"
                      /\ status = "cancelled" <=> journal'[a][u] = "cancelled"
                      /\ status \in Unfinished => journal'[a][u] = "enrolled"
    BY DEF JournalMatchesRows
  <2>1. CASE Kept(a, u)
    BY <2>1, <1>1 DEF JournalMatchesRows, Kept
  <2>2. CASE Enrolled(a, u)
    BY <2>2 DEF Enrolled, Stages
  <2>3. CASE Withdrawn(a, u)
    BY <2>3, <1>1, MovedRow DEF Withdrawn, Unfinished
  <2>4. CASE Rescheduled(a, u)
    BY <2>4, <1>1, MovedRow DEF Rescheduled, JournalMatchesRows
  <2>5. CASE Watched(a, u)
    BY <2>5, <1>1, MovedRow DEF Watched, JournalMatchesRows, IsOpen, Unfinished
  <2> QED
    BY <2>1, <2>2, <2>3, <2>4, <2>5, <1>1 DEF RowMoves
<1>8. OnlyNewcomersOutlive'
  <2> SUFFICES ASSUME NEW a \in Assignments, NEW u \in Users,
                      assignment'[a] \in Reasons, IsOpen(a, u)'
               PROVE  participant'[a][u].source = "group"
    BY DEF OnlyNewcomersOutlive, Cancelled
  <2>0. participant'[a][u].source \in {"personal", "group"}
    <3>1. participant'[a][u].status \in Unfinished
      BY DEF IsOpen
    <3>2. participant'[a][u] \in Participant \cup {NoParticipant}
      BY <1>1 DEF TypeOK
    <3> QED
      BY <3>1, <3>2 DEF Participant
  <2>1. CASE assignment'[a] = assignment[a]
    <3>1. CASE Enrolled(a, u)
      BY <3>1, <2>1, <1>1 DEF EnrolledDuly
    <3>2. CASE ~ Enrolled(a, u)
      <4>1. IsOpen(a, u) /\ participant'[a][u].source = participant[a][u].source
        BY <3>2, <1>1, MovedRow DEF IsOpen
      <4> QED
        BY <4>1, <2>1, <1>1 DEF OnlyNewcomersOutlive, Cancelled
    <3> QED
      BY <3>1, <3>2
  <2>2. CASE assignment'[a] # assignment[a]
    <3>1. ~ PersonalOpen(a, u)'
      BY <2>2, <1>1 DEF AssignmentMoves
    <3> QED
      BY <3>1, <2>0 DEF PersonalOpen
  <2> QED
    BY <2>1, <2>2
<1> QED
  BY <1>1, <1>3, <1>5, <1>6, <1>7, <1>8 DEF IInv, RequestsFit

-----------------------------------------------------------------------------
(* Each step has that effect *)

\* The request of a client is one of the seven kinds.
LEMMA RequestIs ==
  ASSUME IInv, NEW c \in Clients, request[c].op # "idle"
  PROVE  request[c] \in Request /\ RequestFits(request[c])
BY Statuses DEF IInv, TypeOK, RequestsFit

\* A row that was open, or that stays, is not enrolled.
LEMMA NotEnrolled ==
  ASSUME NEW a \in Assignments, NEW u \in Users,
         Kept(a, u) \/ Withdrawn(a, u) \/ Rescheduled(a, u) \/ Watched(a, u)
  PROVE  ~ Enrolled(a, u)
<1>1. Kept(a, u) => ~ Enrolled(a, u)
  BY Statuses DEF Kept, Enrolled
<1>2. IsOpen(a, u) => ~ Enrolled(a, u)
  BY DEF IsOpen, Enrolled, Unfinished
<1>3. Withdrawn(a, u) \/ Rescheduled(a, u) \/ Watched(a, u) => IsOpen(a, u)
  BY DEF Withdrawn, Rescheduled, Watched
<1> QED
  BY <1>1, <1>2, <1>3

LEMMA EndedEnds ==
  ASSUME TypeOK, NEW c \in Clients, Ended(c)
  PROVE  /\ RequestsEnd /\ request' \in [Clients -> Request \cup {Idle}]
         /\ request'[c] = Idle
BY DEF TypeOK, Ended, RequestsEnd

LEMMA CreateEffect ==
  ASSUME IInv, NEW c \in Clients, CommitCreate(c)
  PROVE  Effect
<1> USE Statuses
<1> DEFINE req == request[c]
           R == req.on \X req.users
<1>0. TypeOK
  BY DEF IInv
<1>1. req \in Request /\ RequestFits(req)
  BY RequestIs DEF CommitCreate
<1>2. /\ req.op = "create" /\ request[c].on = req.on
      /\ req.on \subseteq Assignments /\ req.on \cap Known = {}
      /\ R \in SUBSET Pairs /\ \A p \in R : req.source[p[2]] # "none" /\ req.terms[p[1]] \in Terms
      /\ \A a \in req.on : req.terms[a] \in Terms
      /\ req.terms \in [Assignments -> Terms \cup {"none"}] /\ req.stage \in [Users -> Stages]
      /\ req.source \in [Users -> {"none", "personal", "group"}]
  BY <1>1 DEF CommitCreate, Request, RequestFits, Pairs
<1>3. /\ assignment' = [a \in Assignments |-> IF a \in req.on THEN "active" ELSE assignment[a]]
      /\ term' = [a \in Assignments |-> IF a \in req.on THEN req.terms[a] ELSE term[a]]
      /\ forGroup' \subseteq Assignments
      /\ Enrol(R, req.source, req.terms, req.stage) /\ Ended(c)
      /\ UNCHANGED <<members, inactive, present, seen, past>>
  BY <1>0, <1>2 DEF CommitCreate, TypeOK
<1> HIDE DEF R, req
<1>4. /\ RowTypes'
      /\ \A a \in Assignments, u \in Users :
           Kept(a, u) \/ (<<a, u>> \in R /\ Enrolled(a, u))
  BY <1>0, <1>2, <1>3, EnrolShape
<1>5. TypeOK'
  BY <1>0, <1>2, <1>3, <1>4, EndedEnds DEF TypeOK, RowTypes
<1>6. \A a \in Assignments : AssignmentMoves(a)
  BY <1>0, <1>2, <1>3, EndedEnds DEF AssignmentMoves, Known, req
<1>7. ASSUME NEW a \in Assignments, NEW u \in Users
      PROVE  RowMoves(a, u) /\ (Enrolled(a, u) => EnrolledDuly(a, u))
  <2>1. <<a, u>> \in R => assignment[a] = "none" /\ assignment'[a] = "active"
    BY <1>2, <1>3 DEF R, Known
  <2>2. Kept(a, u) => ~ Enrolled(a, u)
    BY NotEnrolled
  <2> QED
    BY <1>4, <2>1, <2>2 DEF RowMoves, EnrolledDuly
<1> QED
  BY <1>0, <1>3, <1>5, <1>6, <1>7, EndedEnds DEF Effect, RowsEffect

LEMMA AddEffect ==
  ASSUME IInv, NEW c \in Clients, CommitAddMembers(c)
  PROVE  Effect
<1> USE Statuses
<1> DEFINE req == request[c]
           R == req.on \X req.users
<1>0. TypeOK
  BY DEF IInv
<1>1. req \in Request /\ RequestFits(req)
  BY RequestIs DEF CommitAddMembers
<1>2. /\ req.on \subseteq Known /\ req.users \subseteq Users
      /\ \A u \in req.users : req.source[u] = "group"
      /\ R \in SUBSET Pairs /\ \A p \in R : req.source[p[2]] # "none" /\ req.terms[p[1]] \in Terms
      /\ req.terms \in [Assignments -> Terms \cup {"none"}] /\ req.stage \in [Users -> Stages]
      /\ req.source \in [Users -> {"none", "personal", "group"}]
  BY <1>1 DEF CommitAddMembers, Request, RequestFits, Pairs
<1>3. /\ UNCHANGED <<assignment, term, forGroup, inactive, present, seen, past>>
      /\ members' = members \cup req.users /\ req.users \cap members = {}
      /\ Enrol(R, req.source, req.terms, req.stage) /\ Ended(c)
  BY DEF CommitAddMembers
<1> HIDE DEF R, req
<1>4. /\ RowTypes'
      /\ \A a \in Assignments, u \in Users :
           \/ Kept(a, u)
           \/ /\ <<a, u>> \in R
              /\ participant'[a][u] = [status |-> req.stage[u], source |-> req.source[u], due |-> req.terms[a]]
              /\ Enrolled(a, u)
  BY <1>0, <1>2, <1>3, EnrolShape
<1>5. TypeOK'
  BY <1>0, <1>2, <1>3, <1>4, EndedEnds DEF TypeOK, RowTypes
<1>6. \A a \in Assignments : AssignmentMoves(a)
  BY <1>3 DEF AssignmentMoves
<1>7. ASSUME NEW a \in Assignments, NEW u \in Users
      PROVE  RowMoves(a, u) /\ (Enrolled(a, u) => EnrolledDuly(a, u))
  <2>1. <<a, u>> \in R => a \in Known /\ u \in req.users /\ req.source[u] = "group"
    BY <1>2 DEF R
  <2>2. Kept(a, u) => ~ Enrolled(a, u)
    BY NotEnrolled
  <2>3. CASE Kept(a, u)
    BY <2>2, <2>3 DEF RowMoves
  <2>4. CASE ~ Kept(a, u)
    <3>1. /\ <<a, u>> \in R /\ Enrolled(a, u)
          /\ participant'[a][u] = [status |-> req.stage[u], source |-> req.source[u], due |-> req.terms[a]]
      BY <1>4, <2>4
    <3>2. participant'[a][u].source = "group" /\ a \in Known /\ u \in members' \ members
      BY <3>1, <2>1, <1>3
    <3> QED
      BY <3>1, <3>2, <1>3 DEF RowMoves, EnrolledDuly
  <2> QED
    BY <2>3, <2>4
<1> QED
  BY <1>0, <1>3, <1>5, <1>6, <1>7, EndedEnds DEF Effect, RowsEffect

\* UPDATE of the terms: the rows it found that are still open.
LEMMA DueEffect ==
  ASSUME IInv, NEW c \in Clients, CommitUpdateDue(c)
  PROVE  Effect
<1> USE Statuses
<1> DEFINE req == request[c]
<1>0. TypeOK
  BY DEF IInv
<1>1. req \in Request /\ RequestFits(req) /\ req.op = "due"
  BY RequestIs DEF CommitUpdateDue
<1>2. /\ \A a \in req.on : req.terms[a] \in Terms
      /\ \A a \in Assignments, u \in Users : <<a, u>> \in req.found => a \in req.on
      /\ req.terms \in [Assignments -> Terms \cup {"none"}]
  BY <1>1 DEF Request, RequestFits
<1>3. /\ UNCHANGED <<assignment, forGroup, journal, members, inactive, present, seen, past>>
      /\ term' = [a \in Assignments |-> IF a \in req.on THEN req.terms[a] ELSE term[a]]
      /\ participant' = [a \in Assignments |-> [u \in Users |->
           IF <<a, u>> \in req.found /\ IsOpen(a, u)
           THEN [participant[a][u] EXCEPT !.due = req.terms[a]] ELSE participant[a][u]]]
      /\ Ended(c)
  BY DEF CommitUpdateDue
<1> HIDE DEF req
<1>4. ASSUME NEW a \in Assignments, NEW u \in Users
      PROVE  /\ Kept(a, u) \/ Rescheduled(a, u)
             /\ participant'[a][u] \in Participant \cup {NoParticipant}
  <2>1. CASE <<a, u>> \in req.found /\ IsOpen(a, u)
    <3>1. participant'[a][u] = [participant[a][u] EXCEPT !.due = req.terms[a]] /\ req.terms[a] \in Terms
      BY <1>2, <1>3, <2>1
    <3>2. participant[a][u] \in Participant
      BY <1>0, <2>1, OpenIsParticipant
    <3>3. participant'[a][u] \in Participant
      BY <3>1, <3>2 DEF Participant
    <3> QED
      BY <3>1, <3>3, <1>3, <2>1 DEF Rescheduled
  <2>2. CASE ~ (<<a, u>> \in req.found /\ IsOpen(a, u))
    <3>1. participant'[a][u] = participant[a][u]
      BY <1>3, <2>2
    <3> QED
      BY <3>1, <1>0, <1>3 DEF Kept, TypeOK
  <2> QED
    BY <2>1, <2>2
<1>5. participant' \in [Assignments -> [Users -> Participant \cup {NoParticipant}]]
  BY <1>3, <1>4
<1>6. TypeOK'
  BY <1>0, <1>2, <1>3, <1>5, EndedEnds DEF TypeOK
<1>7. \A a \in Assignments, u \in Users : ~ Enrolled(a, u)
  <2> SUFFICES ASSUME NEW a \in Assignments, NEW u \in Users, Enrolled(a, u) PROVE FALSE
    OBVIOUS
  <2> QED
    BY <1>4, NotEnrolled
<1> QED
  BY <1>0, <1>3, <1>4, <1>6, <1>7, EndedEnds DEF Effect, RowsEffect, RowMoves, AssignmentMoves

\* Withdrawals change no assignment.
LEMMA WithdrawEffect ==
  ASSUME IInv, NEW R \in SUBSET Pairs, Withdraw(R), RequestsEnd,
         request' \in [Clients -> Request \cup {Idle}],
         UNCHANGED <<assignment, term, forGroup, inactive, present, seen, past>>,
         members' \subseteq members
  PROVE  Effect
<1> USE Statuses
<1>0. TypeOK
  BY DEF IInv
<1>1. /\ RowTypes'
      /\ \A a \in Assignments, u \in Users : Kept(a, u) \/ Withdrawn(a, u)
  BY <1>0, WithdrawShape
<1>2. TypeOK'
  BY <1>0, <1>1 DEF TypeOK, RowTypes
<1>3. ASSUME NEW a \in Assignments, NEW u \in Users PROVE ~ Enrolled(a, u)
  BY <1>1, NotEnrolled
<1> QED
  BY <1>1, <1>2, <1>3 DEF Effect, RowsEffect, RowMoves, AssignmentMoves

\* A cancellation misses no open row of a personal participant.
LEMMA CloseEffect ==
  ASSUME IInv, NEW c \in Clients, Closes(request[c].op),
         NEW reason \in Reasons,
         Cancel(request[c].on, reason), WithdrawFrom(request[c].on, request[c].found), Ended(c),
         UNCHANGED <<term, forGroup, inactive, seen, past>>,
         members' \subseteq members, present' \subseteq present
  PROVE  Effect
<1> USE Statuses
<1> DEFINE req == request[c]
           R == {p \in req.found : p[1] \in req.on \cap Active}
<1>0. TypeOK
  BY DEF IInv
<1>1. req \in Request /\ RequestFits(req)
  BY RequestIs DEF Closes
<1>2. /\ R \in SUBSET Pairs
      /\ \A a \in req.on, u \in Users : PersonalOpen(a, u) => <<a, u>> \in req.found
  BY <1>1 DEF Request, RequestFits, Pairs
<1>3. /\ assignment' = [a \in Assignments |-> IF a \in req.on \cap Active THEN reason ELSE assignment[a]]
      /\ Withdraw(R)
  BY DEF Cancel, WithdrawFrom
<1>4. \A a \in req.on \cap Active, u \in Users : PersonalOpen(a, u) => <<a, u>> \in R
  BY <1>2
<1> HIDE DEF R, req
<1>5. /\ RowTypes'
      /\ \A a \in Assignments, u \in Users :
           \/ Kept(a, u) /\ (<<a, u>> \in R => ~ IsOpen(a, u))
           \/ Withdrawn(a, u)
  BY <1>0, <1>2, <1>3, WithdrawShape
<1>6. TypeOK'
  BY <1>0, <1>3, <1>5, EndedEnds DEF TypeOK, RowTypes
<1>7. ASSUME NEW a \in Assignments, NEW u \in Users
      PROVE  RowMoves(a, u) /\ ~ Enrolled(a, u)
  BY <1>5, NotEnrolled DEF RowMoves
<1>8. ASSUME NEW a \in Assignments, a \in req.on \cap Active, NEW u \in Users, PersonalOpen(a, u)'
      PROVE  FALSE
  <2>1. IsOpen(a, u) /\ participant'[a][u].source = participant[a][u].source /\ ~ Withdrawn(a, u)
    BY <1>0, <1>7, <1>8, MovedRow DEF PersonalOpen, IsOpen, Unfinished
  <2>2. PersonalOpen(a, u)
    BY <2>1, <1>8 DEF PersonalOpen
  <2> QED
    BY <2>1, <2>2, <1>4, <1>5, <1>8
<1>9. ASSUME NEW a \in Assignments PROVE AssignmentMoves(a)
  BY <1>3, <1>8 DEF AssignmentMoves, Active
<1> QED
  BY <1>0, <1>6, <1>7, <1>9, EndedEnds DEF Effect, RowsEffect

LEMMA WatchEffect ==
  ASSUME IInv, NEW u \in Users, NEW level \in {"some", "reached"}, Watch(u, level)
  PROVE  Effect
<1> USE Statuses
<1>0. TypeOK
  BY DEF IInv
<1> DEFINE s == IF level = "reached" THEN "completed" ELSE "in_progress"
<1>1. /\ UNCHANGED <<assignment, term, forGroup, journal, members, inactive, present, past, request>>
      /\ seen' = [seen EXCEPT ![u] = level]
      /\ participant' = [a \in Assignments |->
           IF a \in Active /\ IsOpen(a, u) THEN [participant[a] EXCEPT ![u].status = s]
           ELSE participant[a]]
  BY DEF Watch
<1>2. s \in {"in_progress", "completed"}
  OBVIOUS
<1> HIDE DEF s
<1>3. ASSUME NEW a \in Assignments, NEW v \in Users
      PROVE  /\ Kept(a, v) \/ Watched(a, v)
             /\ participant'[a][v] \in Participant \cup {NoParticipant}
  <2>0. participant[a] \in [Users -> Participant \cup {NoParticipant}]
    BY <1>0 DEF TypeOK
  <2>1. CASE a \in Active /\ IsOpen(a, u) /\ v = u
    <3>1. participant'[a][v] = [participant[a][v] EXCEPT !.status = s]
      BY <1>1, <2>0, <2>1
    <3>2. participant[a][v] \in Participant
      BY <1>0, <2>1, OpenIsParticipant
    <3>3. participant'[a][v] \in Participant
      BY <3>1, <3>2, <1>2 DEF Participant, Stages, Unfinished
    <3> QED
      BY <3>1, <3>3, <1>1, <1>2, <2>1 DEF Watched, Active
  <2>2. CASE ~ (a \in Active /\ IsOpen(a, u) /\ v = u)
    <3>1. participant'[a][v] = participant[a][v]
      BY <1>1, <2>0, <2>2
    <3> QED
      BY <3>1, <2>0, <1>1 DEF Kept
  <2> QED
    BY <2>1, <2>2
<1>4. participant' \in [Assignments -> [Users -> Participant \cup {NoParticipant}]]
  <2>1. ASSUME NEW a \in Assignments PROVE participant'[a] \in [Users -> Participant \cup {NoParticipant}]
    <3>1. participant[a] \in [Users -> Participant \cup {NoParticipant}]
      BY <1>0 DEF TypeOK
    <3>2. \A v \in Users : participant'[a][v] \in Participant \cup {NoParticipant}
      BY <1>3
    <3>3. participant'[a] = participant[a] \/ participant'[a] = [participant[a] EXCEPT ![u].status = s]
      BY <1>1
    <3> QED
      BY <3>1, <3>2, <3>3
  <2> QED
    BY <1>1, <2>1
<1>5. TypeOK'
  BY <1>0, <1>1, <1>4 DEF TypeOK
<1>6. ASSUME NEW a \in Assignments, NEW v \in Users PROVE ~ Enrolled(a, v)
  BY <1>3, NotEnrolled
<1> QED
  BY <1>1, <1>3, <1>5, <1>6 DEF Effect, RowsEffect, RowMoves, AssignmentMoves, RequestsEnd

\* A step that leaves the rows alone.
LEMMA QuietEffect ==
  ASSUME TypeOK', RequestsEnd, UNCHANGED <<assignment, participant, journal>>
  PROVE  Effect
<1>1. \A a \in Assignments, u \in Users : Kept(a, u)
  BY DEF Kept
<1> QED
  BY <1>1, NotEnrolled DEF Effect, RowsEffect, RowMoves, AssignmentMoves

LEMMA ManagerSteps ==
  ASSUME IInv, NEW c \in Clients, ManagerStep(c)
  PROVE  IInv' /\ (Effect \/ UNCHANGED <<assignment, participant, journal>>)
<1>0. TypeOK
  BY DEF IInv
<1> DEFINE Begins == UNCHANGED <<assignment, participant, journal>> /\ IInv'
<1>1. ASSUME NEW a \in Assignments,
             \/ \E personal \in SUBSET Users, toGroup \in BOOLEAN, t \in Terms :
                  BeginCreate(c, a, personal, toGroup, t)
             \/ \E t \in Terms : BeginUpdateDue(c, a, t)
             \/ BeginCancel(c, a)
             \/ \E u \in Users : BeginRemoveParticipant(c, a, u)
      PROVE  Begins
  <2>1. IInv'
    BY <1>1, BeginSteps
  <2>2. UNCHANGED rows
    BY <1>1 DEF BeginCreate, BeginUpdateDue, BeginCancel, BeginRemoveParticipant, Begin
  <2> QED
    BY <2>1, <2>2 DEF rows
<1>2. ASSUME \/ \E U \in SUBSET Users : BeginAddMembers(c, U)
             \/ BeginDeleteVideo(c) \/ BeginDeleteGroup(c)
      PROVE  Begins
  <2>1. IInv'
    BY <1>2, BeginSteps
  <2>2. UNCHANGED rows
    BY <1>2 DEF BeginAddMembers, BeginDeleteVideo, BeginDeleteGroup, BeginDelete, Begin
  <2> QED
    BY <2>1, <2>2 DEF rows
<1>3. ASSUME NEW u \in Users, RemoveMember(c, u) PROVE Effect
  <2>1. ViaGroup(u) \in SUBSET Pairs
    BY DEF ViaGroup, OpenRows, Active, Pairs
  <2>2. RequestsEnd /\ request' \in [Clients -> Request \cup {Idle}]
    BY <1>3, <1>0 DEF RemoveMember, RequestsEnd, TypeOK
  <2> QED
    BY <2>1, <2>2, <1>3, WithdrawEffect DEF RemoveMember
<1>4. ASSUME NEW u \in Users, Deactivate(c, u) \/ Reactivate(c, u) PROVE Effect
  <2>1. UNCHANGED <<rows, present, seen, past, request>> /\ members' \subseteq members
        /\ inactive' \subseteq inactive \cup {u}
    BY <1>4 DEF Deactivate, Reactivate
  <2>2. TypeOK'
    BY <2>1, <1>0 DEF TypeOK, rows
  <2> QED
    BY <2>1, <2>2, QuietEffect DEF rows, RequestsEnd
<1>5. ASSUME Abort(c) PROVE Effect
  <2>1. UNCHANGED <<rows, members, inactive, present, seen, past>> /\ Ended(c)
    BY <1>5 DEF Abort
  <2>2. TypeOK'
    BY <2>1, <1>0, EndedEnds DEF TypeOK, rows
  <2> QED
    BY <2>1, <2>2, <1>0, EndedEnds, QuietEffect DEF rows
<1>6. ASSUME CommitCancel(c) PROVE Effect
  <2>1. Closes(request[c].op) /\ "manual" \in Reasons
    BY <1>6 DEF CommitCancel, Closes, Reasons
  <2> QED
    BY <2>1, <1>6, CloseEffect DEF CommitCancel
<1>7. ASSUME CommitDeleteVideo(c) PROVE Effect
  <2>1. Closes(request[c].op) /\ request[c].op \in Reasons
    BY <1>7 DEF CommitDeleteVideo, Closes, Reasons
  <2> QED
    BY <2>1, <1>7, CloseEffect DEF CommitDeleteVideo, CommitDelete
<1>8. ASSUME CommitDeleteGroup(c) PROVE Effect
  <2>1. Closes(request[c].op) /\ request[c].op \in Reasons
    BY <1>8 DEF CommitDeleteGroup, Closes, Reasons
  <2> QED
    BY <2>1, <1>8, CloseEffect DEF CommitDeleteGroup, CommitDelete
<1>9. ASSUME CommitRemoveParticipant(c) PROVE Effect
  <2>1. request[c].found \in SUBSET Pairs
    BY <1>9, RequestIs, Statuses DEF CommitRemoveParticipant, Request, Pairs
  <2>2. Ended(c) /\ Withdraw(request[c].found) /\ UNCHANGED <<assignment, term, forGroup, members, inactive, present, seen, past>>
    BY <1>9 DEF CommitRemoveParticipant
  <2> QED
    BY <2>1, <2>2, <1>0, EndedEnds, WithdrawEffect
<1>10. ASSUME CommitCreate(c) \/ CommitUpdateDue(c) \/ CommitAddMembers(c) PROVE Effect
  BY <1>10, CreateEffect, DueEffect, AddEffect
<1> HIDE DEF Begins
<1>11. Begins \/ Effect
  BY <1>1, <1>2, <1>3, <1>4, <1>5, <1>6, <1>7, <1>8, <1>9, <1>10 DEF ManagerStep
<1> QED
  BY <1>11, EffectKeeps DEF Begins

LEMMA Steps ==
  IInv /\ [Next]_vars => IInv' /\ (Effect \/ UNCHANGED <<assignment, participant, journal>>)
<1> SUFFICES ASSUME IInv, [Next]_vars
             PROVE  IInv' /\ (Effect \/ UNCHANGED <<assignment, participant, journal>>)
  OBVIOUS
<1>1. ASSUME NEW u \in Users, NEW level \in {"some", "reached"}, Watch(u, level) PROVE Effect
  BY <1>1, WatchEffect
<1>2. ASSUME NEW d \in Dates, TermPasses(d) PROVE Effect
  <2>1. UNCHANGED <<rows, members, inactive, present, seen, request>> /\ past' = past \cup {d}
    BY <1>2 DEF TermPasses
  <2>2. TypeOK'
    BY <2>1 DEF IInv, TypeOK, rows
  <2> QED
    BY <2>1, <2>2, QuietEffect DEF rows, RequestsEnd
<1>3. ASSUME UNCHANGED vars PROVE Effect
  <2>1. TypeOK'
    BY <1>3 DEF vars, rows, IInv, TypeOK
  <2> QED
    BY <2>1, <1>3, QuietEffect DEF vars, rows, RequestsEnd
<1> QED
  BY <1>1, <1>2, <1>3, ManagerSteps, EffectKeeps DEF Next

LEMMA InitInvariant == Init => IInv
<1> SUFFICES ASSUME Init PROVE IInv
  OBVIOUS
<1> USE Statuses
<1>1. TypeOK
  BY DEF Init, TypeOK
<1>2. NoRowsBefore /\ JournalMatchesRows /\ OnlyNewcomersOutlive
  BY DEF Init, NoRowsBefore, JournalMatchesRows, OnlyNewcomersOutlive, Cancelled, Unfinished
<1>3. RequestsFit /\ CreatorsApart
  BY DEF Init, RequestsFit, CreatorsApart, RequestFits, Idle, Closes
<1> QED
  BY <1>1, <1>2, <1>3 DEF IInv

LEMMA Invariance == Spec => []IInv
<1>1. IInv /\ [Next]_vars => IInv'
  BY Steps
<1> QED
  BY InitInvariant, <1>1, PTL DEF Spec

-----------------------------------------------------------------------------
(* The theorems *)

\* Every variable of the assignments keeps its type.
THEOREM AssignmentsTypeCorrect == Spec => []TypeOK
<1>1. IInv => TypeOK
  BY DEF IInv
<1> QED
  BY Invariance, <1>1, PTL

\* The last event of each pair tells the status of its row, for any number of
\* requests in flight.
THEOREM JournalIsTrue == Spec => []JournalMatchesRows
<1>1. IInv => JournalMatchesRows
  BY DEF IInv
<1> QED
  BY Invariance, <1>1, PTL

\* A cancellation can miss newcomers of the group, and nobody else.
THEOREM NewcomersAlone == Spec => []OnlyNewcomersOutlive
<1>1. IInv => OnlyNewcomersOutlive
  BY DEF IInv
<1> QED
  BY Invariance, <1>1, PTL

\* No request and no cascade changes a completed row or the reason of a
\* cancellation.
THEOREM SettledStays == Spec => SettledIsFinal
<1>1. IInv /\ [Next]_vars =>
        [\A a \in Assignments :
           /\ Cancelled(a) => assignment'[a] = assignment[a]
           /\ \A u \in Users : participant[a][u].status = "completed" =>
                participant'[a][u] = participant[a][u] /\ journal'[a][u] = journal[a][u]]_vars
  <2> SUFFICES ASSUME IInv, [Next]_vars, NEW a \in Assignments
               PROVE  /\ Cancelled(a) => assignment'[a] = assignment[a]
                      /\ \A u \in Users : participant[a][u].status = "completed" =>
                           participant'[a][u] = participant[a][u] /\ journal'[a][u] = journal[a][u]
    OBVIOUS
  <2>1. CASE UNCHANGED <<assignment, participant, journal>>
    BY <2>1
  <2>2. CASE Effect
    <3>1. Cancelled(a) => assignment'[a] = assignment[a]
      BY <2>2, Statuses DEF Effect, RowsEffect, AssignmentMoves, Cancelled
    <3>2. ASSUME NEW u \in Users, participant[a][u].status = "completed" PROVE Kept(a, u)
      <4>1. ~ IsOpen(a, u) /\ ~ Enrolled(a, u)
        BY <3>2, Statuses DEF IsOpen, Enrolled
      <4> QED
        BY <4>1, <2>2 DEF Effect, RowsEffect, RowMoves, Withdrawn, Rescheduled, Watched
    <3> QED
      BY <3>1, <3>2 DEF Kept
  <2> QED
    BY <2>1, <2>2, Steps
<1> QED
  BY Invariance, <1>1, PTL DEF Spec, SettledIsFinal

\* Whoever comes back after a cancellation has joined the group, and is its
\* participant from then on.
THEOREM BackByJoining == Spec => ReopenedByJoining
<1>1. IInv /\ [Next]_vars =>
        [\A a \in Assignments, u \in Users :
           (participant[a][u].status = "cancelled" /\ participant'[a][u].status \in Stages)
           => u \in members' \ members /\ participant'[a][u].source = "group"]_vars
  <2> SUFFICES ASSUME IInv, [Next]_vars, NEW a \in Assignments, NEW u \in Users,
                      participant[a][u].status = "cancelled", participant'[a][u].status \in Stages
               PROVE  u \in members' \ members /\ participant'[a][u].source = "group"
    OBVIOUS
  <2>1. participant'[a][u] # participant[a][u] /\ ~ IsOpen(a, u)
    BY Statuses DEF IsOpen, Stages, Unfinished
  <2>2. Effect
    BY <2>1, Steps
  <2>3. Enrolled(a, u) /\ EnrolledDuly(a, u)
    BY <2>1, <2>2 DEF Effect, RowsEffect, RowMoves, Kept, Withdrawn, Rescheduled, Watched
  <2>4. assignment[a] # "none"
    BY DEF IInv, NoRowsBefore, Known, NoParticipant
  <2> QED
    BY <2>3, <2>4 DEF EnrolledDuly
<1> QED
  BY Invariance, <1>1, PTL DEF Spec, ReopenedByJoining

\* The members go with the group.
MembersHaveGroup == "group" \in present \/ members = {}

LEMMA MembersStep == MembersHaveGroup /\ [Next]_vars => MembersHaveGroup'
<1> SUFFICES ASSUME MembersHaveGroup, [Next]_vars PROVE MembersHaveGroup'
  OBVIOUS
<1> USE DEF MembersHaveGroup
<1>1. ASSUME NEW c \in Clients, ManagerStep(c) PROVE MembersHaveGroup'
  <2>2. ASSUME NEW req, Begin(c, req) PROVE MembersHaveGroup'
    BY <2>2 DEF Begin
  <2>3. ASSUME CommitAddMembers(c) PROVE MembersHaveGroup'
    BY <2>3 DEF CommitAddMembers
  <2>4. ASSUME CommitDeleteVideo(c) PROVE MembersHaveGroup'
    BY <2>4 DEF CommitDeleteVideo, CommitDelete
  <2>5. ASSUME CommitDeleteGroup(c) PROVE MembersHaveGroup'
    BY <2>5 DEF CommitDeleteGroup
  <2>6. ASSUME Abort(c) \/ CommitCreate(c) \/ CommitUpdateDue(c) \/ CommitCancel(c) \/ CommitRemoveParticipant(c)
        PROVE  MembersHaveGroup'
    BY <2>6 DEF Abort, CommitCreate, CommitUpdateDue, CommitCancel, CommitRemoveParticipant
  <2>7. ASSUME NEW u \in Users, RemoveMember(c, u) \/ Deactivate(c, u) \/ Reactivate(c, u)
        PROVE  MembersHaveGroup'
    BY <2>7 DEF RemoveMember, Deactivate, Reactivate
  <2> QED
    BY <1>1, <2>2, <2>3, <2>4, <2>5, <2>6, <2>7
    DEF ManagerStep, BeginCreate, BeginUpdateDue, BeginCancel, BeginRemoveParticipant,
        BeginAddMembers, BeginDeleteVideo, BeginDeleteGroup, BeginDelete
<1>2. ASSUME NEW u \in Users, NEW level \in {"some", "reached"}, Watch(u, level) PROVE MembersHaveGroup'
  BY <1>2 DEF Watch
<1>3. ASSUME NEW d \in Dates, TermPasses(d) PROVE MembersHaveGroup'
  BY <1>3 DEF TermPasses
<1>4. CASE UNCHANGED vars
  BY <1>4 DEF vars
<1> QED
  BY <1>1, <1>2, <1>3, <1>4 DEF Next

\* Short of a deactivation or the end of the group, members leave by RemoveMember.
LEMMA WhoLeaves ==
  ASSUME MembersHaveGroup, [Next]_vars, present' = present, inactive' = inactive,
         NEW u \in members, u \notin members'
  PROVE  \E c \in Clients : RemoveMember(c, u)
<1>1. PICK c \in Clients : ManagerStep(c)
  BY DEF Next, Watch, TermPasses, vars
<1>2. ASSUME NEW req PROVE ~ Begin(c, req)
  BY DEF Begin
<1>3. ~ CommitAddMembers(c) /\ ~ CommitDeleteVideo(c)
  BY DEF CommitAddMembers, CommitDeleteVideo
<1>4. ~ CommitDeleteGroup(c)
  BY DEF CommitDeleteGroup, CommitDelete, MembersHaveGroup
<1>5. ~ (Abort(c) \/ CommitCreate(c) \/ CommitUpdateDue(c) \/ CommitCancel(c) \/ CommitRemoveParticipant(c))
  BY DEF Abort, CommitCreate, CommitUpdateDue, CommitCancel, CommitRemoveParticipant
<1>6. \A v \in Users : ~ Deactivate(c, v) /\ ~ Reactivate(c, v)
  BY DEF Deactivate, Reactivate
<1>7. PICK v \in Users : RemoveMember(c, v)
  BY <1>1, <1>2, <1>3, <1>4, <1>5, <1>6
  DEF ManagerStep, BeginCreate, BeginUpdateDue, BeginCancel, BeginRemoveParticipant,
      BeginAddMembers, BeginDeleteVideo, BeginDeleteGroup, BeginDelete
<1>8. v = u
  BY <1>7 DEF RemoveMember
<1> QED
  BY <1>7, <1>8

\* Leaving the group closes the rows got through it in every active assignment
\* and touches no personal one.
THEOREM LeavingIsExact == Spec => LeavingSparesPersonal
<1>1. Init => MembersHaveGroup
  BY DEF Init, MembersHaveGroup
<1>2. IInv /\ MembersHaveGroup /\ [Next]_vars =>
        [\A u \in members \ members', a \in Active :
           present' = present /\ inactive' = inactive =>
             LET row == participant[a][u] IN
             /\ row.source = "personal" => participant'[a][u] = row
             /\ row.source = "group" => participant'[a][u].status \notin Unfinished]_vars
  <2> SUFFICES ASSUME IInv, MembersHaveGroup, [Next]_vars, NEW u \in members \ members', NEW a \in Active,
                      present' = present, inactive' = inactive
               PROVE  /\ participant[a][u].source = "personal" => participant'[a][u] = participant[a][u]
                      /\ participant[a][u].source = "group" => participant'[a][u].status \notin Unfinished
    OBVIOUS
  <2>1. PICK c \in Clients : RemoveMember(c, u)
    BY WhoLeaves
  <2>2. Withdraw(ViaGroup(u)) /\ TypeOK /\ u \in Users /\ a \in Assignments
    BY <2>1 DEF RemoveMember, IInv, TypeOK, Active
  <2>3. ViaGroup(u) \in SUBSET Pairs
    BY DEF ViaGroup, OpenRows, Active, Pairs
  <2>4. \/ Kept(a, u) /\ (<<a, u>> \in ViaGroup(u) => ~ IsOpen(a, u))
        \/ <<a, u>> \in ViaGroup(u) /\ Withdrawn(a, u)
    BY <2>2, <2>3, WithdrawShape
  <2>5. <<a, u>> \in ViaGroup(u) => participant[a][u].source = "group"
    BY DEF ViaGroup
  <2>6. IsOpen(a, u) /\ participant[a][u].source = "group" => <<a, u>> \in ViaGroup(u)
    BY <2>2 DEF ViaGroup, OpenRows
  <2>7. CASE Kept(a, u) /\ (<<a, u>> \in ViaGroup(u) => ~ IsOpen(a, u))
    BY <2>6, <2>7 DEF Kept, IsOpen
  <2>8. CASE <<a, u>> \in ViaGroup(u) /\ Withdrawn(a, u)
    <3>1. participant'[a][u].status = "cancelled"
      BY <2>2, <2>8, MovedRow DEF RowMoves
    <3> QED
      BY <3>1, <2>5, <2>8 DEF Unfinished
  <2> QED
    BY <2>4, <2>7, <2>8
<1> QED
  BY <1>1, <1>2, Invariance, MembersStep, PTL DEF Spec, LeavingSparesPersonal

-----------------------------------------------------------------------------
(* The rows follow the promised lifecycle *)

StatusOf(a, u) == participant[a][u].status

LEMMA StatusTypes ==
  ASSUME TypeOK, NEW a \in Assignments, NEW u \in Users
  PROVE  StatusOf(a, u) \in Stages \cup {"none", "cancelled"}
BY DEF TypeOK, StatusOf, Participant, NoParticipant

\* Rows that move as a set of assignments allows.
LEMMA MapsRows ==
  ASSUME TypeOK', NEW S, NEW From, NEW To,
         \A a \in Assignments, u \in Users :
           \/ StatusOf(a, u)' = StatusOf(a, u)
           \/ a \in S /\ StatusOf(a, u) \in From /\ StatusOf(a, u)' \in To
  PROVE  Lifecycle!MoveRows(S, From, To)
<1>1. \A a \in Assignments, u \in Users : participant'[a][u].status \in Stages \cup {"none", "cancelled"}
  BY StatusTypes DEF StatusOf, TypeOK, Participant, NoParticipant
<1> QED
  BY <1>1 DEF Lifecycle!MoveRows, Lifecycle!Stages, Lifecycle!Unfinished, Stages, Unfinished, StatusOf

LEMMA MapsSame ==
  ASSUME \A a \in Assignments : assignment'[a] = assignment[a]
  PROVE  UNCHANGED [a \in Assignments |-> Promised(assignment[a])]
BY DEF Promised

LEMMA MapsActive == Lifecycle!Active = Active
BY DEF Lifecycle!Active, Active, Promised, Reasons

\* Withdrawals from rows that stay under their assignment.
LEMMA MapsWithdraw ==
  ASSUME IInv, NEW R \in SUBSET Pairs, Withdraw(R), TypeOK', assignment' = assignment
  PROVE  Lifecycle!Next
<1>1. \A a \in Assignments, u \in Users : Kept(a, u) \/ Withdrawn(a, u)
  BY WithdrawShape DEF IInv
<1>2. ASSUME NEW a \in Assignments, NEW u \in Users
      PROVE  \/ StatusOf(a, u)' = StatusOf(a, u)
             \/ a \in Assignments /\ StatusOf(a, u) \in Unfinished /\ StatusOf(a, u)' \in {"cancelled"}
  BY <1>1, MovedRow DEF Kept, Withdrawn, IsOpen, StatusOf, RowMoves, IInv
<1>3. Lifecycle!MoveRows(Assignments, Unfinished, {"cancelled"})
  BY <1>2, MapsRows
<1>4. Lifecycle!Withdraw
  BY <1>3, MapsSame DEF Lifecycle!Withdraw, Lifecycle!Unfinished, Unfinished
<1> QED
  BY <1>4 DEF Lifecycle!Next

LEMMA MapsClose ==
  ASSUME IInv, NEW c \in Clients, Closes(request[c].op), NEW reason \in Reasons,
         Cancel(request[c].on, reason), WithdrawFrom(request[c].on, request[c].found), TypeOK'
  PROVE  Lifecycle!Next
<1>0. PICK S : S = request[c].on \cap Active
  OBVIOUS
<1> DEFINE R == {p \in request[c].found : p[1] \in S}
<1>1. S \in SUBSET Assignments /\ S \subseteq Active
  BY <1>0 DEF Active
<1>2. R \in SUBSET Pairs
  BY RequestIs, Statuses DEF Closes, Request, Pairs
<1>3. /\ assignment' = [a \in Assignments |-> IF a \in S THEN reason ELSE assignment[a]]
      /\ Withdraw(R)
  BY <1>0 DEF Cancel, WithdrawFrom
<1>4. \A p \in R : p[1] \in S
  OBVIOUS
<1> HIDE DEF R
<1>5. \A a \in Assignments, u \in Users : Kept(a, u) \/ (<<a, u>> \in R /\ Withdrawn(a, u))
  BY <1>2, <1>3, WithdrawShape DEF IInv
<1>6. ASSUME NEW a \in Assignments, NEW u \in Users
      PROVE  \/ StatusOf(a, u)' = StatusOf(a, u)
             \/ a \in S /\ StatusOf(a, u) \in Unfinished /\ StatusOf(a, u)' \in {"cancelled"}
  BY <1>4, <1>5, MovedRow DEF Kept, Withdrawn, IsOpen, StatusOf, RowMoves, IInv
<1>7. Lifecycle!MoveRows(S, Unfinished, {"cancelled"})
  BY <1>6, MapsRows
<1>8. \A a \in Assignments : Promised(assignment'[a]) =
        IF a \in S THEN "cancelled" ELSE Promised(assignment[a])
  BY <1>3 DEF Promised
<1>9. Lifecycle!Close(S)
  BY <1>1, <1>7, <1>8, MapsActive DEF Lifecycle!Close, Lifecycle!Unfinished, Unfinished
<1> QED
  BY <1>1, <1>9 DEF Lifecycle!Next

LEMMA MapsCreate ==
  ASSUME IInv, NEW c \in Clients, CommitCreate(c)
  PROVE  Lifecycle!Next
<1>0. TypeOK /\ Effect
  BY CreateEffect DEF IInv
<1>1. RequestFits(request[c]) /\ request[c].op = "create"
  BY RequestIs, Statuses DEF CommitCreate
<1>2. PICK a \in Assignments : request[c].on = {a}
  BY <1>1 DEF RequestFits
<1>3. assignment[a] = "none" /\ assignment' = [assignment EXCEPT ![a] = "active"]
  BY <1>0, <1>1, <1>2 DEF RequestFits, Known, CommitCreate, TypeOK
<1>4. ASSUME NEW b \in Assignments, NEW u \in Users
      PROVE  \/ StatusOf(b, u)' = StatusOf(b, u)
             \/ b \in {a} /\ StatusOf(b, u) \in {"none"} /\ StatusOf(b, u)' \in Stages
  <2>1. RowMoves(b, u) /\ (Enrolled(b, u) => EnrolledDuly(b, u))
    BY <1>0 DEF Effect, RowsEffect
  <2>2. CASE Enrolled(b, u)
    <3>1. b = a
      BY <2>1, <2>2, <1>0, <1>3, Statuses DEF EnrolledDuly, CommitCreate, TypeOK
    <3>2. participant[a][u].status = "none"
      BY <1>3, Statuses DEF IInv, NoRowsBefore, Known
    <3> QED
      BY <2>2, <3>1, <3>2 DEF Enrolled, StatusOf
  <2>3. CASE ~ Enrolled(b, u)
    <3>1. RowTypes' /\ Enrol(request[c].on \X request[c].users, request[c].source, request[c].terms, request[c].stage)
      BY <1>0 DEF Effect, TypeOK, RowTypes, CommitCreate
    <3>2. \/ Kept(b, u) \/ Enrolled(b, u)
      <4>1. request[c] \in Request
        BY <1>1, RequestIs, Statuses
      <4>2. request[c].on \X request[c].users \in SUBSET Pairs
        BY <4>1 DEF Request, Pairs
      <4>3. \A p \in request[c].on \X request[c].users :
              request[c].source[p[2]] # "none" /\ request[c].terms[p[1]] \in Terms
        BY <1>1 DEF RequestFits
      <4>4. /\ request[c].terms \in [Assignments -> Terms \cup {"none"}]
            /\ request[c].stage \in [Users -> Stages]
            /\ request[c].source \in [Users -> {"none", "personal", "group"}]
        BY <4>1 DEF Request
      <4> QED
        BY <3>1, <4>2, <4>3, <4>4, <1>0, EnrolShape
    <3> QED
      BY <3>2, <2>3 DEF Kept, StatusOf
  <2> QED
    BY <2>2, <2>3
<1>5. Lifecycle!MoveRows({a}, {"none"}, Stages)
  BY <1>0, <1>4, MapsRows DEF Effect
<1>6. /\ Promised(assignment[a]) = "none"
      /\ \A b \in Assignments : Promised(assignment'[b]) = IF b = a THEN "active" ELSE Promised(assignment[b])
  BY <1>0, <1>3 DEF Promised, Reasons, TypeOK
<1>7. Lifecycle!Create(a)
  BY <1>5, <1>6 DEF Lifecycle!Create, Lifecycle!Stages, Lifecycle!Unfinished, Stages, Unfinished
<1> QED
  BY <1>7 DEF Lifecycle!Next

LEMMA MapsAdd ==
  ASSUME IInv, NEW c \in Clients, CommitAddMembers(c)
  PROVE  Lifecycle!Next
<1>0. TypeOK /\ Effect /\ assignment' = assignment
  BY AddEffect DEF IInv, CommitAddMembers
<1>1. request[c] \in Request /\ RequestFits(request[c]) /\ request[c].op = "add"
  BY RequestIs, Statuses DEF CommitAddMembers
<1>2. request[c].on \X request[c].users \in SUBSET Pairs
  BY <1>1 DEF Request, Pairs
<1>3. \A p \in request[c].on \X request[c].users :
        request[c].source[p[2]] # "none" /\ request[c].terms[p[1]] \in Terms
  BY <1>1 DEF RequestFits
<1>4. /\ request[c].terms \in [Assignments -> Terms \cup {"none"}]
      /\ request[c].stage \in [Users -> Stages]
      /\ request[c].source \in [Users -> {"none", "personal", "group"}]
  BY <1>1 DEF Request
<1>5. \A a \in Assignments, u \in Users : Kept(a, u) \/ Enrolled(a, u)
  BY <1>0, <1>2, <1>3, <1>4, EnrolShape DEF CommitAddMembers
<1>6. \A a \in Assignments, u \in Users :
        \/ StatusOf(a, u)' = StatusOf(a, u)
        \/ a \in Assignments /\ StatusOf(a, u) \in {"none", "cancelled"} /\ StatusOf(a, u)' \in Stages
  BY <1>5 DEF Kept, Enrolled, StatusOf
<1>7. Lifecycle!MoveRows(Assignments, {"none", "cancelled"}, Stages)
  BY <1>0, <1>6, MapsRows DEF Effect
<1>8. Lifecycle!Enrol
  BY <1>0, <1>7, MapsSame DEF Lifecycle!Enrol, Lifecycle!Stages, Lifecycle!Unfinished, Stages, Unfinished
<1> QED
  BY <1>8 DEF Lifecycle!Next

LEMMA MapsWatch ==
  ASSUME IInv, NEW u \in Users, NEW level \in {"some", "reached"}, Watch(u, level)
  PROVE  Lifecycle!Next
<1>0. TypeOK /\ Effect /\ assignment' = assignment
  BY WatchEffect DEF IInv, Watch
<1> DEFINE s == IF level = "reached" THEN "completed" ELSE "in_progress"
<1>1. ASSUME NEW a \in Assignments, NEW v \in Users
      PROVE  \/ StatusOf(a, v)' = StatusOf(a, v)
             \/ a \in Active /\ StatusOf(a, v) \in Unfinished /\ StatusOf(a, v)' = s
  <2>1. participant[a] \in [Users -> Participant \cup {NoParticipant}]
    BY <1>0 DEF TypeOK
  <2>2. IsOpen(a, v) => participant[a][v] \in Participant
    BY <1>0, OpenIsParticipant
  <2>3. participant'[a] = IF a \in Active /\ IsOpen(a, u) THEN [participant[a] EXCEPT ![u].status = s]
                          ELSE participant[a]
    BY DEF Watch
  <2>4. CASE a \in Active /\ IsOpen(a, u) /\ v = u
    <3>1. participant'[a][v] = [participant[a][v] EXCEPT !.status = s]
      BY <2>1, <2>3, <2>4
    <3>2. participant'[a][v].status = s
      BY <3>1, <2>2, <2>4 DEF Participant
    <3> QED
      BY <3>2, <2>4 DEF StatusOf, IsOpen
  <2>5. CASE ~ (a \in Active /\ IsOpen(a, u) /\ v = u)
    BY <2>1, <2>3, <2>5 DEF StatusOf
  <2> QED
    BY <2>4, <2>5
<1>2. CASE level = "reached"
  <2>1. Lifecycle!MoveRows(Active, Unfinished, {"completed"})
    BY <1>0, <1>1, <1>2, MapsRows DEF Effect
  <2>2. Lifecycle!Complete
    BY <1>0, <2>1, MapsSame, MapsActive DEF Lifecycle!Complete, Lifecycle!Unfinished, Unfinished
  <2> QED
    BY <2>2 DEF Lifecycle!Next
<1>3. CASE level = "some"
  <2>1. \A a \in Assignments, v \in Users :
          \/ StatusOf(a, v)' = StatusOf(a, v)
          \/ a \in Active /\ StatusOf(a, v) \in {"assigned"} /\ StatusOf(a, v)' \in {"in_progress"}
    BY <1>1, <1>3 DEF Unfinished
  <2>2. Lifecycle!MoveRows(Active, {"assigned"}, {"in_progress"})
    BY <1>0, <2>1, MapsRows DEF Effect
  <2>3. Lifecycle!Start
    BY <1>0, <2>2, MapsSame, MapsActive DEF Lifecycle!Start
  <2> QED
    BY <2>3 DEF Lifecycle!Next
<1> QED
  BY <1>2, <1>3

\* A step that changes the status of no row and of no assignment is a stutter.
LEMMA MapsStutter ==
  ASSUME \A a \in Assignments : assignment'[a] = assignment[a],
         \A a \in Assignments, u \in Users : StatusOf(a, u)' = StatusOf(a, u)
  PROVE  UNCHANGED Lifecycle!vars
BY DEF Lifecycle!vars, StatusOf, Promised

LEMMA MapsStep == IInv /\ [Next]_vars => Lifecycle!Next \/ UNCHANGED Lifecycle!vars
<1> SUFFICES ASSUME IInv, [Next]_vars PROVE Lifecycle!Next \/ UNCHANGED Lifecycle!vars
  OBVIOUS
<1>0. TypeOK'
  BY Steps DEF IInv
<1>1. ASSUME UNCHANGED <<assignment, participant>> PROVE UNCHANGED Lifecycle!vars
  BY <1>1, MapsStutter DEF StatusOf
<1>2. ASSUME NEW c \in Clients, ManagerStep(c) PROVE Lifecycle!Next \/ UNCHANGED Lifecycle!vars
  <2>1. ASSUME NEW req, Begin(c, req) PROVE UNCHANGED Lifecycle!vars
    BY <2>1, <1>1 DEF Begin, rows
  <2>2. ASSUME CommitUpdateDue(c) PROVE UNCHANGED Lifecycle!vars
    <3>1. ASSUME NEW a \in Assignments, NEW u \in Users PROVE StatusOf(a, u)' = StatusOf(a, u)
      <4>1. IsOpen(a, u) => participant[a][u] \in Participant
        BY OpenIsParticipant DEF IInv
      <4>2. participant'[a][u] = IF <<a, u>> \in request[c].found /\ IsOpen(a, u)
              THEN [participant[a][u] EXCEPT !.due = request[c].terms[a]] ELSE participant[a][u]
        BY <2>2 DEF CommitUpdateDue
      <4> QED
        BY <4>1, <4>2 DEF StatusOf, Participant
    <3> QED
      BY <2>2, <3>1, MapsStutter DEF CommitUpdateDue
  <2>3. ASSUME CommitCancel(c) PROVE Lifecycle!Next
    BY <1>0, <2>3, MapsClose DEF CommitCancel, Closes, Reasons
  <2>4. ASSUME CommitDeleteVideo(c) \/ CommitDeleteGroup(c) PROVE Lifecycle!Next
    BY <1>0, <2>4, MapsClose DEF CommitDeleteVideo, CommitDeleteGroup, CommitDelete, Closes, Reasons
  <2>5. ASSUME CommitRemoveParticipant(c) PROVE Lifecycle!Next
    <3>1. request[c].found \in SUBSET Pairs
      BY <2>5, RequestIs, Statuses DEF CommitRemoveParticipant, Request, Pairs
    <3> QED
      BY <1>0, <2>5, <3>1, MapsWithdraw DEF CommitRemoveParticipant
  <2>6. ASSUME NEW u \in Users, RemoveMember(c, u) PROVE Lifecycle!Next
    <3>1. ViaGroup(u) \in SUBSET Pairs
      BY DEF ViaGroup, OpenRows, Active, Pairs
    <3> QED
      BY <1>0, <2>6, <3>1, MapsWithdraw DEF RemoveMember
  <2>7. ASSUME NEW u \in Users, Deactivate(c, u) \/ Reactivate(c, u) PROVE UNCHANGED Lifecycle!vars
    BY <2>7, <1>1 DEF Deactivate, Reactivate, rows
  <2>8. ASSUME Abort(c) PROVE UNCHANGED Lifecycle!vars
    BY <2>8, <1>1 DEF Abort, rows
  <2> QED
    BY <1>2, <2>1, <2>2, <2>3, <2>4, <2>5, <2>6, <2>7, <2>8, MapsCreate, MapsAdd
    DEF ManagerStep, BeginCreate, BeginUpdateDue, BeginCancel, BeginRemoveParticipant,
        BeginAddMembers, BeginDeleteVideo, BeginDeleteGroup, BeginDelete
<1>3. ASSUME NEW u \in Users, NEW level \in {"some", "reached"}, Watch(u, level) PROVE Lifecycle!Next
  BY <1>3, MapsWatch
<1>4. ASSUME NEW d \in Dates, TermPasses(d) PROVE UNCHANGED Lifecycle!vars
  BY <1>4, <1>1 DEF TermPasses, rows
<1>5. CASE UNCHANGED vars
  BY <1>5, <1>1 DEF vars, rows
<1> QED
  BY <1>2, <1>3, <1>4, <1>5 DEF Next

\* Every request, cascade and heartbeat is a step of the lifecycle promised for
\* participants, or none.
THEOREM AssignmentsImplement == Spec => ImplementsLifecycle
<1>1. Init => Lifecycle!Init
  BY DEF Init, Lifecycle!Init, Promised, Reasons, NoParticipant
<1> QED
  BY <1>1, MapsStep, Invariance, PTL DEF Spec, ImplementsLifecycle, Lifecycle!Spec
-----------------------------------------------------------------------------
(* One request at a time *)

\* What the one request in flight has read still says all there is to write: it
\* has found every open row, the assignments are active, and the terms theirs.
UpToDate(req) ==
  /\ Closes(req.op) \/ req.op = "due" =>
       \A a \in req.on, u \in Users : IsOpen(a, u) => <<a, u>> \in req.found
  /\ req.op \in {"due", "add"} => req.on \subseteq Active
  /\ req.op \in {"video_deleted", "group_deleted"} => Active \subseteq req.on
  /\ req.op = "add" => \A a \in req.on : req.terms[a] = term[a]

AllUpToDate == \A c \in Clients : UpToDate(request[c])

SInv == IInv /\ SerialPromises /\ AllUpToDate

\* Rows are only closed, and the open ones keep their terms.
RowsOnlyClose ==
  /\ UNCHANGED <<assignment, term, present>>
  /\ \A a \in Assignments, u \in Users :
       participant'[a][u].status \in Unfinished =>
         /\ participant[a][u].status \in Unfinished
         /\ participant'[a][u].due = participant[a][u].due

LEMMA OnlyCloseKeeps ==
  ASSUME SerialPromises, RowsOnlyClose
  PROVE  /\ SerialPromises'
         /\ \A req \in Request \cup {Idle} : UpToDate(req) => UpToDate(req)'
<1> USE DEF RowsOnlyClose, IsOpen, Active
<1>1. CancelledIsClosed' /\ ActiveHasVideo' /\ OpenRowsShareTerm'
  BY DEF SerialPromises, CancelledIsClosed, ActiveHasVideo, OpenRowsShareTerm, Cancelled
<1>2. ASSUME NEW req \in Request \cup {Idle}, UpToDate(req) PROVE UpToDate(req)'
  <2>1. req.on \subseteq Assignments
    BY DEF Request, Idle
  <2> QED
    BY <1>2, <2>1 DEF UpToDate
<1> QED
  BY <1>1, <1>2 DEF SerialPromises

LEMMA SameRowsOnlyClose ==
  ASSUME UNCHANGED <<assignment, term, participant, present>>
  PROVE  RowsOnlyClose
BY DEF RowsOnlyClose

LEMMA WithdrawOnlyCloses ==
  ASSUME TypeOK, NEW R \in SUBSET Pairs, Withdraw(R), UNCHANGED <<assignment, term, present>>
  PROVE  RowsOnlyClose
<1>1. ASSUME NEW a \in Assignments, NEW u \in Users, participant'[a][u].status \in Unfinished
      PROVE  participant'[a][u] = participant[a][u]
  <2>1. Withdrawn(a, u) => participant'[a][u].status = "cancelled"
    BY MovedRow DEF RowMoves
  <2>2. ~ Withdrawn(a, u)
    BY <1>1, <2>1, Statuses
  <2> QED
    BY <2>2, WithdrawShape DEF Kept
<1> QED
  BY <1>1 DEF RowsOnlyClose

LEMMA WatchOnlyCloses ==
  ASSUME TypeOK, NEW u \in Users, NEW level \in {"some", "reached"}, Watch(u, level)
  PROVE  RowsOnlyClose
<1>1. ASSUME NEW a \in Assignments, NEW v \in Users, participant'[a][v].status \in Unfinished
      PROVE  /\ participant[a][v].status \in Unfinished
             /\ participant'[a][v].due = participant[a][v].due
  <2>1. participant[a] \in [Users -> Participant \cup {NoParticipant}]
    BY DEF TypeOK
  <2>2. CASE a \in Active /\ IsOpen(a, u) /\ v = u
    <3>1. participant'[a] = [participant[a] EXCEPT ![u].status =
                               IF level = "reached" THEN "completed" ELSE "in_progress"]
      BY <2>2 DEF Watch
    <3>2. participant'[a][v].due = participant[a][v].due
      BY <2>1, <2>2, <3>1
    <3> QED
      BY <2>2, <3>2 DEF IsOpen
  <2>3. CASE ~ (a \in Active /\ IsOpen(a, u) /\ v = u)
    <3>1. participant'[a][v] = participant[a][v]
      BY <2>1, <2>3 DEF Watch
    <3> QED
      BY <1>1, <3>1
  <2> QED
    BY <2>2, <2>3
<1> QED
  BY <1>1 DEF RowsOnlyClose, Watch

\* A request reads what is there when it begins.
LEMMA BeginsUpToDate ==
  ASSUME TypeOK, NEW c \in Clients
  PROVE  /\ \A a \in Assignments, personal \in SUBSET Users, toGroup \in BOOLEAN, t \in Terms :
              BeginCreate(c, a, personal, toGroup, t) => UpToDate(request'[c])
         /\ \A a \in Assignments, t \in Terms : BeginUpdateDue(c, a, t) => UpToDate(request'[c])
         /\ \A a \in Assignments : BeginCancel(c, a) => UpToDate(request'[c])
         /\ \A a \in Assignments, u \in Users :
              BeginRemoveParticipant(c, a, u) => UpToDate(request'[c])
         /\ \A U \in SUBSET Users : BeginAddMembers(c, U) => UpToDate(request'[c])
         /\ BeginDeleteVideo(c) \/ BeginDeleteGroup(c) => UpToDate(request'[c])
<1> USE DEF UpToDate, Closes
<1>0. \A req : Begin(c, req) => request'[c] = req
  BY DEF Begin, TypeOK
<1>1. ASSUME NEW S \in SUBSET Assignments, NEW u \in Users, NEW a \in S, IsOpen(a, u)
      PROVE  <<a, u>> \in OpenRows(S)
  BY <1>1 DEF OpenRows
<1>2. ASSUME NEW a \in Assignments, NEW personal \in SUBSET Users, NEW toGroup \in BOOLEAN,
             NEW t \in Terms, BeginCreate(c, a, personal, toGroup, t)
      PROVE  UpToDate(request'[c])
  <2>1. request'[c].op = "create"
    BY <1>0, <1>2 DEF BeginCreate, Idle
  <2> QED
    BY <2>1
<1>3. ASSUME NEW a \in Assignments, NEW t \in Terms, BeginUpdateDue(c, a, t)
      PROVE  UpToDate(request'[c])
  <2>1. /\ request'[c].op = "due" /\ request'[c].on = {a}
        /\ request'[c].found = OpenRows({a}) /\ a \in Active
    BY <1>0, <1>3 DEF BeginUpdateDue, Idle, Active
  <2> QED
    BY <1>1, <2>1
<1>4. ASSUME NEW a \in Assignments, BeginCancel(c, a) PROVE UpToDate(request'[c])
  <2>1. /\ request'[c].op = "cancel" /\ request'[c].on = {a}
        /\ request'[c].found = OpenRows({a})
    BY <1>0, <1>4 DEF BeginCancel, Idle
  <2> QED
    BY <1>1, <2>1
<1>5. ASSUME NEW a \in Assignments, NEW u \in Users, BeginRemoveParticipant(c, a, u)
      PROVE  UpToDate(request'[c])
  <2>1. request'[c].op = "remove"
    BY <1>0, <1>5 DEF BeginRemoveParticipant, Idle
  <2> QED
    BY <2>1
<1>6. ASSUME NEW U \in SUBSET Users, BeginAddMembers(c, U) PROVE UpToDate(request'[c])
  <2> DEFINE joined == {a \in Active \cap forGroup : EnrollsNewcomers(a)}
             terms == [a \in Assignments |-> IF a \in joined THEN term[a] ELSE "none"]
  <2>1. request'[c].op = "add" /\ request'[c].on = joined /\ request'[c].terms = terms
    BY <1>0, <1>6 DEF BeginAddMembers, Idle
  <2>2. joined \subseteq Active /\ joined \subseteq Assignments
    BY DEF Active
  <2> HIDE DEF joined
  <2> QED
    BY <2>1, <2>2
<1>7. ASSUME BeginDeleteVideo(c) \/ BeginDeleteGroup(c) PROVE UpToDate(request'[c])
  <2>1. /\ request'[c].op \in {"video_deleted", "group_deleted"} /\ request'[c].on = Active
        /\ request'[c].found = OpenRows(Active)
    BY <1>0, <1>7 DEF BeginDeleteVideo, BeginDeleteGroup, BeginDelete, Idle
  <2>2. Active \in SUBSET Assignments
    BY DEF Active
  <2> QED
    BY <1>1, <2>1, <2>2
<1> QED
  BY <1>2, <1>3, <1>4, <1>5, <1>6, <1>7

\* Create makes rows of one term, of an assignment that had none.
LEMMA CreateIsSerial ==
  ASSUME SInv, NEW c \in Clients, CommitCreate(c)
  PROVE  SerialPromises'
<1> USE Statuses
<1> DEFINE req == request[c]
           R == req.on \X req.users
<1>0. TypeOK /\ NoRowsBefore /\ SerialPromises
  BY DEF SInv, IInv
<1>1. req \in Request /\ RequestFits(req)
  BY RequestIs DEF CommitCreate, SInv
<1>2. /\ req.on \subseteq Assignments /\ req.on \cap Known = {}
      /\ R \in SUBSET Pairs /\ \A p \in R : req.source[p[2]] # "none" /\ req.terms[p[1]] \in Terms
      /\ req.terms \in [Assignments -> Terms \cup {"none"}] /\ req.stage \in [Users -> Stages]
      /\ req.source \in [Users -> {"none", "personal", "group"}]
  BY <1>1 DEF CommitCreate, Request, RequestFits, Pairs
<1>3. /\ assignment' = [a \in Assignments |-> IF a \in req.on THEN "active" ELSE assignment[a]]
      /\ term' = [a \in Assignments |-> IF a \in req.on THEN req.terms[a] ELSE term[a]]
      /\ Enrol(R, req.source, req.terms, req.stage)
      /\ present' = present /\ "video" \in present
  BY DEF CommitCreate
<1>4. \A a \in Assignments, u \in Users : <<a, u>> \in R => a \in req.on
  OBVIOUS
<1> HIDE DEF R, req
<1>5. /\ RowTypes'
      /\ \A a \in Assignments, u \in Users :
           \/ Kept(a, u)
           \/ /\ <<a, u>> \in R
              /\ participant'[a][u] = [status |-> req.stage[u], source |-> req.source[u], due |-> req.terms[a]]
              /\ Enrolled(a, u)
  BY <1>0, <1>2, <1>3, EnrolShape
<1>6. ASSUME NEW a \in Assignments, NEW u \in Users, IsOpen(a, u)'
      PROVE  \/ participant'[a][u] = participant[a][u] /\ a \notin req.on
             \/ participant'[a][u].due = req.terms[a] /\ a \in req.on
  <2>1. CASE Kept(a, u)
    <3>1. participant[a][u].status \in Unfinished
      BY <1>6, <2>1 DEF Kept, IsOpen
    <3>2. a \in Known
      BY <1>0, <3>1 DEF NoRowsBefore
    <3> QED
      BY <1>2, <2>1, <3>2 DEF Kept
  <2>2. CASE ~ Kept(a, u)
    <3>1. /\ <<a, u>> \in R
          /\ participant'[a][u] = [status |-> req.stage[u], source |-> req.source[u],
                                   due |-> req.terms[a]]
      BY <1>5, <2>2
    <3>2. participant'[a][u].due = req.terms[a]
      BY <3>1
    <3> QED
      BY <1>4, <3>1, <3>2
  <2> QED
    BY <2>1, <2>2
<1>7. CancelledIsClosed'
  BY <1>0, <1>3, <1>6 DEF SerialPromises, CancelledIsClosed, Cancelled, IsOpen
<1>8. ActiveHasVideo'
  BY <1>3 DEF ActiveHasVideo
<1>9. OpenRowsShareTerm'
  BY <1>0, <1>3, <1>6 DEF SerialPromises, OpenRowsShareTerm, Active, IsOpen
<1> QED
  BY <1>7, <1>8, <1>9 DEF SerialPromises

\* Newcomers get the term of an assignment that is active still.
LEMMA AddIsSerial ==
  ASSUME SInv, NEW c \in Clients, CommitAddMembers(c)
  PROVE  SerialPromises'
<1> USE Statuses
<1> DEFINE req == request[c]
           R == req.on \X req.users
<1>0. TypeOK /\ SerialPromises /\ UpToDate(req) /\ req.op = "add"
  BY DEF SInv, IInv, AllUpToDate, CommitAddMembers
<1>1. req \in Request /\ RequestFits(req)
  BY RequestIs DEF CommitAddMembers, SInv
<1>2. /\ R \in SUBSET Pairs /\ \A p \in R : req.source[p[2]] # "none" /\ req.terms[p[1]] \in Terms
      /\ req.terms \in [Assignments -> Terms \cup {"none"}] /\ req.stage \in [Users -> Stages]
      /\ req.source \in [Users -> {"none", "personal", "group"}]
  BY <1>0, <1>1 DEF Request, RequestFits, Pairs
<1>3. /\ UNCHANGED <<assignment, term, present>>
      /\ Enrol(R, req.source, req.terms, req.stage)
  BY DEF CommitAddMembers
<1>4. \A a \in Assignments, u \in Users : <<a, u>> \in R => a \in Active /\ req.terms[a] = term[a]
  BY <1>0 DEF UpToDate
<1> HIDE DEF R, req
<1>5. /\ RowTypes'
      /\ \A a \in Assignments, u \in Users :
           \/ Kept(a, u)
           \/ /\ <<a, u>> \in R
              /\ participant'[a][u] = [status |-> req.stage[u], source |-> req.source[u], due |-> req.terms[a]]
              /\ Enrolled(a, u)
  BY <1>0, <1>2, <1>3, EnrolShape
<1>6. ASSUME NEW a \in Assignments, NEW u \in Users
      PROVE  \/ participant'[a][u] = participant[a][u]
             \/ a \in Active /\ participant'[a][u].due = term[a]
  <2>1. CASE Kept(a, u)
    BY <2>1 DEF Kept
  <2>2. CASE ~ Kept(a, u)
    <3>1. /\ <<a, u>> \in R
          /\ participant'[a][u] = [status |-> req.stage[u], source |-> req.source[u],
                                   due |-> req.terms[a]]
      BY <1>5, <2>2
    <3>2. participant'[a][u].due = req.terms[a]
      BY <3>1
    <3> QED
      BY <1>4, <3>1, <3>2
  <2> QED
    BY <2>1, <2>2
<1>7. CancelledIsClosed'
  BY <1>0, <1>3, <1>6 DEF SerialPromises, CancelledIsClosed, Cancelled, Active, IsOpen
<1>8. ActiveHasVideo'
  BY <1>0, <1>3 DEF SerialPromises, ActiveHasVideo, Active
<1>9. OpenRowsShareTerm'
  BY <1>0, <1>3, <1>6 DEF SerialPromises, OpenRowsShareTerm, Active, IsOpen
<1> QED
  BY <1>7, <1>8, <1>9 DEF SerialPromises

\* A new term reaches every open row of the assignment, which is active still.
LEMMA DueIsSerial ==
  ASSUME SInv, NEW c \in Clients, CommitUpdateDue(c)
  PROVE  SerialPromises'
<1> USE Statuses
<1> DEFINE req == request[c]
<1>0. TypeOK /\ SerialPromises /\ UpToDate(req) /\ req.op = "due"
  BY DEF SInv, IInv, AllUpToDate, CommitUpdateDue
<1>1. req \in Request /\ RequestFits(req)
  BY <1>0, RequestIs DEF SInv
<1>2. /\ \A a \in Assignments, u \in Users : <<a, u>> \in req.found => a \in req.on
      /\ req.on \subseteq Active
      /\ \A a \in req.on, u \in Users : IsOpen(a, u) => <<a, u>> \in req.found
  BY <1>0, <1>1 DEF RequestFits, UpToDate
<1>3. /\ UNCHANGED <<assignment, present>>
      /\ term' = [a \in Assignments |-> IF a \in req.on THEN req.terms[a] ELSE term[a]]
      /\ participant' = [a \in Assignments |-> [u \in Users |->
           IF <<a, u>> \in req.found /\ IsOpen(a, u)
           THEN [participant[a][u] EXCEPT !.due = req.terms[a]] ELSE participant[a][u]]]
  BY DEF CommitUpdateDue
<1> HIDE DEF req
<1>4. ASSUME NEW a \in Assignments, NEW u \in Users, IsOpen(a, u)'
      PROVE  IsOpen(a, u) /\ participant'[a][u].due = IF a \in req.on THEN req.terms[a]
                                                      ELSE participant[a][u].due
  <2>1. CASE <<a, u>> \in req.found /\ IsOpen(a, u)
    <3>1. participant'[a][u] = [participant[a][u] EXCEPT !.due = req.terms[a]]
      BY <1>3, <2>1
    <3>2. participant[a][u] \in Participant
      BY <1>0, <2>1, OpenIsParticipant
    <3>3. participant'[a][u].due = req.terms[a]
      BY <3>1, <3>2 DEF Participant
    <3> QED
      BY <1>2, <2>1, <3>3
  <2>2. CASE ~ (<<a, u>> \in req.found /\ IsOpen(a, u))
    <3>1. participant'[a][u] = participant[a][u]
      BY <1>3, <2>2
    <3>2. IsOpen(a, u)
      BY <1>4, <3>1 DEF IsOpen
    <3> QED
      BY <1>2, <2>2, <3>1, <3>2
  <2> QED
    BY <2>1, <2>2
<1>5. CancelledIsClosed'
  BY <1>0, <1>3, <1>4 DEF SerialPromises, CancelledIsClosed, Cancelled
<1>6. ActiveHasVideo'
  BY <1>0, <1>3 DEF SerialPromises, ActiveHasVideo, Active
<1>7. OpenRowsShareTerm'
  BY <1>0, <1>3, <1>4 DEF SerialPromises, OpenRowsShareTerm, Active
<1> QED
  BY <1>5, <1>6, <1>7 DEF SerialPromises

\* A cancellation has found every open row, and a deletion every assignment.
LEMMA CloseIsSerial ==
  ASSUME SInv, NEW c \in Clients, Closes(request[c].op), NEW reason \in Reasons,
         Cancel(request[c].on, reason), WithdrawFrom(request[c].on, request[c].found),
         term' = term,
         present' = present \/ request[c].op \in {"video_deleted", "group_deleted"}
  PROVE  SerialPromises'
<1> USE Statuses
<1> DEFINE req == request[c]
           R == {p \in req.found : p[1] \in req.on \cap Active}
<1>0. TypeOK /\ SerialPromises /\ UpToDate(req)
  BY DEF SInv, IInv, AllUpToDate
<1>1. req \in Request
  BY RequestIs DEF Closes, SInv
<1>2. /\ R \in SUBSET Pairs
      /\ \A a \in req.on, u \in Users : IsOpen(a, u) => <<a, u>> \in req.found
      /\ req.op \in {"video_deleted", "group_deleted"} => Active \subseteq req.on
  BY <1>0, <1>1 DEF Request, UpToDate, Pairs
<1>3. /\ assignment' = [a \in Assignments |-> IF a \in req.on \cap Active THEN reason ELSE assignment[a]]
      /\ Withdraw(R)
  BY DEF Cancel, WithdrawFrom
<1>4. \A a \in req.on \cap Active, u \in Users : IsOpen(a, u) => <<a, u>> \in R
  BY <1>2
<1>5. Active' \subseteq Active /\ Active \subseteq Assignments /\ (Active \subseteq req.on => Active' = {})
  BY <1>3 DEF Active
<1>6. present' = present \/ Active' = {}
  BY <1>2, <1>5
<1> HIDE DEF R, req
<1>7. ASSUME NEW a \in Assignments, NEW u \in Users, IsOpen(a, u)'
      PROVE  /\ IsOpen(a, u) /\ participant'[a][u] = participant[a][u]
             /\ a \notin req.on \cap Active
  <2>1. Withdrawn(a, u) => participant'[a][u].status = "cancelled"
    BY <1>0, MovedRow DEF RowMoves
  <2>2. ~ Withdrawn(a, u)
    BY <1>7, <2>1 DEF IsOpen
  <2>3. Kept(a, u) /\ (<<a, u>> \in R => ~ IsOpen(a, u))
    BY <1>0, <1>2, <1>3, <2>2, WithdrawShape
  <2>4. IsOpen(a, u) /\ participant'[a][u] = participant[a][u]
    BY <1>7, <2>3 DEF Kept, IsOpen
  <2> QED
    BY <1>4, <2>3, <2>4
<1>8. CancelledIsClosed'
  BY <1>0, <1>3, <1>7 DEF SerialPromises, CancelledIsClosed, Cancelled
<1>9. ActiveHasVideo'
  BY <1>0, <1>5, <1>6 DEF SerialPromises, ActiveHasVideo
<1>10. OpenRowsShareTerm'
  BY <1>0, <1>5, <1>7, Zenon DEF SerialPromises, OpenRowsShareTerm
<1> QED
  BY <1>8, <1>9, <1>10 DEF SerialPromises

\* What begins is up to date, and what only closes rows leaves it so.
LEMMA QuietIsSerial ==
  ASSUME SInv, RowsOnlyClose, TypeOK', \A d \in Clients : UpToDate(request'[d])
  PROVE  SerialPromises' /\ AllUpToDate'
<1>1. SerialPromises' /\ \A req \in Request \cup {Idle} : UpToDate(req) => UpToDate(req)'
  BY OnlyCloseKeeps DEF SInv
<1>2. ASSUME NEW d \in Clients PROVE UpToDate(request[d])'
  <2>1. PICK q \in Request \cup {Idle} : q = request'[d]
    BY DEF TypeOK
  <2>2. UpToDate(q)'
    BY <1>1, <2>1
  <2> QED
    BY <2>1, <2>2 DEF UpToDate, Active, IsOpen
<1> QED
  BY <1>1, <1>2 DEF AllUpToDate

LEMMA SerialManagerStep ==
  ASSUME SInv, \A c, d \in Clients : c = d, NEW c \in Clients, ManagerStep(c)
  PROVE  SerialPromises' /\ AllUpToDate'
<1> USE Statuses
<1>0. TypeOK /\ AllUpToDate /\ TypeOK'
  BY ManagerSteps DEF SInv, IInv
<1>1. ASSUME UpToDate(request'[c]), UNCHANGED rows, present' = present
      PROVE  SerialPromises' /\ AllUpToDate'
  <2>1. RowsOnlyClose
    BY <1>1, SameRowsOnlyClose DEF rows
  <2>2. \A d \in Clients : UpToDate(request'[d])
    BY <1>1
  <2> QED
    BY <1>0, <2>1, <2>2, QuietIsSerial
<1>2. ASSUME RowsOnlyClose, request' = request PROVE SerialPromises' /\ AllUpToDate'
  BY <1>0, <1>2, QuietIsSerial DEF AllUpToDate
<1>3. ASSUME SerialPromises', Ended(c) PROVE SerialPromises' /\ AllUpToDate'
  <2>1. request'[c] = Idle
    BY <1>0, <1>3, EndedEnds
  <2>2. \A d \in Clients : request'[d] = Idle
    BY <2>1
  <2> QED
    BY <1>3, <2>2 DEF AllUpToDate, UpToDate, Closes
<1>4. ASSUME NEW a \in Assignments,
             \/ \E personal \in SUBSET Users, toGroup \in BOOLEAN, t \in Terms :
                  BeginCreate(c, a, personal, toGroup, t)
             \/ \E t \in Terms : BeginUpdateDue(c, a, t)
             \/ BeginCancel(c, a)
             \/ \E u \in Users : BeginRemoveParticipant(c, a, u)
      PROVE  SerialPromises' /\ AllUpToDate'
  <2>1. UpToDate(request'[c])
    BY <1>0, <1>4, BeginsUpToDate
  <2>2. UNCHANGED rows /\ present' = present
    <3>1. \E req : Begin(c, req)
      BY <1>4, Zenon DEF BeginCreate, BeginUpdateDue, BeginCancel, BeginRemoveParticipant
    <3> QED
      BY <3>1 DEF Begin
  <2> QED
    BY <1>1, <2>1, <2>2
<1>5. ASSUME \/ \E U \in SUBSET Users : BeginAddMembers(c, U)
             \/ BeginDeleteVideo(c) \/ BeginDeleteGroup(c)
      PROVE  SerialPromises' /\ AllUpToDate'
  <2>1. UpToDate(request'[c])
    BY <1>0, <1>5, BeginsUpToDate
  <2>2. UNCHANGED rows /\ present' = present
    <3>1. \E req : Begin(c, req)
      BY <1>5, Zenon DEF BeginAddMembers, BeginDeleteVideo, BeginDeleteGroup, BeginDelete
    <3> QED
      BY <3>1 DEF Begin
  <2> QED
    BY <1>1, <2>1, <2>2
<1>6. ASSUME NEW u \in Users, RemoveMember(c, u)
      PROVE  SerialPromises' /\ AllUpToDate'
  <2>1. ViaGroup(u) \in SUBSET Pairs
    BY DEF ViaGroup, OpenRows, Active, Pairs
  <2>2. RowsOnlyClose /\ request' = request
    BY <1>0, <1>6, <2>1, WithdrawOnlyCloses DEF RemoveMember
  <2> QED
    BY <1>2, <2>2
<1>7. ASSUME NEW u \in Users, Deactivate(c, u) \/ Reactivate(c, u)
      PROVE  SerialPromises' /\ AllUpToDate'
  <2>1. UNCHANGED <<rows, present, request>>
    BY <1>7 DEF Deactivate, Reactivate
  <2>2. RowsOnlyClose
    BY <2>1, SameRowsOnlyClose DEF rows
  <2> QED
    BY <1>2, <2>1, <2>2
<1>8. ASSUME Abort(c) PROVE SerialPromises' /\ AllUpToDate'
  <2>1. UNCHANGED rows /\ present' = present /\ Ended(c)
    BY <1>8 DEF Abort
  <2>2. UpToDate(request'[c])
    BY <1>0, <2>1, EndedEnds DEF UpToDate, Closes
  <2> QED
    BY <1>1, <2>1, <2>2
<1>9. ASSUME CommitCreate(c) PROVE SerialPromises' /\ AllUpToDate'
  BY <1>3, <1>9, CreateIsSerial DEF CommitCreate
<1>10. ASSUME CommitAddMembers(c) PROVE SerialPromises' /\ AllUpToDate'
  BY <1>3, <1>10, AddIsSerial DEF CommitAddMembers
<1>11. ASSUME CommitUpdateDue(c) PROVE SerialPromises' /\ AllUpToDate'
  BY <1>3, <1>11, DueIsSerial DEF CommitUpdateDue
<1>12. ASSUME CommitCancel(c) PROVE SerialPromises' /\ AllUpToDate'
  <2>1. Closes(request[c].op) /\ "manual" \in Reasons
    BY <1>12 DEF CommitCancel, Closes, Reasons
  <2> QED
    BY <1>3, <1>12, <2>1, CloseIsSerial DEF CommitCancel
<1>13. ASSUME CommitDeleteVideo(c) \/ CommitDeleteGroup(c) PROVE SerialPromises' /\ AllUpToDate'
  <2>1. /\ Closes(request[c].op) /\ request[c].op \in Reasons
        /\ request[c].op \in {"video_deleted", "group_deleted"}
        /\ Cancel(request[c].on, request[c].op)
        /\ WithdrawFrom(request[c].on, request[c].found)
        /\ term' = term /\ Ended(c)
    BY <1>13 DEF CommitDeleteVideo, CommitDeleteGroup, CommitDelete, Closes, Reasons
  <2>2. SerialPromises'
    BY <2>1, CloseIsSerial
  <2> QED
    BY <1>3, <2>1, <2>2
<1>14. ASSUME CommitRemoveParticipant(c) PROVE SerialPromises' /\ AllUpToDate'
  <2>1. request[c].found \in SUBSET Pairs
    BY <1>14, RequestIs DEF CommitRemoveParticipant, Request, Pairs, SInv
  <2>2. /\ Withdraw(request[c].found) /\ Ended(c)
        /\ UNCHANGED <<assignment, term, present>>
    BY <1>14 DEF CommitRemoveParticipant
  <2>3. RowsOnlyClose
    BY <1>0, <2>1, <2>2, WithdrawOnlyCloses
  <2>4. SerialPromises'
    BY <2>3, OnlyCloseKeeps DEF SInv
  <2> QED
    BY <1>3, <2>2, <2>4
<1> QED
  BY <1>4, <1>5, <1>6, <1>7, <1>8, <1>9, <1>10, <1>11, <1>12, <1>13, <1>14 DEF ManagerStep

\* One request at a time, with viewers and terms running on while it is in
\* flight, keeps what the comments promise of assignments: a cancelled one is
\* closed, an active one has its video, and open rows carry its term.
THEOREM SerialIsSafe ==
  ASSUME \A c, d \in Clients : c = d
  PROVE  Spec => []SerialPromises
<1>1. Init => SInv
  <2> SUFFICES ASSUME Init PROVE SInv
    OBVIOUS
  <2>1. SerialPromises
    BY Statuses
    DEF Init, SerialPromises, CancelledIsClosed, ActiveHasVideo, OpenRowsShareTerm, Cancelled,
        Active, IsOpen, Unfinished
  <2>2. AllUpToDate
    BY Statuses DEF Init, AllUpToDate, UpToDate, Closes
  <2> QED
    BY <2>1, <2>2, InitInvariant DEF SInv
<1>2. SInv /\ [Next]_vars => SInv'
  <2> SUFFICES ASSUME SInv, [Next]_vars PROVE SInv'
    OBVIOUS
  <2>1. IInv' /\ TypeOK'
    BY Steps DEF SInv, IInv
  <2>2. ASSUME NEW c \in Clients, ManagerStep(c) PROVE SerialPromises' /\ AllUpToDate'
    BY <2>2, SerialManagerStep
  <2>3. ASSUME RowsOnlyClose, request' = request PROVE SerialPromises' /\ AllUpToDate'
    BY <2>1, <2>3, QuietIsSerial DEF SInv, AllUpToDate
  <2>4. ASSUME NEW u \in Users, NEW level \in {"some", "reached"}, Watch(u, level)
        PROVE  SerialPromises' /\ AllUpToDate'
    <3>1. RowsOnlyClose /\ request' = request
      BY <2>4, WatchOnlyCloses DEF SInv, IInv, Watch
    <3> QED
      BY <2>3, <3>1
  <2>5. ASSUME UNCHANGED vars \/ \E d \in Dates : TermPasses(d)
        PROVE  SerialPromises' /\ AllUpToDate'
    <3>1. UNCHANGED <<rows, present, request>>
      BY <2>5 DEF vars, TermPasses
    <3>2. RowsOnlyClose
      BY <3>1, SameRowsOnlyClose DEF rows
    <3> QED
      BY <2>3, <3>1, <3>2
  <2> QED
    BY <2>1, <2>2, <2>4, <2>5 DEF SInv, Next
<1>3. SInv => SerialPromises
  BY DEF SInv
<1> QED
  BY <1>1, <1>2, <1>3, PTL DEF Spec
=============================================================================
