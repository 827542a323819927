------------------------------ MODULE Assignments ------------------------------
(***************************************************************************)
(* The assignments of one video of one group, with the terms, sources and  *)
(* log of their participants: the requests of managers, the cascades that  *)
(* follow a change of the group's members and the deletion of the video or *)
(* of the group (internal/service/assignment.go), and viewers.             *)
(*                                                                         *)
(* A request is one transaction at READ COMMITTED. It begins: what it      *)
(* reads, and the rows its UPDATEs find, are kept in request. It commits:  *)
(* its WHERE clauses hold again on the rows it found (an UPDATE waits for  *)
(* the row's lock, and looks at the row again), rows it did not find stay  *)
(* as they are, and its writes appear together. Or it aborts.              *)
(***************************************************************************)
EXTENDS FiniteSets

CONSTANTS
  Users,
  Overseers,     \* users who may watch the videos of every group
  Assignments,   \* the assignments that are ever created
  Dates,         \* terms by a fixed date
  Days,          \* terms in days from the enrolment
  Clients        \* requests in flight at once

ASSUME OverseersAssumption == Overseers \subseteq Users
ASSUME TermsAssumption == "none" \notin Dates \cup Days

VARIABLES
  assignment,    \* "none", "active", or the reason of its cancellation
  term,          \* due_mode with due_at or due_days, of each assignment
  forGroup,      \* the assignments with the group among their targets
  participant,   \* [status, source, due] of each pair of an assignment and a user
  journal,       \* the last event of each pair in app.assignment_events
  members,       \* the members of the group
  inactive,      \* the users with deactivated_at
  present,       \* of the video and the group, what is not deleted
  seen,          \* the progress of each user on the video
  past,          \* the dates of Dates that are over
  request        \* the request of each client, Idle when there is none

rows == <<assignment, term, forGroup, participant, journal>>
vars == <<rows, members, inactive, present, seen, past, request>>

-----------------------------------------------------------------------------
Terms == Dates \cup Days
Reasons == {"manual", "video_deleted", "group_deleted"}
Unfinished == {"assigned", "in_progress"}
Stages == Unfinished \cup {"completed"}
NoParticipant == [status |-> "none", source |-> "none", due |-> "none"]
Participant ==
  [status : Stages \cup {"cancelled"}, source : {"personal", "group"}, due : Terms]

\* on: the assignments it writes; users: those it enrols or removes; source:
\* who it enrols and how; found: the rows its UPDATE of participants found;
\* stage: of each user; terms: of each assignment.
Request ==
  [op : {"create", "due", "cancel", "remove", "add", "video_deleted", "group_deleted"},
   on : SUBSET Assignments, users : SUBSET Users, toGroup : BOOLEAN,
   source : [Users -> {"none", "personal", "group"}],
   found : SUBSET (Assignments \X Users),
   stage : [Users -> Stages], terms : [Assignments -> Terms \cup {"none"}]]
Idle ==
  [op |-> "idle", on |-> {}, users |-> {}, toGroup |-> FALSE,
   source |-> [u \in Users |-> "none"], found |-> {},
   stage |-> [u \in Users |-> "assigned"], terms |-> [a \in Assignments |-> "none"]]

Init ==
  /\ assignment = [a \in Assignments |-> "none"]
  /\ term = [a \in Assignments |-> "none"]
  /\ forGroup = {}
  /\ participant = [a \in Assignments |-> [u \in Users |-> NoParticipant]]
  /\ journal = [a \in Assignments |-> [u \in Users |-> "none"]]
  /\ members \in SUBSET Users
  /\ inactive = {}
  /\ present = {"video", "group"}
  /\ seen = [u \in Users |-> "none"]
  /\ past = {}
  /\ request = [c \in Clients |-> Idle]

-----------------------------------------------------------------------------
(* Helpers of the service and statements of the repository *)

\* validateDue: a date is in the future, a number of days is within its bounds.
ValidDue(t) == t \in Terms \ past

\* assignmentEnrollsNewcomers: it has its video, and its date is to come.
EnrollsNewcomers(a) == "video" \in present /\ ValidDue(term[a])

\* applyInitialParticipantProgress
InitialStage(u) ==
  CASE seen[u] = "reached" -> "completed"
    [] seen[u] = "some" -> "in_progress"
    [] OTHER -> "assigned"

CanWatch(u) == u \in members \cup Overseers

\* collectCandidateIDs and resolveTargets: which active users are accepted, and
\* from where. A user of the personal list is personal, a member or not.
AcceptedSource(personal, toGroup) ==
  [u \in Users |->
    IF u \in inactive THEN "none"
    ELSE IF u \in personal /\ CanWatch(u) THEN "personal"
    ELSE IF toGroup /\ u \in members THEN "group" ELSE "none"]

IsOpen(a, u) == participant[a][u].status \in Unfinished

\* A slip: those who have begun to watch are not found.
AssignedRows(S) == {p \in S \X Users : participant[p[1]][p[2]].status = "assigned"}

\* The rows of the assignments of S that an UPDATE of unfinished rows finds.
OpenRows(S) == {p \in S \X Users : IsOpen(p[1], p[2])}

Active == {a \in Assignments : assignment[a] = "active"}

\* A slip: every row is overwritten.
ReactivatesAny(status) == TRUE

\* InsertBatch: ON CONFLICT DO UPDATE ... WHERE status = 'cancelled'.
Reactivates(status) == status \in {"none", "cancelled"}

\* A slip: a row that comes back keeps its source.
EnrolKeepingSource(R, source, due, stage) ==
  LET touched == {p \in R : Reactivates(participant[p[1]][p[2]].status)} IN
  /\ participant' = [a \in Assignments |-> [u \in Users |->
       IF <<a, u>> \notin touched THEN participant[a][u]
       ELSE [status |-> stage[u], due |-> due[a],
             source |-> IF participant[a][u] = NoParticipant THEN source[u]
                        ELSE participant[a][u].source]]]
  /\ journal' = [a \in Assignments |-> [u \in Users |->
       IF <<a, u>> \notin touched THEN journal[a][u]
       ELSE IF stage[u] = "completed" THEN "completed" ELSE "enrolled"]]

\* InsertBatch of the rows of R, then their events: participant_enrolled, and
\* participant_completed after it for those who have nothing left to watch.
Enrol(R, source, due, stage) ==
  LET touched == {p \in R : Reactivates(participant[p[1]][p[2]].status)} IN
  /\ participant' = [a \in Assignments |-> [u \in Users |->
       IF <<a, u>> \in touched
       THEN [status |-> stage[u], source |-> source[u], due |-> due[a]]
       ELSE participant[a][u]]]
  /\ journal' = [a \in Assignments |-> [u \in Users |->
       IF <<a, u>> \notin touched THEN journal[a][u]
       ELSE IF stage[u] = "completed" THEN "completed" ELSE "enrolled"]]

\* A slip: events for the rows that were asked for, not for those changed.
WithdrawLoggingAll(R) ==
  /\ participant' = [a \in Assignments |-> [u \in Users |->
       IF <<a, u>> \in R /\ IsOpen(a, u) THEN [participant[a][u] EXCEPT !.status = "cancelled"]
       ELSE participant[a][u]]]
  /\ journal' = [a \in Assignments |-> [u \in Users |->
       IF <<a, u>> \in R THEN "cancelled" ELSE journal[a][u]]]

\* CancelByAssignment, CancelOne and CancelBySourceGroupAndUser on the rows of R,
\* and recordParticipantCancelledEvents for the rows they return.
Withdraw(R) ==
  LET touched == {p \in R : IsOpen(p[1], p[2])} IN
  /\ participant' = [a \in Assignments |-> [u \in Users |->
       IF <<a, u>> \in touched THEN [participant[a][u] EXCEPT !.status = "cancelled"]
       ELSE participant[a][u]]]
  /\ journal' = [a \in Assignments |-> [u \in Users |->
       IF <<a, u>> \in touched THEN "cancelled" ELSE journal[a][u]]]

-----------------------------------------------------------------------------
(* Requests begin: what they check and read *)

Begin(c, req) ==
  /\ request[c] = Idle
  /\ request' = [request EXCEPT ![c] = req]
  /\ UNCHANGED <<rows, members, inactive, present, seen, past>>

\* The statuses the users of U would be enrolled with.
StagesOf(U) == [u \in Users |-> IF u \in U THEN InitialStage(u) ELSE "assigned"]

\* Create up to its INSERT: the video, the term, the targets, their progress.
BeginCreate(c, a, personal, toGroup, t) ==
  /\ assignment[a] = "none"
  /\ \A d \in Clients : request[d].op = "create" => a \notin request[d].on
  /\ present = {"video", "group"}
  /\ ValidDue(t)
  /\ personal # {} \/ toGroup
  /\ LET source == AcceptedSource(personal, toGroup)
         enrolled == {u \in Users : source[u] # "none"}
     IN Begin(c, [Idle EXCEPT !.op = "create", !.on = {a}, !.users = enrolled,
                              !.toGroup = toGroup, !.source = source,
                              !.stage = StagesOf(enrolled), !.terms[a] = t])

\* UpdateDue: refused for a cancelled assignment and for an invalid term.
BeginUpdateDue(c, a, t) ==
  /\ assignment[a] = "active"
  /\ ValidDue(t)
  /\ Begin(c, [Idle EXCEPT !.op = "due", !.on = {a}, !.found = OpenRows({a}), !.terms[a] = t])

BeginCancel(c, a) ==
  /\ assignment[a] = "active"
  /\ Begin(c, [Idle EXCEPT !.op = "cancel", !.on = {a}, !.found = OpenRows({a})])

\* RemoveParticipant: of an active assignment, and not one who has completed it.
BeginRemoveParticipant(c, a, u) ==
  /\ assignment[a] = "active"
  /\ participant[a][u].status \notin {"none", "completed"}
  /\ Begin(c, [Idle EXCEPT !.op = "remove", !.found = {<<a, u>>}])

\* AddMembers and its cascade OnMembersAdded.
BeginAddMembers(c, U) ==
  /\ "group" \in present
  /\ U # {} /\ U \cap members = {}
  /\ LET joined == {a \in Active \cap forGroup : EnrollsNewcomers(a)} IN
     Begin(c, [Idle EXCEPT !.op = "add", !.users = U, !.on = joined,
                           !.source = [u \in Users |-> IF u \in U THEN "group" ELSE "none"],
                           !.stage = StagesOf(U),
                           !.terms = [a \in Assignments |->
                                        IF a \in joined THEN term[a] ELSE "none"]])

\* Delete of the video, and of the group, with OnVideoDeleted and OnGroupDeleted.
BeginDelete(c, what, op) ==
  /\ what \in present
  /\ Begin(c, [Idle EXCEPT !.op = op, !.on = Active, !.found = OpenRows(Active)])

BeginDeleteVideo(c) == BeginDelete(c, "video", "video_deleted")
BeginDeleteGroup(c) == BeginDelete(c, "group", "group_deleted")

-----------------------------------------------------------------------------
(* Requests end *)

Ended(c) == request' = [request EXCEPT ![c] = Idle]

\* An error, a lost connection or a crash; or a WHERE that no longer holds.
Abort(c) ==
  /\ request[c] # Idle
  /\ Ended(c)
  /\ UNCHANGED <<rows, members, inactive, present, seen, past>>

\* The foreign keys refuse an assignment of a deleted video or group.
CommitCreate(c) ==
  LET req == request[c] IN
  /\ req.op = "create"
  /\ present = {"video", "group"}
  /\ assignment' = [a \in Assignments |-> IF a \in req.on THEN "active" ELSE assignment[a]]
  /\ term' = [a \in Assignments |-> IF a \in req.on THEN req.terms[a] ELSE term[a]]
  /\ forGroup' = IF req.toGroup THEN forGroup \cup req.on ELSE forGroup
  /\ Enrol(req.on \X req.users, req.source, req.terms, req.stage)
  /\ Ended(c)
  /\ UNCHANGED <<members, inactive, present, seen, past>>

\* The UPDATE of the assignment does not look at its status, the one of the
\* participants takes the unfinished.
CommitUpdateDue(c) ==
  LET req == request[c] IN
  /\ req.op = "due"
  /\ term' = [a \in Assignments |-> IF a \in req.on THEN req.terms[a] ELSE term[a]]
  /\ participant' = [a \in Assignments |-> [u \in Users |->
       IF <<a, u>> \in req.found /\ IsOpen(a, u)
       THEN [participant[a][u] EXCEPT !.due = req.terms[a]] ELSE participant[a][u]]]
  /\ Ended(c)
  /\ UNCHANGED <<assignment, forGroup, journal, members, inactive, present, seen, past>>

\* A slip: an assignment is cancelled again, for another reason.
CancelAny(S, reason) ==
  assignment' = [a \in Assignments |-> IF a \in S THEN reason ELSE assignment[a]]

\* AssignmentRepository.Cancel: WHERE status = 'active'.
Cancel(S, reason) ==
  assignment' = [a \in Assignments |-> IF a \in S \cap Active THEN reason ELSE assignment[a]]

\* The participants of those assignments that Cancel has cancelled.
WithdrawFrom(S, found) == Withdraw({p \in found : p[1] \in S \cap Active})

CommitCancel(c) ==
  LET req == request[c] IN
  /\ req.op = "cancel"
  /\ req.on \subseteq Active
  /\ Cancel(req.on, "manual")
  /\ WithdrawFrom(req.on, req.found)
  /\ Ended(c)
  /\ UNCHANGED <<term, forGroup, members, inactive, present, seen, past>>

\* CancelOne does not look at the assignment.
CommitRemoveParticipant(c) ==
  LET req == request[c] IN
  /\ req.op = "remove"
  /\ Withdraw(req.found)
  /\ Ended(c)
  /\ UNCHANGED <<assignment, term, forGroup, members, inactive, present, seen, past>>

\* The primary key of group_members refuses a user who has become a member.
CommitAddMembers(c) ==
  LET req == request[c] IN
  /\ req.op = "add"
  /\ "group" \in present
  /\ req.users \cap members = {}
  /\ members' = members \cup req.users
  /\ Enrol(req.on \X req.users, req.source, req.terms, req.stage)
  /\ Ended(c)
  /\ UNCHANGED <<assignment, term, forGroup, inactive, present, seen, past>>

\* cancelAssignments, then the deletion: what Cancel did not find active is skipped.
CommitDelete(c, gone) ==
  LET req == request[c] IN
  /\ Cancel(req.on, req.op)
  /\ WithdrawFrom(req.on, req.found)
  /\ present' = present \ gone
  /\ Ended(c)
  /\ UNCHANGED <<term, forGroup, inactive, seen, past>>

CommitDeleteVideo(c) ==
  /\ request[c].op = "video_deleted"
  /\ CommitDelete(c, {"video"})
  /\ UNCHANGED members

\* DeleteCascade takes the videos and the members with the group.
CommitDeleteGroup(c) ==
  /\ request[c].op = "group_deleted"
  /\ CommitDelete(c, {"video", "group"})
  /\ members' = {}

-----------------------------------------------------------------------------
(* One statement that changes rows, or a step of another component *)

\* A slip: the source of a row is not looked at.
ViaAnySource(u) == {p \in OpenRows(Active) : p[2] = u}

\* CancelBySourceGroupAndUser: rows of active assignments, got through the group.
ViaGroup(u) ==
  {p \in OpenRows(Active) : p[2] = u /\ participant[p[1]][u].source = "group"}

\* RemoveMember with OnMemberRemoved. It takes the lock of the member's row
\* first, and whoever reads meanwhile still sees the member: it is one step.
RemoveMember(c, u) ==
  /\ request[c] = Idle
  /\ u \in members
  /\ members' = members \ {u}
  /\ Withdraw(ViaGroup(u))
  /\ UNCHANGED <<assignment, term, forGroup, inactive, present, seen, past, request>>

\* UserService.Deactivate: the user leaves his groups, without OnMemberRemoved.
Deactivate(c, u) ==
  /\ request[c] = Idle
  /\ u \notin inactive
  /\ inactive' = inactive \cup {u}
  /\ members' = members \ {u}
  /\ UNCHANGED <<rows, present, seen, past, request>>

\* UserService.Reactivate does not bring him back to them.
Reactivate(c, u) ==
  /\ request[c] = Idle
  /\ u \in inactive
  /\ inactive' = inactive \ {u}
  /\ UNCHANGED <<rows, members, present, seen, past, request>>

\* A heartbeat of a user who may watch, as it bears on the participants
\* (WatchProgress has the rest): it writes no event. It finds assignments by
\* their video, and a deleted video has none.
Watch(u, level) ==
  /\ "video" \in present
  /\ CanWatch(u)
  /\ seen[u] # "reached" /\ seen[u] # level
  /\ seen' = [seen EXCEPT ![u] = level]
  /\ participant' = [a \in Assignments |->
       IF a \in Active /\ IsOpen(a, u)
       THEN [participant[a] EXCEPT ![u].status =
               IF level = "reached" THEN "completed" ELSE "in_progress"]
       ELSE participant[a]]
  /\ UNCHANGED <<assignment, term, forGroup, journal, members, inactive, present, past, request>>

TermPasses(d) ==
  /\ d \notin past
  /\ past' = past \cup {d}
  /\ UNCHANGED <<rows, members, inactive, present, seen, request>>

ManagerStep(c) ==
  \/ \E a \in Assignments :
       \/ \E personal \in SUBSET Users, toGroup \in BOOLEAN, t \in Terms :
            BeginCreate(c, a, personal, toGroup, t)
       \/ \E t \in Terms : BeginUpdateDue(c, a, t)
       \/ BeginCancel(c, a)
       \/ \E u \in Users : BeginRemoveParticipant(c, a, u)
  \/ \E u \in Users : RemoveMember(c, u) \/ Deactivate(c, u) \/ Reactivate(c, u)
  \/ \E U \in SUBSET Users : BeginAddMembers(c, U)
  \/ BeginDeleteVideo(c)
  \/ BeginDeleteGroup(c)
  \/ Abort(c)
  \/ CommitCreate(c) \/ CommitUpdateDue(c) \/ CommitCancel(c)
  \/ CommitRemoveParticipant(c) \/ CommitAddMembers(c)
  \/ CommitDeleteVideo(c) \/ CommitDeleteGroup(c)

Next ==
  \/ \E c \in Clients : ManagerStep(c)
  \/ \E u \in Users, level \in {"some", "reached"} : Watch(u, level)
  \/ \E d \in Dates : TermPasses(d)

Spec == Init /\ [][Next]_vars

-----------------------------------------------------------------------------
(* Properties *)

TypeOK ==
  /\ assignment \in [Assignments -> {"none", "active"} \cup Reasons]
  /\ term \in [Assignments -> Terms \cup {"none"}]
  /\ forGroup \subseteq Assignments
  /\ participant \in [Assignments -> [Users -> Participant \cup {NoParticipant}]]
  /\ journal \in [Assignments -> [Users -> {"none", "enrolled", "cancelled", "completed"}]]
  /\ members \subseteq Users /\ inactive \subseteq Users
  /\ present \subseteq {"video", "group"}
  /\ seen \in [Users -> {"none", "some", "reached"}]
  /\ past \subseteq Dates
  /\ request \in [Clients -> Request \cup {Idle}]

Cancelled(a) == assignment[a] \in Reasons

\* Writers append one event per row they changed and none for a row they did not
\* (a row that another transaction had changed meanwhile): the last event of a
\* pair tells its status, except that heartbeats complete without an event.
JournalMatchesRows ==
  \A a \in Assignments, u \in Users :
    LET status == participant[a][u].status IN
    /\ status = "none" <=> journal[a][u] = "none"
    /\ status = "cancelled" <=> journal[a][u] = "cancelled"
    /\ status \in Unfinished => journal[a][u] = "enrolled"

\* What is settled stays (E3-N1): a completed row, its source, term and log
\* never change, and neither does the reason an assignment was cancelled for,
\* whichever requests and cascades meet on them.
SettledIsFinal ==
  [][\A a \in Assignments :
       /\ Cancelled(a) => assignment'[a] = assignment[a]
       /\ \A u \in Users : participant[a][u].status = "completed" =>
            participant'[a][u] = participant[a][u] /\ journal'[a][u] = journal[a][u]]_vars

\* A withdrawn participant comes back only by joining the group (InsertBatch of
\* OnMembersAdded), and then as a participant of the group.
ReopenedByJoining ==
  [][\A a \in Assignments, u \in Users :
       (participant[a][u].status = "cancelled" /\ participant'[a][u].status \in Stages)
       => u \in members' \ members /\ participant'[a][u].source = "group"]_vars

\* Who is removed from the group loses what he got through it and keeps his
\* personal assignments (OnMemberRemoved), in every assignment active then.
LeavingSparesPersonal ==
  [][\A u \in members \ members', a \in Active :
       present' = present /\ inactive' = inactive =>
         LET row == participant[a][u] IN
         /\ row.source = "personal" => participant'[a][u] = row
         /\ row.source = "group" => participant'[a][u].status \notin Unfinished]_vars

\* Cancelling misses nobody who was assigned by Create: the only open rows a
\* cancelled assignment can have are those of newcomers of the group, whom a
\* concurrent OnMembersAdded enrolled.
OnlyNewcomersOutlive ==
  \A a \in Assignments, u \in Users :
    Cancelled(a) /\ IsOpen(a, u) => participant[a][u].source = "group"

\* The rows follow the promised lifecycle.
Promised(status) == IF status \in Reasons THEN "cancelled" ELSE status
Lifecycle ==
  INSTANCE ParticipantLifecycle
    WITH assignment <- [a \in Assignments |-> Promised(assignment[a])],
         stage <- [a \in Assignments |-> [u \in Users |-> participant[a][u].status]]
ImplementsLifecycle == Lifecycle!Spec

-----------------------------------------------------------------------------
(* What the comments promise of the state between requests *)

\* AssignmentService.Cancel, OnVideoDeleted, OnGroupDeleted: "the assignment and
\* all of its unfinished participants become cancelled".
CancelledIsClosed == \A a \in Assignments, u \in Users : Cancelled(a) => ~IsOpen(a, u)

\* OnVideoDeleted comes before the deletion: an active assignment has its video.
ActiveHasVideo == Active # {} => "video" \in present

\* OnMemberRemoved: who is no longer in the group has no open row through it,
\* unless he is deactivated and left out of the reports. But Deactivate takes
\* him out of the group, and Reactivate brings him and his open rows back alone.
GroupRowsAreMembers ==
  \A a \in Active, u \in Users :
    IsOpen(a, u) /\ participant[a][u].source = "group" => u \in members \cup inactive

\* UpdateDue and Create: open participants carry the term of their assignment.
OpenRowsShareTerm ==
  \A a \in Active, u \in Users : IsOpen(a, u) => participant[a][u].due = term[a]

\* One request at a time keeps these three; requests that overlap break each.
SerialPromises == CancelledIsClosed /\ ActiveHasVideo /\ OpenRowsShareTerm
=============================================================================
