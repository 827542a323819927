----------------------------- MODULE Participation -----------------------------
(***************************************************************************)
(* The tables app.assignments and app.assignment_participants for the      *)
(* assignments of one video, and the statements that the services run on   *)
(* them (internal/repository/assignment_participant.go). A row of          *)
(* assignment_participants keeps its status and completed_at; due dates,   *)
(* sources and percents are left out.                                      *)
(***************************************************************************)
EXTENDS Naturals

CONSTANTS
  Users,
  Assignments      \* the assignments that are ever created

VARIABLES
  assignment,      \* status of each row of app.assignments, "none" before it
  participant      \* [status, completedAt] of each pair, status "none" for no row

Unset == 0         \* NULL of a timestamp; the clock starts after it

AssignmentStatuses == {"none", "active", "cancelled"}
Unfinished == {"assigned", "in_progress"}
Stages == Unfinished \cup {"completed"}
ParticipantStatuses == Stages \cup {"none", "cancelled"}
ParticipantRow(Moments) == [status : ParticipantStatuses, completedAt : Moments]

NoParticipant == [status |-> "none", completedAt |-> Unset]

ParticipationInit ==
  /\ assignment = [a \in Assignments |-> "none"]
  /\ participant = [a \in Assignments |-> [u \in Users |-> NoParticipant]]

\* A slip: a row of progress counts as watching.
InitialStageOfAnyRow(covered, reachedAt) ==
  IF reachedAt # Unset THEN "completed"
  ELSE IF covered >= 0 THEN "in_progress" ELSE "assigned"

\* The status a new row gets for what its user has watched so far.
InitialStage(covered, reachedAt) ==
  IF reachedAt # Unset THEN "completed"
  ELSE IF covered > 0 THEN "in_progress" ELSE "assigned"

\* INSERT ... ON CONFLICT DO UPDATE ... WHERE status = 'cancelled': the rows of
\* enrolled, with the status of stage. completed_at is no column of it.
InsertBatch(a, enrolled, stage) ==
  participant' = [participant EXCEPT ![a] = [u \in Users |->
    IF u \in enrolled /\ @[u].status \in {"none", "cancelled"}
    THEN [@[u] EXCEPT !.status = stage[u]] ELSE @[u]]]

\* A slip: the status of the row and of its assignment are not looked at.
AdvanceAnyRow(starting, finishing, now) ==
  participant' = [a \in Assignments |-> [u \in Users |->
    IF u \in finishing THEN [status |-> "completed", completedAt |-> now]
    ELSE IF u \in starting THEN [participant[a][u] EXCEPT !.status = "in_progress"]
    ELSE participant[a][u]]]

\* UpdateStatusByUserVideo from assigned to in_progress for users of starting,
\* CompleteByUserVideo at moment now for users of finishing.
Advance(starting, finishing, now) ==
  participant' = [a \in Assignments |-> [u \in Users |->
    LET row == participant[a][u] IN
    CASE assignment[a] = "active" /\ u \in finishing /\ row.status \in Unfinished ->
           [status |-> "completed", completedAt |-> now]
      [] assignment[a] = "active" /\ u \in starting \ finishing /\ row.status = "assigned" ->
           [row EXCEPT !.status = "in_progress"]
      [] OTHER -> row]]

\* CancelByAssignment
CancelParticipants(a) ==
  participant' = [participant EXCEPT ![a] = [u \in Users |->
    IF @[u].status \in Unfinished THEN [@[u] EXCEPT !.status = "cancelled"] ELSE @[u]]]
=============================================================================
