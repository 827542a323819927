------------------------- MODULE ParticipantLifecycle -------------------------
(***************************************************************************)
(* What mandatory training promises about the status of an assignment and  *)
(* of its participants, whoever writes them: the requests of managers, the *)
(* cascades of groups and videos, and the heartbeats of viewers.           *)
(* Assignments and WatchProgress are shown to implement this module.       *)
(***************************************************************************)
CONSTANTS
  Users,
  Assignments

VARIABLES
  assignment,      \* status of each assignment
  stage            \* status of each pair of an assignment and a user

vars == <<assignment, stage>>

Unfinished == {"assigned", "in_progress"}
Stages == Unfinished \cup {"completed"}

Init ==
  /\ assignment = [a \in Assignments |-> "none"]
  /\ stage = [a \in Assignments |-> [u \in Users |-> "none"]]

\* The rows that move are rows of the assignments of S, and move from one of
\* the statuses of From to one of the statuses of To.
MoveRows(S, From, To) ==
  /\ stage' \in [Assignments -> [Users -> Stages \cup {"none", "cancelled"}]]
  /\ \A a \in Assignments, u \in Users :
       \/ stage'[a][u] = stage[a][u]
       \/ a \in S /\ stage[a][u] \in From /\ stage'[a][u] \in To

Active == {a \in Assignments : assignment[a] = "active"}

Create(a) ==
  /\ assignment[a] = "none"
  /\ assignment' = [assignment EXCEPT ![a] = "active"]
  /\ MoveRows({a}, {"none"}, Stages)

\* Newcomers, and those who come back: a completed row is never enrolled again.
Enrol == MoveRows(Assignments, {"none", "cancelled"}, Stages) /\ UNCHANGED assignment

Start == MoveRows(Active, {"assigned"}, {"in_progress"}) /\ UNCHANGED assignment
Complete == MoveRows(Active, Unfinished, {"completed"}) /\ UNCHANGED assignment

Withdraw == MoveRows(Assignments, Unfinished, {"cancelled"}) /\ UNCHANGED assignment

\* Several assignments at once: the cascade of a deleted video or group.
Close(S) ==
  /\ S \subseteq Active
  /\ assignment' = [a \in Assignments |-> IF a \in S THEN "cancelled" ELSE assignment[a]]
  /\ MoveRows(S, Unfinished, {"cancelled"})

Next ==
  \/ \E a \in Assignments : Create(a)
  \/ Enrol \/ Start \/ Complete \/ Withdraw
  \/ \E S \in SUBSET Assignments : Close(S)

Spec == Init /\ [][Next]_vars
=============================================================================
