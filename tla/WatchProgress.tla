----------------------------- MODULE WatchProgress -----------------------------
(***************************************************************************)
(* The progress of the users on one video: the heartbeats of their players *)
(* (internal/service/watch_progress.go), each of them a transaction, the   *)
(* recount when the length of the video becomes known, the removal of old  *)
(* sessions, and the assignments that are created and cancelled meanwhile. *)
(*                                                                         *)
(* A heartbeat takes its time, reads the video, then waits for the lock of *)
(* the row of progress, and writes at its commit. Intervals are sets of    *)
(* milliseconds. What the player sends, a session, a number and an         *)
(* interval, is picked where the code first uses it.                       *)
(***************************************************************************)
EXTENDS Participation, Integers, FiniteSets

CONSTANTS
  Sessions,                \* session ids, made by the player
  Requests,                \* heartbeats in flight at once
  ToleranceNum, ToleranceDen,   \* watchRateTolerance, 11/10 in the code
  Interval,                \* config video.watch_heartbeat_interval
  Slack,                   \* watchIntervalDurationSlackMs
  ThresholdNum, ThresholdDen,   \* config video.watch_completion_threshold
  CeilExcess,              \* what math.Ceil of the product in float64 has above the share
  Retention,               \* config video.watch_session_retention
  Duration,                \* the length of the video, once known
  MaxPosition,             \* no player sends a position beyond it
  MaxSeq,                  \* watchSessionMaxSeq
  MaxClock                 \* the clock stops here

ASSUME ToleranceAssumption ==
  /\ ToleranceNum \in Nat \ {0} /\ ToleranceDen \in Nat \ {0}
  /\ ToleranceNum >= ToleranceDen
ASSUME ThresholdAssumption ==
  /\ ThresholdNum \in Nat \ {0} /\ ThresholdDen \in Nat \ {0}
  /\ ThresholdNum <= ThresholdDen
\* Where the share is whole, the product may lie just above it, and is rounded up:
\* 0.55 of 3600000 ms is 1980001. Elsewhere the error is too small to matter.
ASSUME CeilAssumption ==
  /\ CeilExcess \in {0, 1}
  /\ CeilExcess = 1 => (ThresholdNum * Duration) % ThresholdDen = 0
ASSUME SizeAssumption ==
  /\ {Interval, Retention, Duration, MaxClock, MaxSeq} \subseteq Nat \ {0}
  /\ {Slack, MaxPosition} \subseteq Nat

VARIABLES
  clock,       \* the time of the service
  video,       \* status of the video: "processing" for queued and compressing
  duration,    \* duration_ms, Unset for NULL
  progress,    \* the row of app.watch_progress of each user, if it is there
  sessions,    \* the row of app.watch_sessions of each id, if it is there
  request,     \* what each heartbeat in flight has read
  creating     \* what Create has read of each assignment's users, before its insert

tables == <<assignment, participant>>
vars == <<assignment, participant, clock, video, duration, progress, sessions, request, creating>>

Times == 1..MaxClock
Milliseconds == 0..(MaxPosition - 1)
Row == [watched : SUBSET Milliseconds, wall : Nat, lastAt : Times, reachedAt : Times \cup {Unset}]
NoRow == [watched |-> {}, wall |-> 0, lastAt |-> Unset, reachedAt |-> Unset]
Session == [user : Users, seq : 0..MaxSeq, lastAt : Times]
NoSession == [user |-> "none", seq |-> 0, lastAt |-> Unset]
Request == [at : {"begun", "inserting", "locked"}, user : Users, now : Times,
            duration : {Unset, Duration}, fresh : BOOLEAN, row : Row \cup {NoRow}]
Idle == [at |-> "idle", user |-> "none", now |-> Unset, duration |-> Unset, fresh |-> FALSE,
         row |-> NoRow]
NotCreating == [u \in Users |-> "none"]

Init ==
  /\ ParticipationInit
  /\ clock = 1
  /\ video = "processing"
  /\ duration = Unset
  /\ progress = [u \in Users |-> NoRow]
  /\ sessions = [s \in Sessions |-> NoSession]
  /\ request = [r \in Requests |-> Idle]
  /\ creating = [a \in Assignments |-> NotCreating]

-----------------------------------------------------------------------------
(* What a heartbeat is worth *)

Least(x, y) == IF x <= y THEN x ELSE y
Elapsed(since, now) == IF since <= now THEN now - since ELSE 0

\* x milliseconds with the tolerance against rewinding, cut to an integer.
Tolerate(x) == (x * ToleranceNum) \div ToleranceDen

\* A slip: the fraction of a millisecond is cut off.
NeedMsCut(d) == (ThresholdNum * d) \div ThresholdDen

\* watchNeedMs: the milliseconds that complete a video of length d.
NeedMs(d) == (ThresholdNum * d + ThresholdDen - 1) \div ThresholdDen + CeilExcess

\* With no length known the need is MaxInt64.
Reaches(covered, d) == d # Unset /\ covered >= NeedMs(d)

\* A slip: last_seq takes the number as it was sent.
SeqAsSent(seq) == seq

\* The number as last_seq keeps it: past the 32 bits it stands still.
Int32FromSeq(seq) == Least(seq, MaxSeq)

Covered(row) == Cardinality(row.watched)

\* How long the interval may be, and how much of it is time at the wall.
AcceptedMs(session, opening, claimed, now) ==
  Least(claimed, Tolerate(IF opening THEN Interval ELSE Elapsed(session.lastAt, now)))

WallDelta(row, fresh, accepted, now) ==
  Least(accepted, IF fresh THEN Tolerate(Interval) ELSE Elapsed(row.lastAt, now))

\* A slip: the allowance decides only whether the interval counts.
GrantedWhole(row, accepted, delta) ==
  IF Tolerate(row.wall + delta) - Covered(row) <= 0 THEN 0 ELSE accepted

\* The milliseconds of the interval that count, and none once the coverage has
\* used up the time at the wall.
GrantedMs(row, accepted, delta) ==
  LET allowance == Tolerate(row.wall + delta) - Covered(row) IN
  IF allowance <= 0 THEN 0 ELSE Least(accepted, allowance)

\* A slip: no coalesce, every heartbeat past the threshold dates it anew.
ApplyAnew(row, from, granted, delta, now, d) ==
  LET watched == row.watched \cup (from .. (from + granted - 1)) IN
  [row EXCEPT !.watched = watched, !.wall = @ + delta, !.lastAt = now,
              !.reachedAt = IF Reaches(Cardinality(watched), d) THEN now ELSE @]

\* watchProgressApplySQL
Apply(row, from, granted, delta, now, d) ==
  LET watched == row.watched \cup (from .. (from + granted - 1)) IN
  [row EXCEPT !.watched = watched, !.wall = @ + delta, !.lastAt = now,
              !.reachedAt = IF @ = Unset /\ Reaches(Cardinality(watched), d) THEN now ELSE @]

-----------------------------------------------------------------------------
(* A heartbeat *)

HasRow(u) == progress[u] # NoRow
Locked(u) == \E r \in Requests : request[r].at = "locked" /\ request[r].user = u

\* s.now() and resolveWatchableVideo
BeginHeartbeat(r, u) ==
  /\ request[r] = Idle
  /\ video # "failed"
  /\ request' = [request EXCEPT ![r] =
       [at |-> "begun", user |-> u, now |-> clock, duration |-> duration, fresh |-> FALSE,
        row |-> NoRow]]
  /\ UNCHANGED <<tables, clock, video, duration, progress, sessions, creating>>

\* The row that the UPDATE of r finds: the one r has inserted, if there was none.
StoredRow(r) ==
  LET u == request[r].user IN
  IF HasRow(u) THEN progress[u]
  ELSE [watched |-> {}, wall |-> 0, lastAt |-> request[r].now, reachedAt |-> Unset]

\* A slip: no FOR UPDATE.
SelectUnlocked(r) ==
  LET u == request[r].user IN
  /\ request[r].at = "begun"
  /\ request' = [request EXCEPT
       ![r].at = IF HasRow(u) THEN "locked" ELSE "inserting",
       ![r].row = progress[u]]
  /\ UNCHANGED <<tables, clock, video, duration, progress, sessions, creating>>

\* SelectForUpdate: a missing row is no lock, and another heartbeat may be
\* about to insert it.
SelectProgress(r) ==
  LET u == request[r].user IN
  /\ request[r].at = "begun"
  /\ HasRow(u) => ~Locked(u)
  /\ request' = [request EXCEPT
       ![r].at = IF HasRow(u) THEN "locked" ELSE "inserting",
       ![r].row = progress[u]]
  /\ UNCHANGED <<tables, clock, video, duration, progress, sessions, creating>>

\* InsertEmpty and the second SelectForUpdate. ON CONFLICT waits for the other
\* inserter; the row counts as new whoever has made it.
InsertProgress(r) ==
  /\ request[r].at = "inserting"
  /\ ~Locked(request[r].user)
  /\ request' = [request EXCEPT ![r].at = "locked", ![r].fresh = TRUE, ![r].row = StoredRow(r)]
  /\ UNCHANGED <<tables, clock, video, duration, progress, sessions, creating>>

\* validateHeartbeatInterval, for the length the heartbeat has read
ValidInterval(r, from, to) ==
  /\ from <= to
  /\ request[r].duration # Unset => to <= request[r].duration + Slack

\* A slip: replays, and sessions of others, are taken.
AnyOwnHeartbeat(r, s, seq) ==
  sessions[s] = NoSession \/ sessions[s].user = request[r].user

\* A session that is there belongs to the user; a number once used is used up.
FreshHeartbeat(r, s, seq) ==
  \/ sessions[s] = NoSession
  \/ sessions[s].user = request[r].user /\ seq > sessions[s].seq

\* finishHeartbeat and applyParticipantTransitions: after is the row that the
\* UPDATE leaves; what it means is decided against the row read before.
Finish(r, s, seq, after, applied) ==
  LET u == request[r].user
      now == request[r].now
      before == request[r].row
      When(transition) == IF applied /\ transition THEN {u} ELSE {}
  IN
  /\ progress' = [progress EXCEPT ![u] = after]
  /\ sessions' = [sessions EXCEPT ![s] =
       [user |-> u, seq |-> Int32FromSeq(seq), lastAt |-> now]]
  /\ Advance(When(Covered(before) = 0 /\ Covered(after) > 0),
             When(before.reachedAt = Unset /\ after.reachedAt # Unset), now)
  /\ request' = [request EXCEPT ![r] = Idle]
  /\ UNCHANGED <<assignment, clock, video, duration, creating>>

\* Heartbeat from the session on, to its commit. One whose rate is above 1 counts
\* as one with an empty interval, which counts for nothing either.
Heartbeat(r, s, seq, from, to) ==
  LET q == request[r]
      accepted == AcceptedMs(sessions[s], sessions[s] = NoSession, to - from, q.now)
      delta == WallDelta(q.row, q.fresh, accepted, q.now)
      granted == IF accepted = 0 THEN 0 ELSE GrantedMs(q.row, accepted, delta)
  IN
  /\ q.at = "locked"
  /\ ValidInterval(r, from, to)
  /\ FreshHeartbeat(r, s, seq)
  /\ Finish(r, s, seq,
       IF granted > 0 THEN Apply(StoredRow(r), from, granted, delta, q.now, q.duration)
       ELSE [StoredRow(r) EXCEPT !.lastAt = q.now],
       granted > 0)

\* A replay is answered with the row as it is, and committed.
ReplayedHeartbeat(r, s, seq) ==
  /\ request[r].at = "locked"
  /\ sessions[s] # NoSession
  /\ sessions[s].user = request[r].user
  /\ seq <= sessions[s].seq
  /\ progress' = [progress EXCEPT ![request[r].user] = StoredRow(r)]
  /\ request' = [request EXCEPT ![r] = Idle]
  /\ UNCHANGED <<tables, clock, video, duration, sessions, creating>>

\* A refused interval, a session of another user, a lost connection.
AbortHeartbeat(r) ==
  /\ request[r] # Idle
  /\ request' = [request EXCEPT ![r] = Idle]
  /\ UNCHANGED <<tables, clock, video, duration, progress, sessions, creating>>

-----------------------------------------------------------------------------
(* The video, the watchdog and the assignments *)

\* Rows of the UPDATE of OnDurationKnown
Crossing(d) == {u \in Users : progress[u].reachedAt = Unset /\ Reaches(Covered(progress[u]), d)}

\* ApplyProcessingCompleted, for a length d the worker has measured, or none.
\* The UPDATE waits for the rows that it finds, and no others.
ProcessingCompleted(d) ==
  /\ video = "processing"
  /\ \A u \in Crossing(d) : ~Locked(u)
  /\ video' = "ready"
  /\ duration' = d
  /\ progress' = [u \in Users |->
       IF u \in Crossing(d) THEN [progress[u] EXCEPT !.reachedAt = clock] ELSE progress[u]]
  /\ Advance({}, Crossing(d), clock)
  /\ UNCHANGED <<assignment, clock, sessions, request, creating>>

ProcessingFailed ==
  /\ video = "processing"
  /\ video' = "failed"
  /\ UNCHANGED <<tables, clock, duration, progress, sessions, request, creating>>

CleanupStaleSessions ==
  LET stale == {s \in Sessions : sessions[s] # NoSession /\ sessions[s].lastAt + Retention < clock}
  IN
  /\ stale # {}
  /\ sessions' = [s \in Sessions |-> IF s \in stale THEN NoSession ELSE sessions[s]]
  /\ UNCHANGED <<tables, clock, video, duration, progress, request, creating>>

\* Create up to InsertBatch: the rows of progress are read and not locked.
ReadForCreate(a) ==
  /\ assignment[a] = "none"
  /\ video # "failed"
  /\ creating[a] = NotCreating
  /\ creating' = [creating EXCEPT ![a] =
       [u \in Users |-> InitialStage(Covered(progress[u]), progress[u].reachedAt)]]
  /\ UNCHANGED <<tables, clock, video, duration, progress, sessions, request>>

CommitCreate(a, enrolled) ==
  /\ creating[a] # NotCreating
  /\ assignment' = [assignment EXCEPT ![a] = "active"]
  /\ InsertBatch(a, enrolled, creating[a])
  /\ creating' = [creating EXCEPT ![a] = NotCreating]
  /\ UNCHANGED <<clock, video, duration, progress, sessions, request>>

CancelAssignment(a) ==
  /\ assignment[a] = "active"
  /\ assignment' = [assignment EXCEPT ![a] = "cancelled"]
  /\ CancelParticipants(a)
  /\ UNCHANGED <<clock, video, duration, progress, sessions, request, creating>>

Tick ==
  /\ clock < MaxClock
  /\ clock' = clock + 1
  /\ UNCHANGED <<tables, video, duration, progress, sessions, request, creating>>

HeartbeatStep(r) ==
  \/ \E u \in Users : BeginHeartbeat(r, u)
  \/ SelectProgress(r)
  \/ InsertProgress(r)
  \/ \E s \in Sessions, seq \in 1..(MaxSeq + 1), from, to \in 0..MaxPosition :
       Heartbeat(r, s, seq, from, to)
  \/ \E s \in Sessions, seq \in 1..(MaxSeq + 1) : ReplayedHeartbeat(r, s, seq)
  \/ AbortHeartbeat(r)

AssignmentStep(a) ==
  \/ ReadForCreate(a)
  \/ \E enrolled \in SUBSET Users : CommitCreate(a, enrolled)
  \/ CancelAssignment(a)

VideoStep ==
  \/ \E d \in {Unset, Duration} : ProcessingCompleted(d)
  \/ ProcessingFailed

Next ==
  \/ \E r \in Requests : HeartbeatStep(r)
  \/ \E a \in Assignments : AssignmentStep(a)
  \/ VideoStep
  \/ CleanupStaleSessions
  \/ Tick

Spec == Init /\ [][Next]_vars

-----------------------------------------------------------------------------
(* Properties *)

\* Every variable has its type; no session is beyond the 32 bits of its column.
TypeOK ==
  /\ assignment \in [Assignments -> AssignmentStatuses]
  /\ participant \in [Assignments -> [Users -> ParticipantRow(Times \cup {Unset})]]
  /\ clock \in Times
  /\ video \in {"processing", "ready", "failed"}
  /\ duration \in {Unset, Duration}
  /\ progress \in [Users -> Row \cup {NoRow}]
  /\ sessions \in [Sessions -> Session \cup {NoSession}]
  /\ request \in [Requests -> Request \cup {Idle}]
  /\ creating \in [Assignments -> [Users -> Stages] \cup {NotCreating}]

\* The wall cap: however heartbeats of several players overlap, repeat and
\* rewind, the coverage is never ahead of the time at the wall by more than
\* the tolerance.
CoverageWithinWall == \A u \in Users : Covered(progress[u]) <= Tolerate(progress[u].wall)

\* A threshold is recorded only for a known length, and a coverage of at least
\* the configured share of it, whether a heartbeat or OnDurationKnown records it.
ReachedIsEarned ==
  \A u \in Users : progress[u].reachedAt # Unset =>
    /\ duration # Unset
    /\ Covered(progress[u]) * ThresholdDen >= duration * ThresholdNum

\* A participant counts as watching, or as done, only if the user's progress
\* says so, and a moment of completion is the moment of the threshold.
ParticipantIsBacked ==
  \A a \in Assignments, u \in Users :
    /\ participant[a][u].status = "in_progress" => Covered(progress[u]) > 0
    /\ participant[a][u].status = "completed" => progress[u].reachedAt # Unset
    /\ participant[a][u].completedAt \in {Unset, progress[u].reachedAt}

\* What is settled stays as it is, whatever is applied, cancelled or recounted
\* later: the moment of the threshold, the row of a participant that is done,
\* and all rows of an assignment that is cancelled.
SettledIsFinal ==
  [][\A u \in Users :
       /\ progress[u].reachedAt # Unset => progress'[u].reachedAt = progress[u].reachedAt
       /\ \A a \in Assignments :
            participant[a][u].status = "completed" \/ assignment[a] = "cancelled"
              => participant'[a][u] = participant[a][u]]_vars

\* What a heartbeat decides on is what its UPDATE will find: neither another
\* heartbeat nor OnDurationKnown writes the row in between.
LockedRowIsCurrent ==
  \A r \in Requests : request[r].at = "locked" => request[r].row = StoredRow(r)

\* A heartbeat that is sent again is not counted again: time at the wall grows
\* only with a session of the user that is new or goes on to a higher number.
WallGrowsBySession ==
  [][\A u \in Users : progress'[u].wall > progress[u].wall =>
       \E s \in Sessions :
         /\ sessions'[s].user = u
         /\ \/ sessions[s] = NoSession
            \/ /\ sessions[s].user = u
               /\ sessions'[s].seq > sessions[s].seq \/ sessions[s].seq = MaxSeq]_vars

\* What viewers, the recount and the two requests do to assignments and their
\* participants follows the lifecycle that Assignments implements as well: a
\* heartbeat starts or completes rows of active assignments, and no others.
Lifecycle ==
  INSTANCE ParticipantLifecycle
    WITH stage <- [a \in Assignments |-> [u \in Users |-> participant[a][u].status]]
ImplementsLifecycle == Lifecycle!Spec

-----------------------------------------------------------------------------
(* What the comments promise, and the code does not keep *)

\* wall_ms is "real (astronomical) time of watching": no more than the clock has
\* gone on, and the interval granted to a first heartbeat.
WallIsReal == \A u \in Users : progress[u].wall <= clock - 1 + Tolerate(Interval)

\* threshold_reached_at, "NULL: not reached yet".
UnreachedIsBelow ==
  \A u \in Users : progress[u] # NoRow /\ progress[u].reachedAt = Unset
    => ~Reaches(Covered(progress[u]), duration)

\* applyInitialParticipantProgress: a user past the threshold is enrolled as
\* "completed with completed_at = the moment the threshold was reached".
CompletedIsDated ==
  \A a \in Assignments, u \in Users :
    participant[a][u].status = "completed" => participant[a][u].completedAt # Unset
=============================================================================
