-------------------------- MODULE WatchProgressProofs --------------------------
(***************************************************************************)
(* The safety properties of WatchProgress for every set of users,          *)
(* sessions, heartbeats in flight and assignments, and every value of the  *)
(* tolerance, the threshold and the length of the video. WInv is the       *)
(* inductive invariant.                                                    *)
(***************************************************************************)
EXTENDS WatchProgress, FiniteSetTheorems, TLAPS

\* The row lock is held by one heartbeat of a user.
OneLock ==
  \A r1, r2 \in Requests :
    /\ request[r1].at = "locked"
    /\ request[r2].at = "locked"
    /\ request[r1].user = request[r2].user
    => r1 = r2

\* The length is set once: a heartbeat that has read one has read this one.
LengthIsFinal ==
  /\ video = "processing" => duration = Unset
  /\ \A r \in Requests : request[r].duration \in {Unset, duration}

\* What Create has read can only have grown since.
CreatingIsBacked ==
  \A a \in Assignments, u \in Users :
    /\ creating[a][u] = "in_progress" => Covered(progress[u]) > 0
    /\ creating[a][u] = "completed" => progress[u].reachedAt # Unset

\* Only an assignment that is not there yet is being created.
CreatingIsNew == \A a \in Assignments : creating[a] # NotCreating => assignment[a] = "none"

CoreInv == TypeOK /\ OneLock /\ LockedRowIsCurrent

WInv ==
  /\ CoreInv
  /\ LengthIsFinal
  /\ CoverageWithinWall
  /\ ReachedIsEarned
  /\ CreatingIsNew
  /\ CreatingIsBacked
  /\ ParticipantIsBacked
-----------------------------------------------------------------------------
(* Numbers and rows *)

LEMMA ConstantTypes ==
  /\ ToleranceNum \in Nat /\ ToleranceDen \in Nat \ {0}
  /\ ThresholdNum \in Nat /\ ThresholdDen \in Nat \ {0}
  /\ Interval \in Nat /\ Retention \in Nat /\ Duration \in Nat \ {0}
  /\ MaxClock \in Nat \ {0} /\ MaxSeq \in Nat \ {0} /\ Slack \in Nat /\ MaxPosition \in Nat
  /\ Times \subseteq Nat /\ Unset \notin Times /\ Unset \in Nat
BY ToleranceAssumption, ThresholdAssumption, SizeAssumption DEF Times, Unset

\* Tolerate gives a natural number, and nothing for nothing.
LEMMA TolerateNat ==
  /\ \A x \in Nat : Tolerate(x) \in Nat
  /\ Tolerate(0) = 0
<1> USE ConstantTypes DEF Tolerate
<1>1. \A x \in Nat : x * ToleranceNum \in Nat
  OBVIOUS
<1>2. \A y \in Nat : y \div ToleranceDen \in Nat
  OBVIOUS
<1>3. 0 \div ToleranceDen = 0
  OBVIOUS
<1>4. 0 * ToleranceNum = 0
  OBVIOUS
<1> QED BY <1>1, <1>2, <1>3, <1>4

\* The need, in whole milliseconds, is at least the share of the length.
LEMMA NeedIsEnough ==
  ASSUME NEW c \in Nat, NEW d \in Nat, c >= NeedMs(d)
  PROVE  c * ThresholdDen >= d * ThresholdNum
<1> DEFINE x == ThresholdNum * d + ThresholdDen - 1
           q == x \div ThresholdDen
<1>1. x \in Nat /\ d * ThresholdNum = ThresholdNum * d
  BY ConstantTypes
<1>2. q \in Nat /\ x < ThresholdDen * q + ThresholdDen
  BY <1>1, ConstantTypes
<1>3. ThresholdDen * q <= ThresholdDen * c
  <2>1. q <= c
    BY <1>2, CeilAssumption DEF NeedMs
  <2> QED
    BY <1>2, <2>1, ConstantTypes
<1>4. ThresholdDen * c = c * ThresholdDen
  BY ConstantTypes
<1> QED BY <1>1, <1>2, <1>3, <1>4, ConstantTypes

\* The watched milliseconds of a row are finitely many.
LEMMA RowSize ==
  ASSUME NEW row \in Row \cup {NoRow}
  PROVE  IsFiniteSet(row.watched) /\ Covered(row) \in Nat
<1>1. row.watched \in SUBSET Milliseconds
  BY DEF Row, NoRow
<1>2. IsFiniteSet(Milliseconds)
  BY FS_Interval, ConstantTypes DEF Milliseconds
<1>3. IsFiniteSet(row.watched)
  BY <1>1, <1>2, FS_Subset
<1> QED BY <1>3, FS_CardinalityType DEF Covered

LEMMA NoRowFacts ==
  /\ NoRow \notin Row
  /\ Covered(NoRow) = 0 /\ NoRow.wall = 0 /\ NoRow.reachedAt = Unset
BY FS_EmptySet, ConstantTypes DEF Row, NoRow, Covered

\* What a heartbeat may do to a row: applied tells whether its interval counts.
Grows(row, after, now, d, applied) ==
  /\ after \in Row
  /\ Covered(row) <= Covered(after)
  /\ row.wall <= after.wall
  /\ row.reachedAt # Unset => after.reachedAt = row.reachedAt
  /\ row.reachedAt = Unset /\ after.reachedAt # Unset =>
       applied /\ after.reachedAt = now /\ Reaches(Covered(after), d)
  /\ ~applied => Covered(after) = Covered(row)

\* The union of the intervals grows by no more than the new one.
LEMMA ApplyGrows ==
  ASSUME NEW row \in Row, NEW from \in Nat, NEW granted \in Nat \ {0},
         from + granted <= MaxPosition, NEW delta \in Nat, NEW now \in Times,
         NEW d \in {Unset, Duration},
         NEW after, after = Apply(row, from, granted, delta, now, d)
  PROVE  /\ Grows(row, after, now, d, TRUE)
         /\ Covered(after) <= Covered(row) + granted
         /\ after.wall = row.wall + delta
<1> DEFINE new == from .. (from + granted - 1)
           watched == row.watched \cup new
           moment == IF row.reachedAt = Unset /\ Reaches(Cardinality(watched), d)
                     THEN now ELSE row.reachedAt
<1>1. new \subseteq Milliseconds
  BY ConstantTypes DEF Milliseconds
<1>2. IsFiniteSet(new) /\ Cardinality(new) = granted
  <2> DEFINE last == from + granted - 1
  <2>1. from \in Int /\ last \in Int /\ ~(from > last) /\ last - from + 1 = granted
    OBVIOUS
  <2> HIDE DEF last
  <2>2. IsFiniteSet(from .. last) /\ Cardinality(from .. last) = granted
    BY <2>1, FS_Interval
  <2> QED BY <2>2 DEF last
<1>3. IsFiniteSet(row.watched) /\ Covered(row) \in Nat
  BY RowSize
<1>4. IsFiniteSet(watched) /\ Cardinality(watched) \in Nat
  BY <1>2, <1>3, FS_Union, FS_CardinalityType
<1>5. Cardinality(watched) <= Covered(row) + granted
  <2>1. IsFiniteSet(row.watched \cap new)
    BY <1>2, FS_Subset
  <2>2. Cardinality(row.watched \cap new) \in Nat
    BY <2>1, FS_CardinalityType
  <2>3. Cardinality(watched) = Covered(row) + granted - Cardinality(row.watched \cap new)
    BY <1>2, <1>3, FS_Union DEF Covered
  <2> QED BY <1>3, <2>2, <2>3
<1>6. Covered(row) <= Cardinality(watched)
  BY <1>4, FS_Subset DEF Covered
<1>7. after = [row EXCEPT !.watched = watched, !.wall = row.wall + delta, !.lastAt = now,
                           !.reachedAt = moment]
  BY Zenon DEF Apply
<1>8. after \in Row
  <2>1. watched \in SUBSET Milliseconds /\ moment \in Times \cup {Unset}
    BY <1>1 DEF Row
  <2>2. row.wall + delta \in Nat
    BY DEF Row
  <2> HIDE DEF watched, moment
  <2> QED BY <1>7, <2>1, <2>2 DEF Row
<1>9. Covered(after) = Cardinality(watched) /\ after.wall = row.wall + delta
      /\ after.reachedAt = moment
  <2> HIDE DEF watched, moment
  <2> QED BY <1>7 DEF Covered, Row
<1>10. Grows(row, after, now, d, TRUE)
  BY <1>6, <1>8, <1>9, ConstantTypes DEF Grows, Row
<1> QED BY <1>5, <1>9, <1>10

\* A heartbeat that does not count moves last_at and nothing else.
LEMMA TouchGrows ==
  ASSUME NEW row \in Row, NEW now \in Times, NEW d
  PROVE  LET after == [row EXCEPT !.lastAt = now] IN
         Grows(row, after, now, d, FALSE) /\ after.wall = row.wall
<1> DEFINE after == [row EXCEPT !.lastAt = now]
<1>1. after \in Row /\ after.watched = row.watched /\ after.wall = row.wall
      /\ after.reachedAt = row.reachedAt
  BY DEF Row
<1>2. Covered(after) = Covered(row) /\ Covered(row) \in Nat /\ row.wall \in Nat
  BY <1>1, RowSize DEF Covered, Row
<1> QED BY <1>1, <1>2 DEF Grows

\* The wall cap: what is granted fits under the time at the wall.
LEMMA GrantedFits ==
  ASSUME NEW row \in Row, NEW accepted \in Nat, NEW delta \in Nat
  PROVE  LET granted == GrantedMs(row, accepted, delta) IN
         /\ granted \in Nat
         /\ granted <= accepted
         /\ granted > 0 => Covered(row) + granted <= Tolerate(row.wall + delta)
<1>1. row.wall + delta \in Nat /\ Covered(row) \in Nat
  BY RowSize DEF Row
<1>2. Tolerate(row.wall + delta) \in Nat
  BY <1>1, TolerateNat
<1> QED BY <1>1, <1>2 DEF GrantedMs, Least

LEMMA AcceptedNat ==
  ASSUME NEW session \in Session \cup {NoSession}, NEW opening \in BOOLEAN,
         NEW claimed \in Nat, NEW now \in Times
  PROVE  /\ AcceptedMs(session, opening, claimed, now) \in Nat
         /\ AcceptedMs(session, opening, claimed, now) <= claimed
<1> DEFINE ms == IF opening THEN Interval ELSE Elapsed(session.lastAt, now)
<1>1. session.lastAt \in Nat /\ now \in Nat
  <2>1. CASE session \in Session
    BY <2>1, ConstantTypes DEF Session
  <2>2. CASE session = NoSession
    BY <2>2, ConstantTypes DEF NoSession
  <2> QED BY <2>1, <2>2
<1>2. ms \in Nat
  BY <1>1, ConstantTypes DEF Elapsed
<1>3. Tolerate(ms) \in Nat
  BY <1>2, TolerateNat
<1> QED BY <1>3 DEF AcceptedMs, Least

LEMMA WallDeltaNat ==
  ASSUME NEW row \in Row, NEW fresh \in BOOLEAN, NEW accepted \in Nat, NEW now \in Times
  PROVE  WallDelta(row, fresh, accepted, now) \in Nat
<1>1. row.lastAt \in Nat /\ now \in Nat
  BY ConstantTypes DEF Row
<1>2. Elapsed(row.lastAt, now) \in Nat /\ Tolerate(Interval) \in Nat
  BY <1>1, TolerateNat, ConstantTypes DEF Elapsed
<1> QED BY <1>2 DEF WallDelta, Least

-----------------------------------------------------------------------------
(* Steps *)

\* A heartbeat that has begun has a user, a time and a length.
LEMMA RequestType ==
  ASSUME TypeOK, NEW r \in Requests, request[r] # Idle
  PROVE  /\ request[r] \in Request
         /\ request[r].user \in Users /\ request[r].now \in Times
         /\ request[r].duration \in {Unset, Duration} /\ request[r].fresh \in BOOLEAN
         /\ request[r].row \in Row \cup {NoRow}
<1>1. request[r] \in Request
  BY DEF TypeOK
<1> QED BY <1>1 DEF Request

LEMMA LockedIsBusy == \A r \in Requests : request[r].at # "idle" => request[r] # Idle
BY DEF Idle

\* The UPDATE of a heartbeat finds a row.
LEMMA StoredIsRow ==
  ASSUME TypeOK, NEW r \in Requests, request[r] # Idle
  PROVE  StoredRow(r) \in Row
<1> DEFINE u == request[r].user
<1>1. u \in Users /\ request[r].now \in Times
  BY RequestType
<1>2. CASE HasRow(u)
  BY <1>1, <1>2 DEF StoredRow, HasRow, TypeOK
<1>3. CASE ~HasRow(u)
  BY <1>1, <1>3, ConstantTypes DEF StoredRow, Row
<1> QED BY <1>2, <1>3

\* It is the row of the user, or an empty one in its place.
LEMMA StoredOrEmpty ==
  ASSUME TypeOK, NEW r \in Requests, request[r] # Idle
  PROVE  LET u == request[r].user IN
         /\ Covered(StoredRow(r)) = Covered(progress[u])
         /\ StoredRow(r).wall = progress[u].wall
         /\ StoredRow(r).reachedAt = progress[u].reachedAt
<1> DEFINE u == request[r].user
<1>1. CASE HasRow(u)
  BY <1>1 DEF StoredRow
<1>2. CASE ~HasRow(u)
  <2>1. StoredRow(r).watched = NoRow.watched /\ StoredRow(r).wall = NoRow.wall
        /\ StoredRow(r).reachedAt = NoRow.reachedAt
    BY <1>2 DEF StoredRow, NoRow
  <2> QED BY <1>2, <2>1 DEF HasRow, Covered
<1> QED BY <1>1, <1>2

\* What Heartbeat does: it ends with a row that has grown, within the wall cap,
\* for the row that was read is the one the UPDATE finds.
LEMMA HeartbeatOutcome ==
  ASSUME TypeOK, LockedRowIsCurrent, NEW r \in Requests, NEW s \in Sessions, NEW seq \in 1..(MaxSeq + 1),
         NEW from \in 0..MaxPosition, NEW to \in 0..MaxPosition,
         Heartbeat(r, s, seq, from, to)
  PROVE  \E after \in Row, applied \in BOOLEAN :
           /\ Finish(r, s, seq, after, applied)
           /\ Grows(StoredRow(r), after, request[r].now, request[r].duration, applied)
           /\ Covered(StoredRow(r)) <= Tolerate(StoredRow(r).wall)
                => Covered(after) <= Tolerate(after.wall)
<1> DEFINE q == request[r]
           stored == StoredRow(r)
           accepted == AcceptedMs(sessions[s], sessions[s] = NoSession, to - from, q.now)
           delta == WallDelta(q.row, q.fresh, accepted, q.now)
           granted == IF accepted = 0 THEN 0 ELSE GrantedMs(q.row, accepted, delta)
<1>1. q.at = "locked" /\ from <= to /\ q # Idle
  BY DEF Heartbeat, ValidInterval, Idle
<1>2. q.now \in Times /\ q.duration \in {Unset, Duration} /\ q.fresh \in BOOLEAN
  BY <1>1, RequestType
<1>3. stored \in Row
  BY <1>1, StoredIsRow
<1>4. q.row = stored
  BY <1>1 DEF LockedRowIsCurrent
<1>5. from \in Nat /\ to \in Nat /\ to - from \in Nat /\ to <= MaxPosition
  BY <1>1, ConstantTypes
<1>6. accepted \in Nat /\ accepted <= to - from
  <2>1. sessions[s] \in Session \cup {NoSession}
    BY DEF TypeOK
  <2> QED BY <2>1, <1>2, <1>5, AcceptedNat, Zenon
<1>0. Finish(r, s, seq,
        IF granted > 0 THEN Apply(stored, from, granted, delta, q.now, q.duration)
        ELSE [stored EXCEPT !.lastAt = q.now],
        granted > 0)
  BY Zenon DEF Heartbeat
<1>7. CASE granted > 0
  <2> DEFINE after == Apply(stored, from, granted, delta, q.now, q.duration)
  <2>1. Finish(r, s, seq, after, TRUE)
    <3> HIDE DEF granted, delta, stored, q
    <3> QED BY <1>0, <1>7
  <2>2. delta \in Nat
    BY <1>2, <1>3, <1>4, <1>6, WallDeltaNat
  <2>3. granted = GrantedMs(stored, accepted, delta)
    BY <1>4, <1>7
  <2> HIDE DEF delta, accepted, stored, granted
  <2>4. /\ granted \in Nat /\ granted <= accepted
        /\ Covered(stored) + granted <= Tolerate(stored.wall + delta)
    BY <1>3, <1>6, <1>7, <2>2, <2>3, GrantedFits
  <2>5. granted \in Nat \ {0} /\ from + granted <= MaxPosition
    BY <1>5, <1>6, <1>7, <2>4, ConstantTypes
  <2>6. /\ Grows(stored, after, q.now, q.duration, TRUE)
        /\ Covered(after) <= Covered(stored) + granted
        /\ after.wall = stored.wall + delta
    <3> DEFINE now == q.now
               d == q.duration
    <3>1. now \in Times /\ d \in {Unset, Duration}
      BY <1>2
    <3>2. stored \in Row /\ from \in Nat /\ after = Apply(stored, from, granted, delta, now, d)
      BY <1>3, <1>5
    <3> HIDE DEF now, d, after, q
    <3>3. Grows(stored, after, now, d, TRUE)
      BY <2>2, <2>5, <3>1, <3>2, ApplyGrows, Zenon
    <3>4. Covered(after) <= Covered(stored) + granted
      BY <2>2, <2>5, <3>1, <3>2, ApplyGrows, Zenon
    <3>5. after.wall = stored.wall + delta
      BY <3>2 DEF Apply, Row
    <3> QED BY <3>3, <3>4, <3>5 DEF now, d
  <2> HIDE DEF after
  <2>7. after \in Row
    BY <2>6 DEF Grows
  <2>8. Covered(after) <= Tolerate(after.wall)
    <3>1. Covered(after) \in Nat /\ Covered(stored) \in Nat
      BY <1>3, <2>7, RowSize
    <3>2. stored.wall + delta \in Nat
      BY <1>3, <2>2 DEF Row
    <3>3. Tolerate(stored.wall + delta) \in Nat
      BY <3>2, TolerateNat
    <3> QED BY <2>4, <2>6, <3>1, <3>3
  <2> QED BY <2>1, <2>6, <2>7, <2>8 DEF stored
<1>8. CASE ~(granted > 0)
  <2> DEFINE after == [stored EXCEPT !.lastAt = q.now]
  <2>1. Finish(r, s, seq, after, FALSE)
    <3> HIDE DEF granted, delta, stored, q
    <3>1. (granted > 0) = FALSE
      BY <1>8
    <3> QED BY <1>0, <3>1
  <2> HIDE DEF stored
  <2>2. Grows(stored, after, q.now, q.duration, FALSE) /\ after.wall = stored.wall
    BY <1>2, <1>3, TouchGrows, Zenon
  <2>3. after \in Row /\ Covered(after) = Covered(stored)
    BY <2>2 DEF Grows
  <2> QED BY <2>1, <2>2, <2>3 DEF stored
<1> QED BY <1>7, <1>8

\* What Advance may do to the row of one participant.
Advanced(a, u, starting, finishing, now) ==
  \/ participant'[a][u] = participant[a][u]
  \/ /\ u \in finishing
     /\ assignment[a] = "active"
     /\ participant[a][u].status \in Unfinished
     /\ participant'[a][u].status = "completed"
     /\ participant'[a][u].completedAt = now
  \/ /\ u \in starting \ finishing
     /\ assignment[a] = "active"
     /\ participant[a][u].status = "assigned"
     /\ participant'[a][u].status = "in_progress"
     /\ participant'[a][u].completedAt = participant[a][u].completedAt

LEMMA AdvanceRows ==
  ASSUME TypeOK, NEW starting, NEW finishing, NEW now \in Times,
         Advance(starting, finishing, now)
  PROVE  /\ participant' \in [Assignments -> [Users -> ParticipantRow(Times \cup {Unset})]]
         /\ \A a \in Assignments, u \in Users : Advanced(a, u, starting, finishing, now)
<1> DEFINE Next2(a, u) ==
      LET row == participant[a][u] IN
      CASE assignment[a] = "active" /\ u \in finishing /\ row.status \in Unfinished ->
             [status |-> "completed", completedAt |-> now]
        [] assignment[a] = "active" /\ u \in starting \ finishing /\ row.status = "assigned" ->
             [row EXCEPT !.status = "in_progress"]
        [] OTHER -> row
<1>1. participant' = [a \in Assignments |-> [u \in Users |-> Next2(a, u)]]
  BY Zenon DEF Advance
<1>2. ASSUME NEW a \in Assignments, NEW u \in Users
      PROVE  /\ Next2(a, u) \in ParticipantRow(Times \cup {Unset})
             /\ participant'[a][u] = Next2(a, u)
             /\ Advanced(a, u, starting, finishing, now)
  <2>1. participant'[a][u] = Next2(a, u)
    BY <1>1
  <2>2. participant[a][u] \in ParticipantRow(Times \cup {Unset})
    BY DEF TypeOK
  <2>3. CASE assignment[a] = "active" /\ u \in finishing /\ participant[a][u].status \in Unfinished
    <3>1. Next2(a, u) = [status |-> "completed", completedAt |-> now]
      BY <2>3
    <3> QED BY <2>1, <2>3, <3>1 DEF Advanced, ParticipantRow, ParticipantStatuses, Stages
  <2>4. CASE /\ ~(assignment[a] = "active" /\ u \in finishing
                    /\ participant[a][u].status \in Unfinished)
             /\ assignment[a] = "active" /\ u \in starting \ finishing
             /\ participant[a][u].status = "assigned"
    <3>1. Next2(a, u) = [participant[a][u] EXCEPT !.status = "in_progress"]
      BY <2>4
    <3> QED BY <2>1, <2>2, <2>4, <3>1
            DEF Advanced, ParticipantRow, ParticipantStatuses, Stages, Unfinished
  <2>5. CASE /\ ~(assignment[a] = "active" /\ u \in finishing
                    /\ participant[a][u].status \in Unfinished)
             /\ ~(assignment[a] = "active" /\ u \in starting \ finishing
                    /\ participant[a][u].status = "assigned")
    <3>1. Next2(a, u) = participant[a][u]
      BY <2>5
    <3> QED BY <2>1, <2>2, <3>1 DEF Advanced
  <2> QED BY <2>1, <2>3, <2>4, <2>5
<1> HIDE DEF Next2
<1>3. participant' \in [Assignments -> [Users -> ParticipantRow(Times \cup {Unset})]]
  BY <1>1, <1>2
<1> QED BY <1>2, <1>3

\* The locks, when a heartbeat r ends: its row is free, and no other changes.
LEMMA EndOfHeartbeat ==
  ASSUME CoreInv, NEW r \in Requests, request[r].at = "locked", NEW after \in Row,
         progress' = [progress EXCEPT ![request[r].user] = after],
         request' = [request EXCEPT ![r] = Idle]
  PROVE  /\ progress' \in [Users -> Row \cup {NoRow}]
         /\ request' \in [Requests -> Request \cup {Idle}]
         /\ OneLock' /\ LockedRowIsCurrent'
<1> USE DEF CoreInv
<1>1. request[r].user \in Users
  BY LockedIsBusy, RequestType
<1>2. progress' \in [Users -> Row \cup {NoRow}] /\ request' \in [Requests -> Request \cup {Idle}]
  BY <1>1 DEF TypeOK
<1>3. \A r2 \in Requests : request'[r2].at = "locked" => r2 # r /\ request'[r2] = request[r2]
  BY DEF TypeOK, Idle
<1>4. OneLock'
  BY <1>3 DEF OneLock
<1>5. ASSUME NEW r2 \in Requests, request'[r2].at = "locked"
      PROVE  request'[r2].row = StoredRow(r2)'
  <2>1. request'[r2] = request[r2] /\ r2 # r /\ request[r2].at = "locked"
    BY <1>3, <1>5
  <2>2. request[r2].user \in Users /\ request[r2].user # request[r].user
    BY <2>1, LockedIsBusy, RequestType DEF OneLock
  <2>3. progress'[request[r2].user] = progress[request[r2].user]
    BY <1>1, <2>2 DEF TypeOK
  <2> QED BY <2>1, <2>3 DEF LockedRowIsCurrent, StoredRow, HasRow
<1> QED BY <1>2, <1>4, <1>5 DEF LockedRowIsCurrent

\* The locks, when a heartbeat r goes on and no row is written: if it takes the
\* lock nobody else has it, and it has read the row.
LEMMA ProgressOfHeartbeat ==
  ASSUME CoreInv, NEW r \in Requests, NEW q \in Request \cup {Idle},
         request' = [request EXCEPT ![r] = q], progress' = progress,
         q.at = "locked" => /\ ~Locked(q.user)
                            /\ q.row = StoredRow(r)
                            /\ q.user = request[r].user /\ q.now = request[r].now
  PROVE  /\ request' \in [Requests -> Request \cup {Idle}]
         /\ OneLock' /\ LockedRowIsCurrent'
<1> USE DEF CoreInv
<1>1. request' \in [Requests -> Request \cup {Idle}] /\ request'[r] = q
  BY DEF TypeOK
<1>2. \A r2 \in Requests : r2 # r => request'[r2] = request[r2]
  BY DEF TypeOK
<1>3. OneLock'
  BY <1>1, <1>2 DEF OneLock, Locked
<1>4. LockedRowIsCurrent'
  BY <1>1, <1>2 DEF LockedRowIsCurrent, StoredRow, HasRow
<1> QED BY <1>1, <1>3, <1>4

\* What TypeOK says of all but the requests and the rows of progress.
TypeRest ==
  /\ assignment \in [Assignments -> AssignmentStatuses]
  /\ participant \in [Assignments -> [Users -> ParticipantRow(Times \cup {Unset})]]
  /\ clock \in Times
  /\ video \in {"processing", "ready", "failed"}
  /\ duration \in {Unset, Duration}
  /\ sessions \in [Sessions -> Session \cup {NoSession}]
  /\ creating \in [Assignments -> [Users -> Stages] \cup {NotCreating}]

LEMMA TypeParts ==
  TypeOK <=> /\ TypeRest
             /\ progress \in [Users -> Row \cup {NoRow}]
             /\ request \in [Requests -> Request \cup {Idle}]
BY DEF TypeOK, TypeRest

LEMMA CoreBegin ==
  ASSUME CoreInv, NEW r \in Requests, NEW u \in Users, BeginHeartbeat(r, u)
  PROVE  CoreInv'
<1> DEFINE q == [at |-> "begun", user |-> u, now |-> clock, duration |-> duration,
                 fresh |-> FALSE, row |-> NoRow]
<1>1. request' = [request EXCEPT ![r] = q] /\ progress' = progress /\ TypeRest'
  BY DEF BeginHeartbeat, CoreInv, TypeOK, TypeRest, tables
<1>2. q \in Request /\ q.at # "locked"
  BY DEF CoreInv, TypeOK, Request
<1> HIDE DEF q
<1>3. request' \in [Requests -> Request \cup {Idle}] /\ OneLock' /\ LockedRowIsCurrent'
  BY <1>1, <1>2, ProgressOfHeartbeat
<1> QED BY <1>1, <1>3, TypeParts DEF CoreInv, TypeOK, TypeRest

LEMMA CoreSelect ==
  ASSUME CoreInv, NEW r \in Requests, SelectProgress(r)
  PROVE  CoreInv'
<1> DEFINE u == request[r].user
           q == [request[r] EXCEPT !.at = IF HasRow(u) THEN "locked" ELSE "inserting",
                                   !.row = progress[u]]
<1>1. request[r] # Idle /\ request[r].at = "begun"
  BY DEF SelectProgress, Idle
<1>2. request[r] \in Request /\ u \in Users
  BY <1>1, RequestType DEF CoreInv
<1>3. request' = [request EXCEPT ![r] = q] /\ progress' = progress /\ TypeRest'
  BY DEF SelectProgress, CoreInv, TypeOK, TypeRest, tables
<1>4. progress[u] \in Row \cup {NoRow}
  BY <1>2 DEF CoreInv, TypeOK
<1>5. q \in Request /\ q.user = u /\ q.now = request[r].now /\ q.row = progress[u]
      /\ (q.at = "locked" <=> HasRow(u))
  BY <1>2, <1>4 DEF Request
<1>6. HasRow(u) => ~Locked(u) /\ progress[u] = StoredRow(r)
  BY DEF SelectProgress, StoredRow
<1> HIDE DEF q
<1>7. request' \in [Requests -> Request \cup {Idle}] /\ OneLock' /\ LockedRowIsCurrent'
  BY <1>3, <1>5, <1>6, ProgressOfHeartbeat
<1> QED BY <1>3, <1>7, TypeParts DEF CoreInv, TypeOK, TypeRest

LEMMA CoreInsert ==
  ASSUME CoreInv, NEW r \in Requests, InsertProgress(r)
  PROVE  CoreInv'
<1> DEFINE q == [request[r] EXCEPT !.at = "locked", !.fresh = TRUE, !.row = StoredRow(r)]
<1>1. request[r] # Idle /\ ~Locked(request[r].user)
  BY DEF InsertProgress, Idle
<1>2. request[r] \in Request
  BY <1>1, RequestType DEF CoreInv
<1>3. request' = [request EXCEPT ![r] = q] /\ progress' = progress /\ TypeRest'
  BY DEF InsertProgress, CoreInv, TypeOK, TypeRest, tables
<1>4. StoredRow(r) \in Row
  BY <1>1, StoredIsRow DEF CoreInv
<1>5. q \in Request /\ q.user = request[r].user /\ q.now = request[r].now /\ q.row = StoredRow(r)
  BY <1>2, <1>4 DEF Request
<1> HIDE DEF q
<1>6. request' \in [Requests -> Request \cup {Idle}] /\ OneLock' /\ LockedRowIsCurrent'
  BY <1>1, <1>3, <1>5, ProgressOfHeartbeat
<1> QED BY <1>3, <1>6, TypeParts DEF CoreInv, TypeOK, TypeRest

LEMMA CoreAbort ==
  ASSUME CoreInv, NEW r \in Requests, AbortHeartbeat(r)
  PROVE  CoreInv'
<1>1. request' = [request EXCEPT ![r] = Idle] /\ progress' = progress /\ TypeRest'
  BY DEF AbortHeartbeat, CoreInv, TypeOK, TypeRest, tables
<1>2. Idle.at # "locked"
  BY DEF Idle
<1>3. request' \in [Requests -> Request \cup {Idle}] /\ OneLock' /\ LockedRowIsCurrent'
  BY <1>1, <1>2, ProgressOfHeartbeat
<1> QED BY <1>1, <1>3, TypeParts DEF CoreInv, TypeOK, TypeRest

LEMMA CoreReplayed ==
  ASSUME CoreInv, NEW r \in Requests, NEW s \in Sessions, NEW seq, ReplayedHeartbeat(r, s, seq)
  PROVE  CoreInv'
<1>1. request[r].at = "locked" /\ StoredRow(r) \in Row
  BY LockedIsBusy, StoredIsRow DEF ReplayedHeartbeat, CoreInv
<1>2. /\ progress' = [progress EXCEPT ![request[r].user] = StoredRow(r)]
      /\ request' = [request EXCEPT ![r] = Idle] /\ TypeRest'
  BY DEF ReplayedHeartbeat, CoreInv, TypeOK, TypeRest, tables
<1>3. /\ progress' \in [Users -> Row \cup {NoRow}]
      /\ request' \in [Requests -> Request \cup {Idle}] /\ OneLock' /\ LockedRowIsCurrent'
  BY <1>1, <1>2, EndOfHeartbeat
<1> QED BY <1>2, <1>3, TypeParts DEF CoreInv, TypeOK, TypeRest

LEMMA CoreHeartbeat ==
  ASSUME CoreInv, NEW r \in Requests, NEW s \in Sessions, NEW seq \in 1..(MaxSeq + 1),
         NEW from \in 0..MaxPosition, NEW to \in 0..MaxPosition,
         Heartbeat(r, s, seq, from, to)
  PROVE  CoreInv'
<1>1. request[r].at = "locked" /\ request[r].user \in Users /\ request[r].now \in Times
  BY LockedIsBusy, RequestType DEF Heartbeat, CoreInv
<1>2. PICK after \in Row, applied \in BOOLEAN : Finish(r, s, seq, after, applied)
  BY HeartbeatOutcome DEF CoreInv
<1>3. /\ progress' = [progress EXCEPT ![request[r].user] = after]
      /\ request' = [request EXCEPT ![r] = Idle]
  BY <1>2 DEF Finish
<1>4. TypeRest'
  <2>1. participant' \in [Assignments -> [Users -> ParticipantRow(Times \cup {Unset})]]
    BY <1>1, <1>2, AdvanceRows DEF Finish, CoreInv
  <2>2. sessions' \in [Sessions -> Session \cup {NoSession}]
    <3>1. Int32FromSeq(seq) \in 0..MaxSeq
      BY ConstantTypes DEF Int32FromSeq, Least
    <3> QED BY <1>1, <1>2, <3>1 DEF Finish, Session, CoreInv, TypeOK
  <2> QED BY <1>2, <2>1, <2>2 DEF Finish, CoreInv, TypeOK, TypeRest
<1>5. /\ progress' \in [Users -> Row \cup {NoRow}]
      /\ request' \in [Requests -> Request \cup {Idle}] /\ OneLock' /\ LockedRowIsCurrent'
  BY <1>1, <1>3, EndOfHeartbeat
<1> QED BY <1>4, <1>5, TypeParts DEF CoreInv, TypeOK, TypeRest

\* Some watching is needed to complete a video, so an empty row never crosses.
LEMMA NeedPositive == ~Reaches(0, Duration)
<1>1. Duration * ThresholdNum > 0
  <2>1. Duration \in Nat /\ Duration > 0 /\ ThresholdNum \in Nat /\ ThresholdNum > 0
    BY ConstantTypes, ThresholdAssumption
  <2> QED BY <2>1
<1>2. 0 * ThresholdDen = 0
  BY ConstantTypes
<1>3. SUFFICES ASSUME 0 >= NeedMs(Duration) PROVE FALSE
  BY DEF Reaches
<1>4. 0 * ThresholdDen >= Duration * ThresholdNum
  BY <1>3, NeedIsEnough, ConstantTypes
<1> QED BY <1>1, <1>2, <1>4, ConstantTypes

\* The recount dates the rows that cross, and changes nothing else of any row.
LEMMA RecountedRows ==
  ASSUME TypeOK, NEW d \in {Unset, Duration}, ProcessingCompleted(d)
  PROVE  /\ progress' \in [Users -> Row \cup {NoRow}]
         /\ \A u \in Users :
              /\ Covered(progress'[u]) = Covered(progress[u])
              /\ progress'[u].wall = progress[u].wall
              /\ u \notin Crossing(d) => progress'[u] = progress[u]
              /\ u \in Crossing(d) => progress'[u].reachedAt = clock
<1>1. ASSUME NEW u \in Users
      PROVE  /\ progress'[u] \in Row \cup {NoRow}
             /\ Covered(progress'[u]) = Covered(progress[u])
             /\ progress'[u].wall = progress[u].wall
             /\ u \notin Crossing(d) => progress'[u] = progress[u]
             /\ u \in Crossing(d) => progress'[u].reachedAt = clock
  <2>1. progress[u] \in Row \cup {NoRow} /\ clock \in Times
    BY DEF TypeOK
  <2>2. CASE u \in Crossing(d)
    <3>1. Reaches(Covered(progress[u]), d) /\ d = Duration
      BY <2>2 DEF Crossing, Reaches
    <3>2. progress[u] \in Row
      BY <2>1, <3>1, NeedPositive, NoRowFacts
    <3>3. progress'[u] = [progress[u] EXCEPT !.reachedAt = clock]
      BY <2>2 DEF ProcessingCompleted
    <3>4. /\ progress'[u] \in Row /\ progress'[u].watched = progress[u].watched
          /\ progress'[u].wall = progress[u].wall /\ progress'[u].reachedAt = clock
      BY <2>1, <3>2, <3>3 DEF Row
    <3> QED BY <2>2, <3>4 DEF Covered
  <2>3. CASE u \notin Crossing(d)
    <3>1. progress'[u] = progress[u]
      BY <2>3 DEF ProcessingCompleted
    <3> QED BY <2>1, <2>3, <3>1
  <2> QED BY <2>2, <2>3
<1>2. progress' \in [Users -> Row \cup {NoRow}]
  BY <1>1 DEF ProcessingCompleted
<1> QED BY <1>1, <1>2

LEMMA CoreCompleted ==
  ASSUME CoreInv, NEW d \in {Unset, Duration}, ProcessingCompleted(d)
  PROVE  CoreInv'
<1> USE DEF CoreInv
<1>1. progress' \in [Users -> Row \cup {NoRow}] /\ request' = request
  BY RecountedRows DEF ProcessingCompleted
<1>2. TypeRest'
  <2>1. participant' \in [Assignments -> [Users -> ParticipantRow(Times \cup {Unset})]]
    <3>1. clock \in Times /\ Advance({}, Crossing(d), clock)
      BY DEF ProcessingCompleted, TypeOK
    <3> QED BY <3>1, AdvanceRows
  <2> QED BY <2>1 DEF ProcessingCompleted, TypeOK, TypeRest
<1>3. LockedRowIsCurrent'
  <2> SUFFICES ASSUME NEW r \in Requests, request[r].at = "locked"
               PROVE  request[r].row = StoredRow(r)'
    BY <1>1 DEF LockedRowIsCurrent
  <2>1. request[r].user \in Users
    BY LockedIsBusy, RequestType
  <2>2. request[r].user \notin Crossing(d)
    BY <2>1 DEF ProcessingCompleted, Locked, Crossing
  <2>3. progress'[request[r].user] = progress[request[r].user]
    BY <2>1, <2>2, RecountedRows
  <2> QED BY <1>1, <2>3 DEF LockedRowIsCurrent, StoredRow, HasRow
<1>4. TypeOK'
  BY <1>1, <1>2, TypeParts DEF TypeOK, TypeRest
<1>5. OneLock'
  BY <1>1 DEF OneLock
<1> QED BY <1>3, <1>4, <1>5

LEMMA RowWithStatus ==
  ASSUME NEW Moments, NEW row \in ParticipantRow(Moments), NEW status \in ParticipantStatuses
  PROVE  [row EXCEPT !.status = status] \in ParticipantRow(Moments)
BY DEF ParticipantRow

LEMMA CoreAssignments ==
  ASSUME CoreInv, NEW a \in Assignments, AssignmentStep(a)
  PROVE  CoreInv'
<1> USE DEF CoreInv
<1>1. progress' = progress /\ request' = request /\ UNCHANGED <<clock, video, duration, sessions>>
  BY DEF AssignmentStep, ReadForCreate, CommitCreate, CancelAssignment
<1>2. /\ assignment' \in [Assignments -> AssignmentStatuses]
      /\ creating' \in [Assignments -> [Users -> Stages] \cup {NotCreating}]
  <2>1. CASE ReadForCreate(a)
    <3>1. \A u \in Users : InitialStage(Covered(progress[u]), progress[u].reachedAt) \in Stages
      BY DEF InitialStage, Stages, Unfinished
    <3> QED BY <2>1, <3>1 DEF ReadForCreate, TypeOK, tables
  <2>2. CASE \E enrolled \in SUBSET Users : CommitCreate(a, enrolled)
    BY <2>2 DEF CommitCreate, TypeOK, AssignmentStatuses
  <2>3. CASE CancelAssignment(a)
    BY <2>3 DEF CancelAssignment, TypeOK, AssignmentStatuses
  <2> QED BY <2>1, <2>2, <2>3 DEF AssignmentStep
<1>3. participant' \in [Assignments -> [Users -> ParticipantRow(Times \cup {Unset})]]
  <2>1. CASE ReadForCreate(a)
    BY <2>1 DEF ReadForCreate, TypeOK, tables
  <2>2. ASSUME NEW enrolled \in SUBSET Users, CommitCreate(a, enrolled)
        PROVE  participant' \in [Assignments -> [Users -> ParticipantRow(Times \cup {Unset})]]
    <3> DEFINE rows == [u \in Users |->
                 IF u \in enrolled /\ participant[a][u].status \in {"none", "cancelled"}
                 THEN [participant[a][u] EXCEPT !.status = creating[a][u]] ELSE participant[a][u]]
    <3>1. \A u \in Users : creating[a][u] \in ParticipantStatuses
      BY <2>2 DEF CommitCreate, TypeOK, ParticipantStatuses
    <3>2. ASSUME NEW u \in Users PROVE rows[u] \in ParticipantRow(Times \cup {Unset})
      <4>1. participant[a][u] \in ParticipantRow(Times \cup {Unset})
        BY DEF TypeOK
      <4>2. [participant[a][u] EXCEPT !.status = creating[a][u]] \in ParticipantRow(Times \cup {Unset})
        BY <3>1, <4>1, RowWithStatus
      <4> QED BY <4>1, <4>2
    <3>3. participant' = [participant EXCEPT ![a] = rows]
      BY <2>2 DEF CommitCreate, InsertBatch, TypeOK
    <3>4. rows \in [Users -> ParticipantRow(Times \cup {Unset})]
      BY <3>2
    <3> HIDE DEF rows
    <3> QED BY <3>3, <3>4 DEF TypeOK
  <2>3. CASE CancelAssignment(a)
    <3> DEFINE rows == [u \in Users |->
                 IF participant[a][u].status \in Unfinished
                 THEN [participant[a][u] EXCEPT !.status = "cancelled"] ELSE participant[a][u]]
    <3>1. ASSUME NEW u \in Users PROVE rows[u] \in ParticipantRow(Times \cup {Unset})
      <4>1. participant[a][u] \in ParticipantRow(Times \cup {Unset})
        BY DEF TypeOK
      <4>2. "cancelled" \in ParticipantStatuses
        BY DEF ParticipantStatuses
      <4>3. [participant[a][u] EXCEPT !.status = "cancelled"] \in ParticipantRow(Times \cup {Unset})
        BY <4>1, <4>2, RowWithStatus
      <4> QED BY <4>1, <4>3
    <3>2. participant' = [participant EXCEPT ![a] = rows]
      BY <2>3 DEF CancelAssignment, CancelParticipants, TypeOK
    <3>3. rows \in [Users -> ParticipantRow(Times \cup {Unset})]
      BY <3>1
    <3> HIDE DEF rows
    <3> QED BY <3>2, <3>3 DEF TypeOK
  <2> QED BY <2>1, <2>2, <2>3 DEF AssignmentStep
<1>4. LockedRowIsCurrent' /\ OneLock'
  BY <1>1 DEF LockedRowIsCurrent, OneLock, StoredRow, HasRow
<1> QED BY <1>1, <1>2, <1>3, <1>4 DEF TypeOK

LEMMA CoreOthers ==
  ASSUME CoreInv, ProcessingFailed \/ CleanupStaleSessions \/ Tick \/ UNCHANGED vars
  PROVE  CoreInv'
<1> USE DEF CoreInv
<1>1. progress' = progress /\ request' = request
  BY DEF ProcessingFailed, CleanupStaleSessions, Tick, vars
<1>2. LockedRowIsCurrent' /\ OneLock'
  BY <1>1 DEF LockedRowIsCurrent, OneLock, StoredRow, HasRow
<1>3. TypeRest'
  <2>1. CASE ProcessingFailed
    BY <2>1 DEF ProcessingFailed, TypeOK, TypeRest, tables
  <2>2. CASE CleanupStaleSessions
    <3>1. sessions' \in [Sessions -> Session \cup {NoSession}]
      BY <2>2 DEF CleanupStaleSessions, TypeOK
    <3> QED BY <2>2, <3>1 DEF CleanupStaleSessions, TypeOK, TypeRest, tables
  <2>3. CASE Tick
    <3>1. clock' \in Times
      BY <2>3, ConstantTypes DEF Tick, TypeOK, Times
    <3> QED BY <2>3, <3>1 DEF Tick, TypeOK, TypeRest, tables
  <2>4. CASE UNCHANGED vars
    BY <2>4 DEF vars, TypeOK, TypeRest
  <2> QED BY <2>1, <2>2, <2>3, <2>4
<1>4. TypeOK'
  BY <1>1, <1>3, TypeParts DEF TypeOK, TypeRest
<1> QED BY <1>2, <1>4

LEMMA CoreInitially == Init => CoreInv
<1> SUFFICES ASSUME Init PROVE CoreInv
  OBVIOUS
<1>1. TypeOK
  BY ConstantTypes
     DEF Init, ParticipationInit, TypeOK, Times, NoParticipant, ParticipantRow,
         ParticipantStatuses, AssignmentStatuses
<1>2. OneLock /\ LockedRowIsCurrent
  BY DEF Init, OneLock, LockedRowIsCurrent, Idle
<1> QED BY <1>1, <1>2 DEF CoreInv

LEMMA CoreStep == CoreInv /\ [Next]_vars => CoreInv'
<1> SUFFICES ASSUME CoreInv, [Next]_vars PROVE CoreInv'
  OBVIOUS
<1>1. ASSUME NEW r \in Requests, HeartbeatStep(r) PROVE CoreInv'
  BY <1>1, CoreBegin, CoreSelect, CoreInsert, CoreHeartbeat, CoreReplayed, CoreAbort
     DEF HeartbeatStep
<1>2. ASSUME NEW a \in Assignments, AssignmentStep(a) PROVE CoreInv'
  BY <1>2, CoreAssignments
<1>3. CASE VideoStep
  BY <1>3, CoreCompleted, CoreOthers DEF VideoStep
<1>4. CASE CleanupStaleSessions \/ Tick \/ UNCHANGED vars
  BY <1>4, CoreOthers
<1> QED BY <1>1, <1>2, <1>3, <1>4 DEF Next

-----------------------------------------------------------------------------
(* What the rows of progress are worth *)

\* No step takes anything away from a row of progress.
RowsGrow ==
  \A u \in Users :
    /\ Covered(progress[u]) <= Covered(progress'[u])
    /\ progress[u].reachedAt # Unset => progress'[u].reachedAt = progress[u].reachedAt
    /\ progress[u].reachedAt = Unset /\ progress'[u].reachedAt # Unset =>
         Reaches(Covered(progress'[u]), duration')
    /\ Covered(progress[u]) <= Tolerate(progress[u].wall) =>
         Covered(progress'[u]) <= Tolerate(progress'[u].wall)

LEMMA SameRowsGrow ==
  ASSUME TypeOK,
         \A u \in Users : /\ Covered(progress'[u]) = Covered(progress[u])
                          /\ progress'[u].wall = progress[u].wall
                          /\ progress'[u].reachedAt = progress[u].reachedAt
  PROVE  RowsGrow
<1>1. \A u \in Users : Covered(progress[u]) \in Nat
  BY RowSize DEF TypeOK
<1> QED BY <1>1 DEF RowsGrow

LEMMA LengthStep ==
  ASSUME TypeOK, LengthIsFinal, [Next]_vars
  PROVE  LengthIsFinal' /\ (duration # Unset => duration' = duration)
<1> USE DEF LengthIsFinal
<1>1. ASSUME NEW r \in Requests, HeartbeatStep(r)
      PROVE  /\ duration' = duration /\ video' = video
             /\ \A r2 \in Requests :
                  request'[r2].duration \in {request[r2].duration, Unset, duration}
  <2>1. CASE \E u \in Users : BeginHeartbeat(r, u)
    BY <2>1 DEF BeginHeartbeat, TypeOK
  <2>2. CASE SelectProgress(r)
    BY <2>2, RequestType DEF SelectProgress, TypeOK, Request, Idle
  <2>3. CASE InsertProgress(r)
    BY <2>3, RequestType DEF InsertProgress, TypeOK, Request, Idle
  <2>4. CASE \/ \E s \in Sessions, seq \in 1..(MaxSeq + 1), from, to \in 0..MaxPosition :
                  Heartbeat(r, s, seq, from, to)
             \/ \E s \in Sessions, seq \in 1..(MaxSeq + 1) : ReplayedHeartbeat(r, s, seq)
             \/ AbortHeartbeat(r)
    <3>1. request' = [request EXCEPT ![r] = Idle] /\ duration' = duration /\ video' = video
      BY <2>4 DEF Heartbeat, Finish, ReplayedHeartbeat, AbortHeartbeat
    <3> QED BY <3>1 DEF TypeOK, Idle
  <2> QED BY <1>1, <2>1, <2>2, <2>3, <2>4 DEF HeartbeatStep
<1>2. ASSUME NEW a \in Assignments, AssignmentStep(a)
      PROVE  UNCHANGED <<video, duration, request>>
  BY <1>2 DEF AssignmentStep, ReadForCreate, CommitCreate, CancelAssignment
<1>3. ASSUME NEW d \in {Unset, Duration}, ProcessingCompleted(d)
      PROVE  video = "processing" /\ video' = "ready" /\ request' = request
  BY <1>3 DEF ProcessingCompleted
<1>4. CASE ProcessingFailed \/ CleanupStaleSessions \/ Tick \/ UNCHANGED vars
  BY <1>4 DEF ProcessingFailed, CleanupStaleSessions, Tick, vars
<1>5. CASE \E r \in Requests : HeartbeatStep(r)
  BY <1>1, <1>5
<1>6. CASE \E d \in {Unset, Duration} : ProcessingCompleted(d)
  BY <1>3, <1>6
<1> QED BY <1>2, <1>4, <1>5, <1>6 DEF Next, VideoStep

LEMMA HeartbeatRowsGrow ==
  ASSUME CoreInv, LengthIsFinal, NEW r \in Requests, HeartbeatStep(r)
  PROVE  RowsGrow
<1> USE DEF CoreInv
<1>1. CASE (\E u \in Users : BeginHeartbeat(r, u)) \/ SelectProgress(r) \/ InsertProgress(r)
           \/ AbortHeartbeat(r)
  <2>1. progress' = progress
    BY <1>1 DEF BeginHeartbeat, SelectProgress, InsertProgress, AbortHeartbeat
  <2> QED BY <2>1, SameRowsGrow
<1>2. ASSUME NEW s \in Sessions, NEW seq \in 1..(MaxSeq + 1), ReplayedHeartbeat(r, s, seq)
      PROVE  RowsGrow
  <2> DEFINE u == request[r].user
  <2>1. request[r] # Idle /\ u \in Users
    BY <1>2, LockedIsBusy, RequestType DEF ReplayedHeartbeat
  <2>2. progress' = [progress EXCEPT ![u] = StoredRow(r)]
    BY <1>2 DEF ReplayedHeartbeat
  <2>3. /\ Covered(progress'[u]) = Covered(progress[u])
        /\ progress'[u].wall = progress[u].wall
        /\ progress'[u].reachedAt = progress[u].reachedAt
    BY <2>1, <2>2, StoredOrEmpty DEF TypeOK
  <2>4. \A v \in Users : v # u => progress'[v] = progress[v]
    BY <2>2 DEF TypeOK
  <2> QED BY <2>3, <2>4, SameRowsGrow
<1>3. ASSUME NEW s \in Sessions, NEW seq \in 1..(MaxSeq + 1), NEW from \in 0..MaxPosition,
             NEW to \in 0..MaxPosition, Heartbeat(r, s, seq, from, to)
      PROVE  RowsGrow
  <2> DEFINE u == request[r].user
  <2>1. request[r] # Idle /\ u \in Users
    BY <1>3, LockedIsBusy, RequestType DEF Heartbeat
  <2>2. PICK after \in Row, applied \in BOOLEAN :
          /\ Finish(r, s, seq, after, applied)
          /\ Grows(StoredRow(r), after, request[r].now, request[r].duration, applied)
          /\ Covered(StoredRow(r)) <= Tolerate(StoredRow(r).wall)
               => Covered(after) <= Tolerate(after.wall)
    BY <1>3, HeartbeatOutcome
  <2>3. progress' = [progress EXCEPT ![u] = after] /\ duration' = duration
    BY <2>2 DEF Finish
  <2>4. progress'[u] = after /\ \A v \in Users : v # u => progress'[v] = progress[v]
    BY <2>1, <2>3 DEF TypeOK
  <2>5. /\ Covered(StoredRow(r)) = Covered(progress[u])
        /\ StoredRow(r).wall = progress[u].wall
        /\ StoredRow(r).reachedAt = progress[u].reachedAt
    BY <2>1, StoredOrEmpty
  <2>6. \A v \in Users : Covered(progress[v]) \in Nat
    BY RowSize DEF TypeOK
  <2>7. Reaches(Covered(after), request[r].duration) => Reaches(Covered(after), duration')
    BY <2>3 DEF Reaches, LengthIsFinal
  <2>8. /\ Covered(progress[u]) <= Covered(after)
        /\ progress[u].reachedAt # Unset => after.reachedAt = progress[u].reachedAt
        /\ progress[u].reachedAt = Unset /\ after.reachedAt # Unset =>
             Reaches(Covered(after), duration')
        /\ Covered(progress[u]) <= Tolerate(progress[u].wall) =>
             Covered(after) <= Tolerate(after.wall)
    BY <2>2, <2>5, <2>7 DEF Grows
  <2> HIDE DEF u
  <2> QED BY <2>4, <2>6, <2>8 DEF RowsGrow
<1> QED BY <1>1, <1>2, <1>3 DEF HeartbeatStep

LEMMA StepRowsGrow ==
  ASSUME CoreInv, LengthIsFinal, [Next]_vars
  PROVE  RowsGrow
<1>1. CASE \E r \in Requests : HeartbeatStep(r)
  BY <1>1, HeartbeatRowsGrow
<1>2. ASSUME NEW d \in {Unset, Duration}, ProcessingCompleted(d)
      PROVE  RowsGrow
  <2>1. duration' = d
    BY <1>2 DEF ProcessingCompleted
  <2> SUFFICES ASSUME NEW u \in Users
               PROVE  /\ Covered(progress[u]) <= Covered(progress'[u])
                      /\ progress[u].reachedAt # Unset => progress'[u].reachedAt = progress[u].reachedAt
                      /\ progress[u].reachedAt = Unset /\ progress'[u].reachedAt # Unset =>
                           Reaches(Covered(progress'[u]), duration')
                      /\ Covered(progress[u]) <= Tolerate(progress[u].wall) =>
                           Covered(progress'[u]) <= Tolerate(progress'[u].wall)
    BY DEF RowsGrow
  <2>2. /\ Covered(progress'[u]) = Covered(progress[u]) /\ progress'[u].wall = progress[u].wall
        /\ u \notin Crossing(d) => progress'[u] = progress[u]
    BY <1>2, RecountedRows DEF CoreInv
  <2>3. Covered(progress[u]) \in Nat
    BY RowSize DEF CoreInv, TypeOK
  <2>4. u \in Crossing(d) => progress[u].reachedAt = Unset /\ Reaches(Covered(progress[u]), d)
    BY DEF Crossing
  <2> QED BY <2>1, <2>2, <2>3, <2>4
<1>3. ASSUME progress' = progress
      PROVE  RowsGrow
  BY <1>3, SameRowsGrow DEF CoreInv
<1>4. CASE \E a \in Assignments : AssignmentStep(a)
  BY <1>3, <1>4 DEF AssignmentStep, ReadForCreate, CommitCreate, CancelAssignment
<1>5. CASE ProcessingFailed \/ CleanupStaleSessions \/ Tick \/ UNCHANGED vars
  BY <1>3, <1>5 DEF ProcessingFailed, CleanupStaleSessions, Tick, vars
<1> QED BY <1>1, <1>2, <1>4, <1>5 DEF Next, VideoStep

\* A share of the length that has been watched stays watched.
LEMMA EarnedStep ==
  ASSUME CoreInv, LengthIsFinal, ReachedIsEarned, [Next]_vars
  PROVE  ReachedIsEarned'
<1> SUFFICES ASSUME NEW u \in Users, progress'[u].reachedAt # Unset
             PROVE  /\ duration' # Unset
                    /\ Covered(progress'[u]) * ThresholdDen >= duration' * ThresholdNum
  BY DEF ReachedIsEarned
<1>1. Covered(progress[u]) \in Nat /\ Covered(progress'[u]) \in Nat /\ duration' \in Nat
  <2>1. CoreInv'
    BY CoreStep
  <2> QED BY <2>1, RowSize, ConstantTypes DEF CoreInv, TypeOK
<1>2. Covered(progress[u]) <= Covered(progress'[u])
  BY StepRowsGrow DEF RowsGrow
<1>3. CASE progress[u].reachedAt # Unset
  <2>1. duration # Unset /\ duration' = duration
        /\ Covered(progress[u]) * ThresholdDen >= duration * ThresholdNum
    BY <1>3, LengthStep DEF ReachedIsEarned, CoreInv
  <2>2. Covered(progress[u]) * ThresholdDen <= Covered(progress'[u]) * ThresholdDen
    BY <1>1, <1>2, ConstantTypes
  <2>3. \A x \in Nat : x * ThresholdDen \in Nat /\ x * ThresholdNum \in Nat
    BY ConstantTypes
  <2> QED BY <1>1, <2>1, <2>2, <2>3
<1>4. CASE progress[u].reachedAt = Unset
  <2>1. duration' # Unset /\ Covered(progress'[u]) >= NeedMs(duration')
    BY <1>4, StepRowsGrow DEF RowsGrow, Reaches
  <2> QED BY <1>1, <2>1, NeedIsEnough
<1> QED BY <1>3, <1>4

-----------------------------------------------------------------------------
(* What the rows of participants are worth *)

\* What a step may do to the row of one participant: a row that is done, or of
\* an assignment that is cancelled, stays as it is.
Moves(a, u) ==
  LET before == participant[a][u]
      after == participant'[a][u]
  IN
  \/ after = before
  \/ /\ assignment[a] # "cancelled"
     /\ before.status # "completed"
     /\ \/ /\ after.completedAt = before.completedAt
           /\ \/ after.status = "cancelled"
              \/ after.status = creating[a][u]
              \/ after.status = "in_progress" /\ Covered(progress'[u]) > 0
        \/ /\ after.status = "completed"
           /\ progress'[u].reachedAt # Unset
           /\ after.completedAt = progress'[u].reachedAt

LEMMA CreatingStep ==
  ASSUME CoreInv, LengthIsFinal, CreatingIsNew, CreatingIsBacked, [Next]_vars
  PROVE  CreatingIsNew' /\ CreatingIsBacked'
<1> DEFINE Read(a, u) == InitialStage(Covered(progress[u]), progress[u].reachedAt)
<1>1. \/ UNCHANGED <<assignment, creating>>
      \/ \E a \in Assignments : ReadForCreate(a)
      \/ \E a \in Assignments, enrolled \in SUBSET Users : CommitCreate(a, enrolled)
      \/ \E a \in Assignments : CancelAssignment(a)
  <2>1. ASSUME NEW r \in Requests, HeartbeatStep(r)
        PROVE  UNCHANGED <<assignment, creating>>
    <3>1. CASE \E s \in Sessions, seq \in 1..(MaxSeq + 1), from, to \in 0..MaxPosition :
                 Heartbeat(r, s, seq, from, to)
      BY <3>1 DEF Heartbeat, Finish
    <3>2. CASE ~\E s \in Sessions, seq \in 1..(MaxSeq + 1), from, to \in 0..MaxPosition :
                 Heartbeat(r, s, seq, from, to)
      BY <2>1, <3>2 DEF HeartbeatStep, BeginHeartbeat, SelectProgress, InsertProgress,
                        ReplayedHeartbeat, AbortHeartbeat, tables
    <3> QED BY <3>1, <3>2
  <2>2. ASSUME VideoStep \/ CleanupStaleSessions \/ Tick \/ UNCHANGED vars
        PROVE  UNCHANGED <<assignment, creating>>
    BY <2>2 DEF VideoStep, ProcessingCompleted, ProcessingFailed, CleanupStaleSessions, Tick, tables,
                vars
  <2> QED BY <2>1, <2>2 DEF Next, AssignmentStep
<1>2. CreatingIsNew'
  <2>1. CASE UNCHANGED <<assignment, creating>>
    BY <2>1 DEF CreatingIsNew
  <2>2. CASE \E a \in Assignments : ReadForCreate(a)
    BY <2>2 DEF ReadForCreate, tables, CreatingIsNew, CoreInv, TypeOK
  <2>3. CASE \E a \in Assignments, enrolled \in SUBSET Users : CommitCreate(a, enrolled)
    BY <2>3 DEF CommitCreate, CreatingIsNew, CoreInv, TypeOK
  <2>4. CASE \E a \in Assignments : CancelAssignment(a)
    BY <2>4 DEF CancelAssignment, CreatingIsNew, CoreInv, TypeOK
  <2> QED BY <1>1, <2>1, <2>2, <2>3, <2>4
<1>3. ASSUME NEW a \in Assignments, NEW u \in Users
      PROVE  creating'[a][u] \in {creating[a][u], "none", Read(a, u)}
  <2>1. CASE creating' = creating
    BY <2>1
  <2>2. ASSUME NEW b \in Assignments, ReadForCreate(b)
        PROVE  creating'[a][u] \in {creating[a][u], Read(a, u)}
    BY <2>2 DEF ReadForCreate, CoreInv, TypeOK
  <2>3. ASSUME NEW b \in Assignments, NEW enrolled \in SUBSET Users, CommitCreate(b, enrolled)
        PROVE  creating'[a][u] \in {creating[a][u], "none"}
    BY <2>3 DEF CommitCreate, NotCreating, CoreInv, TypeOK
  <2> QED BY <1>1, <2>1, <2>2, <2>3 DEF CancelAssignment
<1>4. ASSUME NEW a \in Assignments, NEW u \in Users
      PROVE  /\ creating'[a][u] = "in_progress" => Covered(progress[u]) > 0
             /\ creating'[a][u] = "completed" => progress[u].reachedAt # Unset
  BY <1>3 DEF InitialStage, CreatingIsBacked
<1>5. ASSUME NEW u \in Users
      PROVE  /\ Covered(progress[u]) > 0 => Covered(progress'[u]) > 0
             /\ progress[u].reachedAt # Unset => progress'[u].reachedAt # Unset
  <2>1. Covered(progress[u]) \in Nat /\ Covered(progress'[u]) \in Nat
    <3>1. CoreInv'
      BY CoreStep
    <3> QED BY <3>1, RowSize DEF CoreInv, TypeOK
  <2> QED BY <2>1, StepRowsGrow DEF RowsGrow
<1>6. CreatingIsBacked'
  BY <1>4, <1>5 DEF CreatingIsBacked
<1> QED BY <1>2, <1>6

LEMMA HeartbeatMoves ==
  ASSUME CoreInv, NEW r \in Requests, HeartbeatStep(r), NEW a \in Assignments, NEW u \in Users
  PROVE  Moves(a, u)
<1> USE DEF CoreInv
<1>1. CASE participant' = participant
  BY <1>1 DEF Moves
<1>2. ASSUME NEW s \in Sessions, NEW seq \in 1..(MaxSeq + 1), NEW from \in 0..MaxPosition,
             NEW to \in 0..MaxPosition, Heartbeat(r, s, seq, from, to)
      PROVE  Moves(a, u)
  <2> DEFINE v == request[r].user
             now == request[r].now
             before == request[r].row
  <2>1. request[r] # Idle /\ v \in Users /\ now \in Times /\ before = StoredRow(r)
    BY <1>2, LockedIsBusy, RequestType DEF Heartbeat, LockedRowIsCurrent
  <2>2. PICK after \in Row, applied \in BOOLEAN :
          /\ Finish(r, s, seq, after, applied)
          /\ Grows(StoredRow(r), after, now, request[r].duration, applied)
    BY <1>2, HeartbeatOutcome
  <2> DEFINE starting == IF applied /\ (Covered(before) = 0 /\ Covered(after) > 0) THEN {v} ELSE {}
             finishing == IF applied /\ (before.reachedAt = Unset /\ after.reachedAt # Unset)
                          THEN {v} ELSE {}
  <2>3. Advance(starting, finishing, now) /\ progress' = [progress EXCEPT ![v] = after]
    BY <2>2 DEF Finish
  <2>4. progress'[v] = after
    BY <2>1, <2>3 DEF TypeOK
  <2>5. after.reachedAt # Unset /\ before.reachedAt = Unset => after.reachedAt = now
    BY <2>1, <2>2 DEF Grows
  <2>6. /\ u \in starting => Covered(progress'[u]) > 0
        /\ u \in finishing => progress'[u].reachedAt # Unset /\ progress'[u].reachedAt = now
    BY <2>4, <2>5
  <2> HIDE DEF starting, finishing, now
  <2>7. Advanced(a, u, starting, finishing, now)
    BY <2>1, <2>3, AdvanceRows
  <2> QED BY <2>6, <2>7 DEF Advanced, Moves, Unfinished
<1>3. CASE \/ \E v \in Users : BeginHeartbeat(r, v)
           \/ SelectProgress(r)
           \/ InsertProgress(r)
           \/ \E s \in Sessions, seq \in 1..(MaxSeq + 1) : ReplayedHeartbeat(r, s, seq)
           \/ AbortHeartbeat(r)
  BY <1>1, <1>3
     DEF BeginHeartbeat, SelectProgress, InsertProgress, ReplayedHeartbeat, AbortHeartbeat, tables
<1> QED BY <1>2, <1>3 DEF HeartbeatStep

LEMMA AssignmentMoves ==
  ASSUME CoreInv, CreatingIsNew, NEW b \in Assignments, AssignmentStep(b),
         NEW a \in Assignments, NEW u \in Users
  PROVE  Moves(a, u)
<1> USE DEF CoreInv
<1> DEFINE row == participant[a][u]
<1>0. row \in ParticipantRow(Times \cup {Unset})
  BY DEF TypeOK
<1>1. CASE ReadForCreate(b)
  BY <1>1 DEF ReadForCreate, tables, Moves
<1>2. ASSUME NEW enrolled \in SUBSET Users, CommitCreate(b, enrolled)
      PROVE  Moves(a, u)
  <2>1. CASE a # b \/ ~(u \in enrolled /\ row.status \in {"none", "cancelled"})
    <3>1. participant'[a][u] = row
      BY <1>2, <2>1 DEF CommitCreate, InsertBatch, TypeOK
    <3> QED BY <3>1 DEF Moves
  <2>2. CASE a = b /\ u \in enrolled /\ row.status \in {"none", "cancelled"}
    <3>1. participant'[a][u] = [row EXCEPT !.status = creating[a][u]]
      BY <1>2, <2>2 DEF CommitCreate, InsertBatch, TypeOK
    <3>2. participant'[a][u].status = creating[a][u] /\ participant'[a][u].completedAt = row.completedAt
      BY <1>0, <3>1 DEF ParticipantRow
    <3>3. assignment[a] = "none"
      BY <1>2, <2>2 DEF CommitCreate, CreatingIsNew
    <3> QED BY <2>2, <3>2, <3>3 DEF Moves
  <2> QED BY <2>1, <2>2
<1>3. CASE CancelAssignment(b)
  <2>1. CASE a # b \/ row.status \notin Unfinished
    <3>1. participant'[a][u] = row
      BY <1>3, <2>1 DEF CancelAssignment, CancelParticipants, TypeOK
    <3> QED BY <3>1 DEF Moves
  <2>2. CASE a = b /\ row.status \in Unfinished
    <3>1. participant'[a][u] = [row EXCEPT !.status = "cancelled"] /\ assignment[a] = "active"
      BY <1>3, <2>2 DEF CancelAssignment, CancelParticipants, TypeOK
    <3>2. participant'[a][u].status = "cancelled" /\ participant'[a][u].completedAt = row.completedAt
      BY <1>0, <3>1 DEF ParticipantRow
    <3> QED BY <2>2, <3>1, <3>2 DEF Moves, Unfinished
  <2> QED BY <2>1, <2>2
<1> QED BY <1>1, <1>2, <1>3 DEF AssignmentStep

LEMMA StepMoves ==
  ASSUME CoreInv, CreatingIsNew, [Next]_vars, NEW a \in Assignments, NEW u \in Users
  PROVE  Moves(a, u)
<1>1. ASSUME NEW d \in {Unset, Duration}, ProcessingCompleted(d)
      PROVE  Moves(a, u)
  <2>1. clock \in Times /\ Advance({}, Crossing(d), clock)
    BY <1>1 DEF ProcessingCompleted, CoreInv, TypeOK
  <2>2. Advanced(a, u, {}, Crossing(d), clock)
    BY <2>1, AdvanceRows DEF CoreInv
  <2>3. u \in Crossing(d) => progress'[u].reachedAt = clock /\ clock # Unset
    BY <1>1, <2>1, RecountedRows, ConstantTypes DEF CoreInv
  <2> QED BY <2>2, <2>3 DEF Advanced, Moves, Unfinished
<1>2. CASE ProcessingFailed \/ CleanupStaleSessions \/ Tick \/ UNCHANGED vars
  BY <1>2 DEF ProcessingFailed, CleanupStaleSessions, Tick, vars, tables, Moves
<1>3. CASE \E r \in Requests : HeartbeatStep(r)
  BY <1>3, HeartbeatMoves
<1>4. CASE \E b \in Assignments : AssignmentStep(b)
  BY <1>4, AssignmentMoves
<1> QED BY <1>1, <1>2, <1>3, <1>4 DEF Next, VideoStep

LEMMA BackedStep ==
  ASSUME CoreInv, LengthIsFinal, CreatingIsNew, CreatingIsBacked, ParticipantIsBacked, [Next]_vars
  PROVE  ParticipantIsBacked'
<1> SUFFICES ASSUME NEW a \in Assignments, NEW u \in Users
             PROVE  /\ participant'[a][u].status = "in_progress" => Covered(progress'[u]) > 0
                    /\ participant'[a][u].status = "completed" => progress'[u].reachedAt # Unset
                    /\ participant'[a][u].completedAt \in {Unset, progress'[u].reachedAt}
  BY DEF ParticipantIsBacked
<1>1. /\ Covered(progress[u]) > 0 => Covered(progress'[u]) > 0
      /\ progress[u].reachedAt # Unset => progress'[u].reachedAt = progress[u].reachedAt
  <2>1. Covered(progress[u]) \in Nat /\ Covered(progress'[u]) \in Nat
    <3>1. CoreInv'
      BY CoreStep
    <3> QED BY <3>1, RowSize DEF CoreInv, TypeOK
  <2> QED BY <2>1, StepRowsGrow DEF RowsGrow
<1>2. Moves(a, u)
  BY StepMoves
<1>3. participant[a][u].completedAt \in {Unset, progress'[u].reachedAt}
  BY <1>1 DEF ParticipantIsBacked
<1>4. /\ creating[a][u] = "in_progress" => Covered(progress'[u]) > 0
      /\ creating[a][u] = "completed" => progress'[u].reachedAt # Unset
  BY <1>1 DEF CreatingIsBacked
<1>5. /\ participant[a][u].status = "in_progress" => Covered(progress'[u]) > 0
      /\ participant[a][u].status = "completed" => progress'[u].reachedAt # Unset
  BY <1>1 DEF ParticipantIsBacked
<1> QED BY <1>2, <1>3, <1>4, <1>5 DEF Moves

-----------------------------------------------------------------------------
(* The invariant *)

LEMMA WInvInitially == Init => WInv
<1> SUFFICES ASSUME Init PROVE WInv
  OBVIOUS
<1>1. CoreInv
  BY CoreInitially
<1>2. LengthIsFinal
  BY DEF Init, LengthIsFinal, Idle
<1>3. CoverageWithinWall
  <2>1. Covered(NoRow) <= Tolerate(NoRow.wall)
    <3>1. Covered(NoRow) = 0 /\ Tolerate(NoRow.wall) = 0
      BY NoRowFacts, TolerateNat
    <3> QED BY <3>1
  <2> QED BY <2>1 DEF Init, CoverageWithinWall
<1>4. ReachedIsEarned
  BY NoRowFacts DEF Init, ReachedIsEarned
<1>5. CreatingIsNew /\ CreatingIsBacked
  BY DEF Init, CreatingIsNew, CreatingIsBacked, NotCreating
<1>6. ParticipantIsBacked
  BY DEF Init, ParticipationInit, ParticipantIsBacked, NoParticipant
<1> QED BY <1>1, <1>2, <1>3, <1>4, <1>5, <1>6 DEF WInv

LEMMA WInvStep == WInv /\ [Next]_vars => WInv'
<1> SUFFICES ASSUME WInv, [Next]_vars PROVE WInv'
  OBVIOUS
<1>1. CoreInv'
  BY CoreStep DEF WInv
<1>2. LengthIsFinal'
  BY LengthStep DEF WInv, CoreInv
<1>3. CoverageWithinWall'
  BY StepRowsGrow DEF WInv, RowsGrow, CoverageWithinWall
<1>4. ReachedIsEarned'
  BY EarnedStep DEF WInv
<1>5. CreatingIsNew' /\ CreatingIsBacked'
  BY CreatingStep DEF WInv
<1>6. ParticipantIsBacked'
  BY BackedStep DEF WInv
<1> QED BY <1>1, <1>2, <1>3, <1>4, <1>5, <1>6 DEF WInv

\* Every variable keeps to its type, a session's number to its 32 bits, for any
\* users, heartbeats and numbers.
THEOREM WatchTypeCorrect == Spec => []TypeOK
<1>1. WInv => TypeOK
  BY DEF WInv, CoreInv
<1> QED BY <1>1, WInvInitially, WInvStep, PTL DEF Spec

\* A heartbeat decides on the row that its UPDATE finds.
THEOREM LockedRowSafe == Spec => []LockedRowIsCurrent
<1>1. WInv => LockedRowIsCurrent
  BY DEF WInv, CoreInv
<1> QED BY <1>1, WInvInitially, WInvStep, PTL DEF Spec

\* The wall cap holds for any number of players and heartbeats that overlap, and
\* for any tolerance, interval and clock.
THEOREM CoverageSafe == Spec => []CoverageWithinWall
<1>1. WInv => CoverageWithinWall
  BY DEF WInv
<1> QED BY <1>1, WInvInitially, WInvStep, PTL DEF Spec

\* A recorded threshold has been watched, for any threshold and length.
THEOREM ReachedSafe == Spec => []ReachedIsEarned
<1>1. WInv => ReachedIsEarned
  BY DEF WInv
<1> QED BY <1>1, WInvInitially, WInvStep, PTL DEF Spec

\* The status of a participant never says more than the user has watched.
THEOREM ParticipantSafe == Spec => []ParticipantIsBacked
<1>1. WInv => ParticipantIsBacked
  BY DEF WInv
<1> QED BY <1>1, WInvInitially, WInvStep, PTL DEF Spec

\* The moment of a threshold, a completed participant and the participants of a
\* cancelled assignment are final.
THEOREM SettledFinal == Spec => SettledIsFinal
<1> DEFINE Final(u) ==
      /\ progress[u].reachedAt # Unset => progress'[u].reachedAt = progress[u].reachedAt
      /\ \A a \in Assignments :
           participant[a][u].status = "completed" \/ assignment[a] = "cancelled"
             => participant'[a][u] = participant[a][u]
<1>1. WInv /\ [Next]_vars => [\A u \in Users : Final(u)]_vars
  <2> SUFFICES ASSUME WInv, [Next]_vars, NEW u \in Users PROVE Final(u)
    OBVIOUS
  <2>1. progress[u].reachedAt # Unset => progress'[u].reachedAt = progress[u].reachedAt
    BY StepRowsGrow DEF WInv, RowsGrow
  <2>2. ASSUME NEW a \in Assignments,
               participant[a][u].status = "completed" \/ assignment[a] = "cancelled"
        PROVE  participant'[a][u] = participant[a][u]
    BY <2>2, StepMoves DEF WInv, Moves
  <2> QED BY <2>1, <2>2
<1> QED BY <1>1, WInvInitially, WInvStep, PTL DEF Spec, SettledIsFinal
-----------------------------------------------------------------------------
(* Time at the wall *)

\* A session of u that a step takes on: a new one, or one of u at a higher
\* number, or at the last number its column holds.
TakenOn(s, u) ==
  /\ sessions'[s].user = u
  /\ \/ sessions[s] = NoSession
     \/ /\ sessions[s].user = u
        /\ sessions'[s].seq > sessions[s].seq \/ sessions[s].seq = MaxSeq

\* The number that last_seq keeps is above the one it kept, until it stands still.
LEMMA SeqGoesOn ==
  ASSUME NEW old \in 0..MaxSeq, NEW seq \in 1..(MaxSeq + 1), seq > old
  PROVE  Int32FromSeq(seq) > old \/ old = MaxSeq
BY ConstantTypes DEF Int32FromSeq, Least

\* A heartbeat that counts takes its session on, and no other user's row grows.
LEMMA HeartbeatTakesOn ==
  ASSUME CoreInv, NEW r \in Requests, NEW s \in Sessions, NEW seq \in 1..(MaxSeq + 1),
         NEW from \in 0..MaxPosition, NEW to \in 0..MaxPosition,
         Heartbeat(r, s, seq, from, to), NEW u \in Users
  PROVE  progress'[u].wall > progress[u].wall => TakenOn(s, u)
<1> DEFINE v == request[r].user
<1>1. request[r] # Idle /\ v \in Users
  BY LockedIsBusy, RequestType DEF Heartbeat, CoreInv
<1>2. PICK after \in Row, applied \in BOOLEAN : Finish(r, s, seq, after, applied)
  BY HeartbeatOutcome DEF CoreInv
<1>3. u # v => progress'[u] = progress[u]
  BY <1>1, <1>2 DEF Finish, CoreInv, TypeOK
<1>4. progress[u].wall \in Nat
  BY DEF CoreInv, TypeOK, Row, NoRow
<1>5. sessions'[s] = [user |-> v, seq |-> Int32FromSeq(seq), lastAt |-> request[r].now]
  BY <1>2 DEF Finish, CoreInv, TypeOK
<1>6. ASSUME sessions[s] # NoSession
      PROVE  /\ sessions[s].user = v
             /\ Int32FromSeq(seq) > sessions[s].seq \/ sessions[s].seq = MaxSeq
  <2>1. sessions[s].seq \in 0..MaxSeq
    BY <1>6 DEF CoreInv, TypeOK, Session
  <2>2. sessions[s].user = v /\ seq > sessions[s].seq
    BY <1>6 DEF Heartbeat, FreshHeartbeat
  <2> QED BY <2>1, <2>2, SeqGoesOn
<1>7. TakenOn(s, v)
  BY <1>5, <1>6 DEF TakenOn
<1>8. u # v => ~(progress'[u].wall > progress[u].wall)
  BY <1>3, <1>4
<1> QED BY <1>7, <1>8

\* No other step puts time at the wall.
LEMMA WallStandsStill ==
  ASSUME CoreInv, [Next]_vars,
         ~ \E r \in Requests, s \in Sessions, seq \in 1..(MaxSeq + 1), from, to \in 0..MaxPosition :
             Heartbeat(r, s, seq, from, to),
         NEW u \in Users
  PROVE  progress'[u].wall = progress[u].wall
<1>1. ASSUME NEW r \in Requests, NEW s \in Sessions, NEW seq \in 1..(MaxSeq + 1),
             ReplayedHeartbeat(r, s, seq)
      PROVE  progress'[u].wall = progress[u].wall
  <2> DEFINE v == request[r].user
  <2>1. request[r] # Idle /\ v \in Users
    BY <1>1, LockedIsBusy, RequestType DEF ReplayedHeartbeat, CoreInv
  <2>2. StoredRow(r).wall = progress[v].wall
    BY <2>1, StoredOrEmpty DEF CoreInv
  <2>3. progress' = [progress EXCEPT ![v] = StoredRow(r)]
    BY <1>1 DEF ReplayedHeartbeat
  <2> QED BY <2>1, <2>2, <2>3 DEF CoreInv, TypeOK
<1>2. ASSUME NEW d \in {Unset, Duration}, ProcessingCompleted(d)
      PROVE  progress'[u].wall = progress[u].wall
  BY <1>2, RecountedRows DEF CoreInv
<1>3. ASSUME NEW r \in Requests, HeartbeatStep(r)
      PROVE  progress'[u].wall = progress[u].wall
  BY <1>1, <1>3 DEF HeartbeatStep, BeginHeartbeat, SelectProgress, InsertProgress, AbortHeartbeat
<1>4. CASE \E a \in Assignments : AssignmentStep(a)
  BY <1>4 DEF AssignmentStep, ReadForCreate, CommitCreate, CancelAssignment
<1>5. CASE ProcessingFailed \/ CleanupStaleSessions \/ Tick \/ UNCHANGED vars
  BY <1>5 DEF ProcessingFailed, CleanupStaleSessions, Tick, vars
<1> QED BY <1>2, <1>3, <1>4, <1>5 DEF Next, VideoStep

\* A heartbeat that is sent again, by a player that repeats or by one that took
\* over another's number, adds no time at the wall, for any number of players.
THEOREM WallGrows == Spec => WallGrowsBySession
<1> DEFINE GrowsBySession(u) == progress'[u].wall > progress[u].wall =>
             \E s \in Sessions :
               /\ sessions'[s].user = u
               /\ \/ sessions[s] = NoSession
                  \/ /\ sessions[s].user = u
                     /\ sessions'[s].seq > sessions[s].seq \/ sessions[s].seq = MaxSeq
<1>1. WInv /\ [Next]_vars => [\A u \in Users : GrowsBySession(u)]_vars
  <2> SUFFICES ASSUME WInv, [Next]_vars, NEW u \in Users PROVE GrowsBySession(u)
    OBVIOUS
  <2>1. ASSUME NEW r \in Requests, NEW s \in Sessions, NEW seq \in 1..(MaxSeq + 1),
               NEW from \in 0..MaxPosition, NEW to \in 0..MaxPosition,
               Heartbeat(r, s, seq, from, to)
        PROVE  GrowsBySession(u)
    BY <2>1, HeartbeatTakesOn DEF WInv, TakenOn
  <2>2. progress[u].wall \in Nat
    BY DEF WInv, CoreInv, TypeOK, Row, NoRow
  <2>3. ASSUME progress'[u].wall = progress[u].wall PROVE GrowsBySession(u)
    BY <2>2, <2>3
  <2> QED BY <2>1, <2>3, WallStandsStill DEF WInv
<1> QED BY <1>1, WInvInitially, WInvStep, PTL DEF Spec, WallGrowsBySession
-----------------------------------------------------------------------------
(* The lifecycle of participants *)

\* An assignment that is still to be created has no participants.
NewIsEmpty ==
  \A a \in Assignments, u \in Users :
    assignment[a] = "none" => participant[a][u].status = "none"

LInv == WInv /\ NewIsEmpty

StageOf(a, u) == participant[a][u].status
Stage == [a \in Assignments |-> [u \in Users |-> StageOf(a, u)]]

\* Rows that move as the lifecycle allows them to.
LEMMA RowsMove ==
  ASSUME TypeOK', NEW S, NEW From, NEW To,
         \A a \in Assignments, u \in Users :
           \/ StageOf(a, u)' = StageOf(a, u)
           \/ a \in S /\ StageOf(a, u) \in From /\ StageOf(a, u)' \in To
  PROVE  Lifecycle!MoveRows(S, From, To)
<1>1. \A a \in Assignments, u \in Users : StageOf(a, u)' \in Stages \cup {"none", "cancelled"}
  BY DEF TypeOK, ParticipantRow, ParticipantStatuses, StageOf
<1>2. Stage' \in [Assignments -> [Users -> Lifecycle!Stages \cup {"none", "cancelled"}]]
  BY <1>1 DEF Stage, Lifecycle!Stages, Lifecycle!Unfinished, Stages, Unfinished
<1> QED
  BY <1>2 DEF Lifecycle!MoveRows, Stage, StageOf

\* The two UPDATEs of a heartbeat, or of the recount: either rows only start, or
\* whoever starts completes as well.
LEMMA AdvanceMaps ==
  ASSUME CoreInv, CoreInv', UNCHANGED assignment, NEW now \in Times,
         NEW starting \in SUBSET Users, NEW finishing \in SUBSET Users,
         finishing = {} \/ starting \subseteq finishing, Advance(starting, finishing, now)
  PROVE  Lifecycle!Start \/ Lifecycle!Complete
<1>1. \A a \in Assignments, u \in Users : Advanced(a, u, starting, finishing, now)
  BY AdvanceRows DEF CoreInv
<1>2. CASE finishing = {}
  <2>1. ASSUME NEW a \in Assignments, NEW u \in Users
        PROVE  \/ StageOf(a, u)' = StageOf(a, u)
               \/ /\ a \in Lifecycle!Active /\ StageOf(a, u) \in {"assigned"}
                  /\ StageOf(a, u)' \in {"in_progress"}
    BY <1>1, <1>2 DEF Advanced, StageOf, Lifecycle!Active
  <2>2. Lifecycle!MoveRows(Lifecycle!Active, {"assigned"}, {"in_progress"})
    BY <2>1, RowsMove DEF CoreInv
  <2> QED
    BY <2>2 DEF Lifecycle!Start
<1>3. CASE starting \subseteq finishing
  <2>1. ASSUME NEW a \in Assignments, NEW u \in Users
        PROVE  \/ StageOf(a, u)' = StageOf(a, u)
               \/ /\ a \in Lifecycle!Active /\ StageOf(a, u) \in Lifecycle!Unfinished
                  /\ StageOf(a, u)' \in {"completed"}
    BY <1>1, <1>3 DEF Advanced, StageOf, Lifecycle!Active, Lifecycle!Unfinished, Unfinished
  <2>2. Lifecycle!MoveRows(Lifecycle!Active, Lifecycle!Unfinished, {"completed"})
    BY <2>1, RowsMove DEF CoreInv
  <2> QED
    BY <2>2 DEF Lifecycle!Complete
<1> QED
  BY <1>2, <1>3

\* What a heartbeat writes is about its own user.
LEMMA HeartbeatAdvances ==
  ASSUME CoreInv, NEW r \in Requests, NEW s \in Sessions, NEW seq \in 1..(MaxSeq + 1),
         NEW from \in 0..MaxPosition, NEW to \in 0..MaxPosition, Heartbeat(r, s, seq, from, to)
  PROVE  \E starting \in SUBSET Users, finishing \in SUBSET Users :
           /\ UNCHANGED assignment
           /\ finishing = {} \/ starting \subseteq finishing
           /\ Advance(starting, finishing, request[r].now)
<1> DEFINE v == request[r].user
           before == request[r].row
<1>1. request[r] # Idle /\ v \in Users
  BY LockedIsBusy, RequestType DEF Heartbeat, CoreInv
<1>2. PICK after \in Row, applied \in BOOLEAN : Finish(r, s, seq, after, applied)
  BY HeartbeatOutcome DEF CoreInv
<1> DEFINE starting == IF applied /\ (Covered(before) = 0 /\ Covered(after) > 0) THEN {v} ELSE {}
           finishing == IF applied /\ (before.reachedAt = Unset /\ after.reachedAt # Unset)
                        THEN {v} ELSE {}
<1>3. Advance(starting, finishing, request[r].now) /\ UNCHANGED assignment
  BY <1>2 DEF Finish
<1>4. /\ starting \in SUBSET Users /\ finishing \in SUBSET Users
      /\ finishing = {} \/ starting \subseteq finishing
  BY <1>1
<1> HIDE DEF starting, finishing
<1> QED
  BY <1>3, <1>4

\* A row that is written keeps a new assignment without participants: only the
\* insert of Create writes rows of one, and makes it active.
LEMMA NewStaysEmpty ==
  ASSUME LInv, [Next]_vars
  PROVE  NewIsEmpty'
<1> SUFFICES ASSUME NEW a \in Assignments, NEW u \in Users, assignment'[a] = "none"
             PROVE  participant'[a][u].status = "none"
  BY DEF NewIsEmpty
<1>0. CoreInv /\ TypeOK
  BY DEF LInv, WInv, CoreInv
<1>1. ASSUME UNCHANGED assignment, participant'[a][u] = participant[a][u]
      PROVE  participant'[a][u].status = "none"
  BY <1>1 DEF LInv, NewIsEmpty
<1>2. ASSUME UNCHANGED assignment, NEW starting, NEW finishing, NEW now \in Times,
             Advance(starting, finishing, now)
      PROVE  participant'[a][u].status = "none"
  <2>1. Advanced(a, u, starting, finishing, now)
    BY <1>0, <1>2, AdvanceRows
  <2> QED
    BY <1>1, <1>2, <2>1 DEF Advanced
<1>3. ASSUME NEW r \in Requests, HeartbeatStep(r)
      PROVE  participant'[a][u].status = "none"
  <2>1. CASE UNCHANGED <<assignment, participant>>
    BY <1>1, <2>1
  <2>2. ASSUME NEW s \in Sessions, NEW seq \in 1..(MaxSeq + 1), NEW from \in 0..MaxPosition,
               NEW to \in 0..MaxPosition, Heartbeat(r, s, seq, from, to)
        PROVE  \E starting \in SUBSET Users, finishing \in SUBSET Users :
                 /\ UNCHANGED assignment
                 /\ Advance(starting, finishing, request[r].now)
    BY <1>0, <2>2, HeartbeatAdvances
  <2>3. ASSUME NEW s \in Sessions, NEW seq \in 1..(MaxSeq + 1), NEW from \in 0..MaxPosition,
               NEW to \in 0..MaxPosition, Heartbeat(r, s, seq, from, to)
        PROVE  request[r].now \in Times
    BY <1>0, <2>3, LockedIsBusy, RequestType DEF Heartbeat
  <2> QED
    BY <1>2, <1>3, <2>1, <2>2, <2>3
       DEF HeartbeatStep, BeginHeartbeat, SelectProgress, InsertProgress, ReplayedHeartbeat,
           AbortHeartbeat, tables
<1>4. ASSUME NEW b \in Assignments, AssignmentStep(b)
      PROVE  participant'[a][u].status = "none"
  <2>1. CASE ReadForCreate(b)
    BY <1>1, <2>1 DEF ReadForCreate, tables
  <2>2. ASSUME NEW enrolled \in SUBSET Users, CommitCreate(b, enrolled)
        PROVE  participant'[a][u].status = "none"
    <3>1. a # b
      BY <1>0, <2>2 DEF CommitCreate, TypeOK
    <3>2. participant'[a] = participant[a] /\ assignment'[a] = assignment[a]
      BY <1>0, <2>2, <3>1 DEF CommitCreate, InsertBatch, TypeOK
    <3> QED
      BY <3>2 DEF LInv, NewIsEmpty
  <2>3. CASE CancelAssignment(b)
    <3>1. a # b
      BY <1>0, <2>3 DEF CancelAssignment, TypeOK
    <3>2. participant'[a] = participant[a] /\ assignment'[a] = assignment[a]
      BY <1>0, <2>3, <3>1 DEF CancelAssignment, CancelParticipants, TypeOK
    <3> QED
      BY <3>2 DEF LInv, NewIsEmpty
  <2> QED
    BY <1>4, <2>1, <2>2, <2>3 DEF AssignmentStep
<1>5. ASSUME NEW d \in {Unset, Duration}, ProcessingCompleted(d)
      PROVE  participant'[a][u].status = "none"
  BY <1>0, <1>2, <1>5 DEF ProcessingCompleted, TypeOK
<1>6. CASE ProcessingFailed \/ CleanupStaleSessions \/ Tick \/ UNCHANGED vars
  BY <1>1, <1>6 DEF ProcessingFailed, CleanupStaleSessions, Tick, vars, tables
<1> QED
  BY <1>3, <1>4, <1>5, <1>6 DEF Next, VideoStep

\* Every step is a step of the lifecycle, or leaves it alone.
LEMMA LifecycleStep ==
  ASSUME LInv, LInv', [Next]_vars
  PROVE  Lifecycle!Next \/ UNCHANGED Lifecycle!vars
<1>0. CoreInv /\ TypeOK /\ CoreInv' /\ TypeOK'
  BY DEF LInv, WInv, CoreInv
<1>rows. participant \in [Assignments -> [Users -> ParticipantRow(Times \cup {Unset})]]
  BY <1>0 DEF TypeOK
<1>1. ASSUME UNCHANGED <<assignment, participant>>
      PROVE  UNCHANGED Lifecycle!vars
  BY <1>1 DEF Lifecycle!vars
<1>2. ASSUME NEW r \in Requests, HeartbeatStep(r)
      PROVE  Lifecycle!Next \/ UNCHANGED Lifecycle!vars
  <2>1. ASSUME NEW s \in Sessions, NEW seq \in 1..(MaxSeq + 1), NEW from \in 0..MaxPosition,
               NEW to \in 0..MaxPosition, Heartbeat(r, s, seq, from, to)
        PROVE  Lifecycle!Next
    <3>1. PICK starting \in SUBSET Users, finishing \in SUBSET Users :
            /\ UNCHANGED assignment
            /\ finishing = {} \/ starting \subseteq finishing
            /\ Advance(starting, finishing, request[r].now)
      BY <1>0, <2>1, HeartbeatAdvances
    <3>2. request[r].now \in Times
      BY <1>0, <2>1, LockedIsBusy, RequestType DEF Heartbeat
    <3>3. Lifecycle!Start \/ Lifecycle!Complete
      BY <1>0, <3>1, <3>2, AdvanceMaps
    <3> QED
      BY <3>3 DEF Lifecycle!Next
  <2> QED
    BY <1>1, <1>2, <2>1
       DEF HeartbeatStep, BeginHeartbeat, SelectProgress, InsertProgress, ReplayedHeartbeat,
           AbortHeartbeat, tables
<1>3. ASSUME NEW b \in Assignments, NEW enrolled \in SUBSET Users, CommitCreate(b, enrolled)
      PROVE  Lifecycle!Create(b)
  <2>1. assignment[b] = "none" /\ creating[b] \in [Users -> Stages]
    BY <1>0, <1>3 DEF CommitCreate, LInv, WInv, CreatingIsNew, TypeOK
  <2>2. ASSUME NEW a \in Assignments, NEW u \in Users
        PROVE  \/ StageOf(a, u)' = StageOf(a, u)
               \/ /\ a \in {b} /\ StageOf(a, u) \in {"none"}
                  /\ StageOf(a, u)' \in Lifecycle!Stages
    <3>1. participant[a][u] \in ParticipantRow(Times \cup {Unset})
      BY <1>rows
    <3>2. CASE a = b /\ u \in enrolled
      <4>1. participant[a][u].status = "none"
        BY <2>1, <3>2 DEF LInv, NewIsEmpty
      <4>2. participant'[a][u] = [participant[a][u] EXCEPT !.status = creating[b][u]]
        BY <1>0, <1>3, <3>2, <4>1 DEF CommitCreate, InsertBatch, TypeOK
      <4>3. participant'[a][u].status = creating[b][u]
        BY <3>1, <4>2 DEF ParticipantRow
      <4> QED
        BY <2>1, <3>2, <4>1, <4>3
           DEF StageOf, Stages, Unfinished, Lifecycle!Stages, Lifecycle!Unfinished
    <3>3. CASE ~(a = b /\ u \in enrolled)
      <4>1. participant'[a][u] = participant[a][u]
        BY <1>0, <1>3, <3>3 DEF CommitCreate, InsertBatch, TypeOK
      <4> QED
        BY <4>1 DEF StageOf
    <3> QED
      BY <3>2, <3>3
  <2>3. Lifecycle!MoveRows({b}, {"none"}, Lifecycle!Stages)
    BY <1>0, <2>2, RowsMove
  <2> QED
    BY <1>3, <2>1, <2>3 DEF CommitCreate, Lifecycle!Create
<1>4. ASSUME NEW b \in Assignments, CancelAssignment(b)
      PROVE  Lifecycle!Close({b})
  <2>1. ASSUME NEW a \in Assignments, NEW u \in Users
        PROVE  \/ StageOf(a, u)' = StageOf(a, u)
               \/ /\ a \in {b} /\ StageOf(a, u) \in Lifecycle!Unfinished
                  /\ StageOf(a, u)' \in {"cancelled"}
    <3>1. participant[a][u] \in ParticipantRow(Times \cup {Unset})
      BY <1>rows
    <3>2. CASE a = b /\ participant[a][u].status \in Unfinished
      <4>1. participant'[a][u] = [participant[a][u] EXCEPT !.status = "cancelled"]
        BY <1>0, <1>4, <3>2 DEF CancelAssignment, CancelParticipants, TypeOK
      <4>2. participant'[a][u].status = "cancelled"
        BY <3>1, <4>1 DEF ParticipantRow
      <4> QED
        BY <3>2, <4>2 DEF StageOf, Unfinished, Lifecycle!Unfinished
    <3>3. CASE ~(a = b /\ participant[a][u].status \in Unfinished)
      <4>1. participant'[a][u] = participant[a][u]
        BY <1>0, <1>4, <3>3 DEF CancelAssignment, CancelParticipants, TypeOK
      <4> QED
        BY <4>1 DEF StageOf
    <3> QED
      BY <3>2, <3>3
  <2>2. Lifecycle!MoveRows({b}, Lifecycle!Unfinished, {"cancelled"})
    BY <1>0, <2>1, RowsMove
  <2>3. assignment' = [a \in Assignments |-> IF a \in {b} THEN "cancelled" ELSE assignment[a]]
    BY <1>0, <1>4 DEF CancelAssignment, TypeOK
  <2>4. b \in Lifecycle!Active
    BY <1>4 DEF CancelAssignment, Lifecycle!Active
  <2> QED
    BY <2>2, <2>3, <2>4 DEF Lifecycle!Close
<1>5. ASSUME NEW b \in Assignments, AssignmentStep(b)
      PROVE  Lifecycle!Next \/ UNCHANGED Lifecycle!vars
  <2>1. CASE ReadForCreate(b)
    BY <1>1, <2>1 DEF ReadForCreate, tables
  <2>2. ASSUME NEW enrolled \in SUBSET Users, CommitCreate(b, enrolled)
        PROVE  Lifecycle!Next
    BY <1>3, <2>2 DEF Lifecycle!Next
  <2>3. CASE CancelAssignment(b)
    BY <1>4, <2>3 DEF Lifecycle!Next
  <2> QED
    BY <1>5, <2>1, <2>2, <2>3 DEF AssignmentStep
<1>6. ASSUME NEW d \in {Unset, Duration}, ProcessingCompleted(d)
      PROVE  Lifecycle!Next
  <2>1. Advance({}, Crossing(d), clock) /\ UNCHANGED assignment /\ clock \in Times
    BY <1>0, <1>6 DEF ProcessingCompleted, TypeOK
  <2>2. Crossing(d) \in SUBSET Users
    BY DEF Crossing
  <2>3. Lifecycle!Start \/ Lifecycle!Complete
    BY <1>0, <2>1, <2>2, AdvanceMaps
  <2> QED
    BY <2>3 DEF Lifecycle!Next
<1>7. CASE ProcessingFailed \/ CleanupStaleSessions \/ Tick \/ UNCHANGED vars
  BY <1>1, <1>7 DEF ProcessingFailed, CleanupStaleSessions, Tick, vars, tables
<1> QED
  BY <1>2, <1>5, <1>6, <1>7 DEF Next, VideoStep

\* Heartbeats and the recount start and complete rows of active assignments only,
\* for any number of them in flight while assignments are created and cancelled.
THEOREM WatchImplements == Spec => ImplementsLifecycle
<1>1. Init => LInv /\ Lifecycle!Init
  BY WInvInitially
     DEF Init, ParticipationInit, NoParticipant, LInv, NewIsEmpty, Lifecycle!Init
<1>2. LInv /\ [Next]_vars => LInv'
  BY NewStaysEmpty, WInvStep DEF LInv
<1>3. LInv /\ LInv' /\ [Next]_vars => [Lifecycle!Next]_(Lifecycle!vars)
  BY LifecycleStep
<1> QED
  BY <1>1, <1>2, <1>3, PTL DEF Spec, ImplementsLifecycle, Lifecycle!Spec
=============================================================================
