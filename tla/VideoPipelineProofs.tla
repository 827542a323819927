------------------------ MODULE VideoPipelineProofs ------------------------
(***************************************************************************)
(* The safety properties of VideoPipeline for every set of videos and      *)
(* clients and every value of the timeouts and of max_processing_attempts. *)
(* IInv is the inductive invariant; each of its parts has a lemma below.   *)
(***************************************************************************)
EXTENDS VideoPipeline, SequenceTheorems, TLAPS

\* The attempt and the failure class that go with each status.
RowShape ==
  \A v \in Videos :
    /\ status[v] \in {"none", "uploading"} => attempt[v] = 0
    /\ status[v] \in Processing \cup {"ready"} => attempt[v] \in Attempts
    /\ failure[v] # "none" => status[v] = "failed"

\* Nothing is known anywhere of an attempt the video has not reached.
FutureAttempts ==
  \A v \in Videos, a \in Attempts :
    a > attempt[v] => outbox[<<v, a>>] = 0 /\ <<v, a>> \notin tasks

\* What the relay has published and not committed is a row and a message.
SentHaveRows == \A t \in sent : outbox[t] > 0 /\ t \in tasks

\* What HeadObject saw can only be gone from a video that has ended.
InflightHaveOriginal ==
  \A c \in Clients, v \in Videos : inflight[c] = v =>
    "original" \in storage[v] \/ status[v] \in {"failed", "deleted"}

\* So can the results a worker has uploaded, or has told of.
ResultsAreStored ==
  \A v \in Videos :
    \/ "hls" \in storage[v]
    \/ status[v] \in {"failed", "deleted"}
    \/ /\ \A a \in Attempts : worker[<<v, a>>] # "uploaded"
       /\ \A i \in 1..Len(events[v]) : events[v][i].kind # "completed"

IInv ==
  /\ TypeOK
  /\ RowShape
  /\ SentHaveRows
  /\ FutureAttempts
  /\ OneRowPerAttempt
  /\ QueuedWorkIsNeverLost
  /\ CleanupSparesLiveVideos
  /\ InflightHaveOriginal
  /\ ProcessableHasOriginal
  /\ ResultsAreStored
  /\ ReadyIsServable
  /\ TemporaryMeansExhausted

\* The indicator of a lane is never older than a video the lane has taken, and
\* a tick calls no lane stalled that took a video before it.
LaneIndicator ==
  /\ ~ticking => stalled = {}
  /\ \A w \in Videos : status[w] = "compressing" =>
       /\ laneAge[urgent[w]] <= age[w]
       /\ urgent[w] \in stalled /\ age[w] > 0 => age[w] >= QueuedStallTimeout

-----------------------------------------------------------------------------
(* Types *)

LEMMA Constants ==
  /\ MaxProcessingAttempts \in Nat \ {0} /\ MaxAge \in Nat
  /\ 1 \in Attempts /\ Attempts \subseteq Nat \ {0}
  /\ QueuedStallTimeout \in Nat \ {0} /\ QueuedStallTimeout < MaxAge
BY AttemptsAssumption, TimeAssumption DEF Attempts, Timeouts

LEMMA InitType == Init => TypeOK
<1>1. (CHOOSE l \in Lanes : TRUE) \in Lanes
  BY LaneAssumption
<1>2. << >> \in Seq(Event) /\ Len(<< >>) = 0
  BY EmptySeq
<1> SUFFICES ASSUME Init PROVE TypeOK
  OBVIOUS
<1>3. events \in [Videos -> Seq(Event)] /\ \A v \in Videos : handled[v] <= Len(events[v])
  BY <1>2 DEF Init
<1>4. urgent \in [Videos -> Lanes]
  BY <1>1 DEF Init
<1>5. /\ attempt \in [Videos -> 0..MaxProcessingAttempts]
      /\ age \in [Videos -> 0..MaxAge]
      /\ laneAge \in [Lanes -> 0..MaxAge]
  BY Constants DEF Init
<1> QED
  BY <1>3, <1>4, <1>5
     DEF Init, TypeOK, Statuses, FailureClasses, Objects, Cleanups, Phases

\* The log of a video stays a log, and the consumer stays inside it.
LogTyped ==
  /\ events \in [Videos -> Seq(Event)]
  /\ handled \in [Videos -> Nat]
  /\ \A v \in Videos : handled[v] <= Len(events[v])

\* The same of the row and the lanes.
RowTyped ==
  /\ status \in [Videos -> Statuses]
  /\ attempt \in [Videos -> 0..MaxProcessingAttempts]
  /\ failure \in [Videos -> FailureClasses]
  /\ urgent \in [Videos -> Lanes]
  /\ age \in [Videos -> 0..MaxAge]
  /\ laneAge \in [Lanes -> 0..MaxAge]

LEMMA SetRowTyped ==
  ASSUME RowTyped, NEW v \in Videos, NEW s \in Statuses,
         NEW a \in 0..MaxProcessingAttempts, NEW class \in FailureClasses,
         SetRow(v, s, a, class), laneAge' \in [Lanes -> 0..MaxAge]
  PROVE  RowTyped'
BY Constants DEF RowTyped, SetRow

LEMMA EmitTyped ==
  ASSUME LogTyped, NEW v \in Videos, NEW a \in Attempts, NEW k \in EventKinds,
         Emit(v, k, a), UNCHANGED handled
  PROVE  LogTyped'
<1> DEFINE e == [kind |-> k, attempt |-> a]
<1>1. e \in Event
  BY DEF Event
<1>2. events' = [events EXCEPT ![v] = Append(events[v], e)]
  BY DEF Emit
<1>3. /\ Append(events[v], e) \in Seq(Event)
      /\ Len(Append(events[v], e)) = Len(events[v]) + 1
  BY <1>1, AppendProperties DEF LogTyped
<1>4. \A w \in Videos : Len(events[w]) \in Nat
  BY LenProperties DEF LogTyped
<1> QED
  BY <1>2, <1>3, <1>4 DEF LogTyped

LEMMA CommitTyped ==
  ASSUME LogTyped, NEW v \in Videos, CommitOffset(v)
  PROVE  LogTyped'
<1> DEFINE rest == SubSeq(events[v], handled[v] + 1, Len(events[v]))
<1>1. Len(events[v]) \in Nat /\ handled[v] \in Nat /\ events[v] \in Seq(Event)
  BY LenProperties DEF LogTyped
<1>2. \A i \in handled[v] + 1..Len(events[v]) : events[v][i] \in Event
  BY <1>1, ElementOfSeq
<1>3. rest \in Seq(Event)
  BY <1>1, <1>2, SubSeqProperties
<1>4. Len(rest) \in Nat
  BY <1>3, LenProperties
<1> QED
  BY <1>3, <1>4 DEF LogTyped, CommitOffset

LEMMA RowTypedStep ==
  ASSUME TypeOK, [Next]_vars
  PROVE  RowTyped'
<1> USE Constants
<1>1. RowTyped
  BY DEF TypeOK, RowTyped
<1>2. CASE UNCHANGED <<row, laneAge>>
  BY <1>1, <1>2 DEF row, RowTyped
<1>3. ASSUME NEW v \in Videos, CreateUpload(v) PROVE RowTyped'
  BY <1>1, <1>3 DEF CreateUpload, RowTyped, Statuses
<1>4. ASSUME NEW v \in Videos, NEW c \in Clients, CompleteQueue(c, v) PROVE RowTyped'
  <2>1. /\ SetRow(v, "queued", 1, failure[v]) /\ UNCHANGED laneAge
        /\ failure[v] \in FailureClasses
    BY <1>1, <1>4 DEF CompleteQueue, RowTyped
  <2> QED
    BY <1>1, <2>1, SetRowTyped DEF RowTyped, Statuses
<1>5. ASSUME NEW v \in Videos, Delete(v) PROVE RowTyped'
  <2>1. /\ SetRow(v, "deleted", attempt[v], "none") /\ UNCHANGED laneAge
        /\ attempt[v] \in 0..MaxProcessingAttempts
    BY <1>1, <1>5 DEF Delete, RowTyped
  <2> QED
    BY <1>1, <2>1, SetRowTyped DEF RowTyped, Statuses, FailureClasses
<1>6. ASSUME NEW v \in Videos, NEW e \in Event, Consume(v, e) PROVE RowTyped'
  <2>0. /\ e.attempt \in Attempts
        /\ attempt[v] \in 0..MaxProcessingAttempts
        /\ failure[v] \in FailureClasses
    BY <1>1 DEF RowTyped, Event
  <2>1. CASE ApplyProcessingStarted(v, e)
    <3>1. CASE UNCHANGED <<row, laneAge>>
      BY <1>2, <3>1
    <3>2. CASE /\ SetRow(v, "compressing", attempt[v], failure[v])
               /\ laneAge' = [laneAge EXCEPT ![urgent[v]] = 0]
      <4>1. laneAge' \in [Lanes -> 0..MaxAge]
        BY <1>1, <3>2 DEF RowTyped
      <4> QED
        BY <1>1, <2>0, <3>2, <4>1, SetRowTyped DEF Statuses
    <3> QED
      BY <2>1, <3>1, <3>2 DEF ApplyProcessingStarted
  <2>2. CASE ApplyProcessingCompleted(v, e)
    <3>1. \/ UNCHANGED <<row, laneAge>>
          \/ SetRow(v, "ready", attempt[v], "none") /\ UNCHANGED laneAge
      BY <2>2 DEF ApplyProcessingCompleted
    <3> QED
      BY <1>1, <1>2, <2>0, <3>1, SetRowTyped DEF RowTyped, Statuses, FailureClasses
  <2>3. CASE ApplyProcessingFailed(v, e)
    <3>1. /\ UNCHANGED laneAge
          /\ \/ UNCHANGED row
             \/ \E class \in FailureClasses : SetRow(v, "failed", attempt[v], class)
             \/ /\ e.attempt < MaxProcessingAttempts
                /\ \E s \in Statuses, class \in FailureClasses :
                     SetRow(v, s, e.attempt + 1, class)
      BY <2>0, <2>3
         DEF ApplyProcessingFailed, FailProcessing, RequeueAfterTemporaryFailure,
             FailureClasses, Statuses
    <3>2. CASE \E class \in FailureClasses : SetRow(v, "failed", attempt[v], class)
      BY <1>1, <2>0, <3>1, <3>2, SetRowTyped DEF RowTyped, Statuses
    <3>3. CASE /\ e.attempt < MaxProcessingAttempts
               /\ \E s \in Statuses, class \in FailureClasses :
                    SetRow(v, s, e.attempt + 1, class)
      <4>1. e.attempt + 1 \in 0..MaxProcessingAttempts
        BY <2>0, <3>3 DEF Attempts
      <4> QED
        BY <1>1, <3>1, <3>3, <4>1, SetRowTyped DEF RowTyped
    <3> QED
      BY <1>2, <3>1, <3>2, <3>3
  <2> QED
    BY <1>6, <2>1, <2>2, <2>3 DEF Consume
<1>7. CASE ClockTick
  BY <1>1, <1>7 DEF ClockTick, RowTyped
<1>8. CASE FailTimedOut
  BY <1>1, <1>8 DEF FailTimedOut, RowTyped, Statuses, FailureClasses
<1> QED
  BY <1>2, <1>3, <1>4, <1>5, <1>6, <1>7, <1>8
     DEF Next, Requests, Relay, Worker, Consumer, Watchdog, Hooks, vars, row,
         ClientPut, CompleteBegin, CompleteLate, CompleteConflict,
         RelayPublish, RelayCommit, RelayRollback, WorkerTake, WorkerUpload,
         WorkerComplete, WorkerFail, WorkerCrash, CommitOffset, ConsumerRestart,
         ReadLanes, TickFails, RunHook, LoseHook

LEMMA LogTypedStep ==
  ASSUME TypeOK, [Next]_vars
  PROVE  LogTyped'
<1>1. LogTyped
  BY DEF TypeOK, LogTyped
<1>2. CASE UNCHANGED <<events, handled>>
  BY <1>1, <1>2 DEF LogTyped
<1>3. ASSUME NEW v \in Videos, NEW a \in Attempts,
             WorkerTake(v, a) \/ WorkerComplete(v, a) \/ WorkerFail(v, a)
      PROVE  LogTyped'
  <2>1. UNCHANGED handled /\ \E k \in EventKinds : Emit(v, k, a)
    BY <1>3 DEF WorkerTake, WorkerComplete, WorkerFail, EventKinds
  <2> QED
    BY <1>1, <2>1, EmitTyped
<1>4. ASSUME NEW v \in Videos, NEW e \in Event, Consume(v, e) PROVE LogTyped'
  <2>1. \A w \in Videos : Len(events[w]) \in Nat
    BY <1>1, LenProperties DEF LogTyped
  <2> QED
    BY <1>1, <1>4, <2>1 DEF Consume, Receive, LogTyped
<1>5. ASSUME NEW v \in Videos, CommitOffset(v) PROVE LogTyped'
  BY <1>1, <1>5, CommitTyped
<1>6. ASSUME NEW v \in Videos, ConsumerRestart(v) PROVE LogTyped'
  <2>1. \A w \in Videos : Len(events[w]) \in Nat
    BY <1>1, LenProperties DEF LogTyped
  <2> QED
    BY <1>1, <1>6, <2>1 DEF ConsumerRestart, LogTyped
<1> QED
  BY <1>2, <1>3, <1>4, <1>5, <1>6
     DEF Next, Requests, Relay, Worker, Consumer, Watchdog, Hooks, vars, topic,
         CreateUpload, ClientPut, CompleteBegin, CompleteQueue, CompleteLate,
         CompleteConflict, Delete, RelayPublish, RelayCommit, RelayRollback,
         WorkerUpload, WorkerCrash, ClockTick, ReadLanes, FailTimedOut, TickFails,
         RunHook, LoseHook

\* The rest of TypeOK: the tables beside the row, the topics, S3 and what the
\* processes hold.
RestTyped ==
  /\ assets \in [Videos -> SUBSET Objects]
  /\ outbox \in [Tasks -> Nat]
  /\ sent \subseteq Tasks
  /\ tasks \subseteq Tasks
  /\ worker \in [Tasks -> Phases]
  /\ storage \in [Videos -> SUBSET Objects]
  /\ hooks \in [Videos -> SUBSET Cleanups]
  /\ ticking \in BOOLEAN
  /\ stalled \subseteq Lanes
  /\ inflight \in [Clients -> Videos \cup {NoVideo}]

LEMMA PublishTyped ==
  ASSUME outbox \in [Tasks -> Nat], NEW v \in Videos, NEW a \in Attempts,
         PublishOriginalUploaded(v, a)
  PROVE  outbox' \in [Tasks -> Nat]
BY DEF PublishOriginalUploaded, Tasks

LEMMA RestTypedStep ==
  ASSUME TypeOK, SentHaveRows, [Next]_vars
  PROVE  RestTyped'
<1> USE Constants DEF Objects, Cleanups, Phases
<1>1. RestTyped
  BY DEF TypeOK, RestTyped
<1>2. CASE UNCHANGED vars
  BY <1>1, <1>2 DEF RestTyped, vars
<1>3. ASSUME NEW v \in Videos,
             CreateUpload(v) \/ ClientPut(v) \/ Delete(v)
      PROVE  RestTyped'
  BY <1>1, <1>3 DEF RestTyped, CreateUpload, ClientPut, Delete, queue, watchdog
<1>4. ASSUME NEW v \in Videos, NEW c \in Clients,
             CompleteBegin(c, v) \/ CompleteLate(c, v) \/ CompleteConflict(c, v)
      PROVE  RestTyped'
  BY <1>1, <1>4
     DEF RestTyped, CompleteBegin, CompleteLate, CompleteConflict, queue, watchdog
<1>5. ASSUME NEW v \in Videos, NEW c \in Clients, CompleteQueue(c, v)
      PROVE  RestTyped'
  <2>1. outbox' \in [Tasks -> Nat]
    BY <1>1, <1>5, PublishTyped DEF RestTyped, CompleteQueue
  <2> QED
    BY <1>1, <1>5, <2>1 DEF RestTyped, CompleteQueue, watchdog
<1>6. ASSUME NEW t \in Tasks,
             RelayPublish(t) \/ RelayCommit(t) \/ RelayRollback(t)
      PROVE  RestTyped'
  <2>1. t \in sent => outbox[t] - 1 \in Nat
    BY <1>1 DEF RestTyped, SentHaveRows
  <2> QED
    BY <1>1, <1>6, <2>1
       DEF RestTyped, RelayPublish, RelayCommit, RelayRollback, watchdog
<1>7. ASSUME NEW v \in Videos, NEW a \in Attempts,
             \/ WorkerTake(v, a) \/ WorkerUpload(v, a) \/ WorkerComplete(v, a)
             \/ WorkerFail(v, a) \/ WorkerCrash(v, a)
      PROVE  RestTyped'
  BY <1>1, <1>7
     DEF RestTyped, WorkerTake, WorkerUpload, WorkerComplete, WorkerFail,
         WorkerCrash, queue, watchdog
<1>8. ASSUME NEW v \in Videos, NEW e \in Event, Consume(v, e)
      PROVE  RestTyped'
  <2>1. outbox' \in [Tasks -> Nat]
    <3>1. e.attempt \in Attempts
      BY DEF Event
    <3>2. \/ UNCHANGED outbox
          \/ /\ e.attempt < MaxProcessingAttempts
             /\ PublishOriginalUploaded(v, e.attempt + 1)
      BY <1>8
         DEF Consume, ApplyProcessingStarted, ApplyProcessingCompleted,
             ApplyProcessingFailed, RequeueAfterTemporaryFailure
    <3>3. e.attempt < MaxProcessingAttempts => e.attempt + 1 \in Attempts
      BY <3>1 DEF Attempts
    <3> QED
      BY <1>1, <3>2, <3>3, PublishTyped DEF RestTyped
  <2>2. /\ assets' \in [Videos -> SUBSET Objects]
        /\ hooks' \in [Videos -> SUBSET Cleanups]
    BY <1>1, <1>8
       DEF RestTyped, Consume, ApplyProcessingStarted, ApplyProcessingCompleted,
           ApplyProcessingFailed
  <2> QED
    BY <1>1, <1>8, <2>1, <2>2 DEF RestTyped, Consume, Receive, watchdog
<1>9. ASSUME NEW v \in Videos, CommitOffset(v) \/ ConsumerRestart(v)
      PROVE  RestTyped'
  BY <1>1, <1>9 DEF RestTyped, CommitOffset, ConsumerRestart, queue, watchdog
<1>10. CASE ClockTick \/ ReadLanes \/ TickFails
  BY <1>1, <1>10 DEF RestTyped, ClockTick, ReadLanes, TickFails, queue, watchdog
<1>11. CASE FailTimedOut
  BY <1>1, <1>11 DEF RestTyped, FailTimedOut, queue
<1>12. ASSUME NEW v \in Videos, NEW h \in Cleanups, RunHook(v, h) \/ LoseHook(v, h)
      PROVE  RestTyped'
  BY <1>1, <1>12 DEF RestTyped, RunHook, LoseHook, queue, watchdog
<1> QED
  BY <1>2, <1>3, <1>4, <1>5, <1>6, <1>7, <1>8, <1>9, <1>10, <1>11, <1>12
     DEF Next, Requests, Relay, Worker, Consumer, Watchdog, Hooks

LEMMA TypeStep ==
  ASSUME TypeOK, SentHaveRows, [Next]_vars
  PROVE  TypeOK'
BY RowTypedStep, LogTypedStep, RestTypedStep DEF TypeOK, RowTyped, LogTyped, RestTyped

-----------------------------------------------------------------------------
(* Who writes what: the actions a step can be when it changes a variable    *)

\* What applying an event can do to the row, the lanes, the assets, the outbox and
\* the hooks.
EventIgnored(v, e) ==
  /\ UNCHANGED <<row, laneAge, assets, outbox>>
  /\ \/ UNCHANGED hooks
     \/ /\ status[v] \in {"failed", "deleted"}
        /\ hooks' = [hooks EXCEPT ![v] = @ \cup {"hls"}]

EventStarts(v, e) ==
  /\ Applies(v, {"queued"}, e.attempt)
  /\ SetRow(v, "compressing", attempt[v], failure[v])
  /\ laneAge' = [laneAge EXCEPT ![urgent[v]] = 0]
  /\ UNCHANGED <<assets, outbox, hooks>>

EventFinishes(v, e) ==
  /\ Applies(v, Processing, e.attempt)
  /\ e.kind = "completed"
  /\ SetRow(v, "ready", attempt[v], "none")
  /\ assets' = [assets EXCEPT ![v] = @ \cup {"hls"}]
  /\ UNCHANGED <<laneAge, outbox, hooks>>

EventFails(v, e, class) ==
  /\ Applies(v, Processing, e.attempt)
  /\ class = "temporary" => e.attempt = MaxProcessingAttempts
  /\ SetRow(v, "failed", attempt[v], class)
  /\ UNCHANGED <<laneAge, assets, outbox, hooks>>

EventRequeues(v, e) ==
  /\ Applies(v, Processing, e.attempt)
  /\ e.attempt + 1 \in Attempts
  /\ SetRow(v, "queued", e.attempt + 1, failure[v])
  /\ PublishOriginalUploaded(v, e.attempt + 1)
  /\ UNCHANGED <<laneAge, assets, hooks>>

EventAbandons(v, e) ==
  /\ Applies(v, Processing, e.attempt)
  /\ "original" \notin assets[v]
  /\ UNCHANGED <<laneAge, assets, outbox, hooks>>

LEMMA ConsumeCases ==
  ASSUME NEW v \in Videos, NEW e \in Event, Consume(v, e)
  PROVE  \/ EventIgnored(v, e)
         \/ EventStarts(v, e)
         \/ EventFinishes(v, e)
         \/ EventFails(v, e, "permanent") \/ EventFails(v, e, "temporary")
         \/ EventRequeues(v, e)
         \/ EventAbandons(v, e)
<1>0. e.attempt \in 1..MaxProcessingAttempts /\ MaxProcessingAttempts \in Nat
  BY Constants DEF Event, Attempts
<1>1. CASE ApplyProcessingStarted(v, e)
  BY <1>1 DEF ApplyProcessingStarted, EventIgnored, EventStarts, row
<1>2. CASE ApplyProcessingCompleted(v, e)
  BY <1>2 DEF ApplyProcessingCompleted, EventIgnored, EventFinishes, row
<1>3. CASE ApplyProcessingFailed(v, e)
  <2>1. UNCHANGED <<laneAge, assets, hooks>>
    BY <1>3 DEF ApplyProcessingFailed
  <2>2. CASE /\ FailProcessing(v, e.attempt, "permanent")
             /\ UNCHANGED outbox
    BY <2>1, <2>2 DEF FailProcessing, EventIgnored, EventFails, row
  <2>3. CASE /\ e.attempt < MaxProcessingAttempts
             /\ RequeueAfterTemporaryFailure(v, e.attempt)
    <3>1. e.attempt + 1 \in Attempts
      BY <1>0, <2>3 DEF Attempts
    <3> QED
      BY <2>1, <2>3, <3>1
         DEF RequeueAfterTemporaryFailure, EventIgnored, EventRequeues, EventAbandons, row
  <2>4. CASE /\ e.attempt >= MaxProcessingAttempts
             /\ FailProcessing(v, e.attempt, "temporary")
             /\ UNCHANGED outbox
    <3>1. e.attempt = MaxProcessingAttempts
      BY <1>0, <2>4
    <3> QED
      BY <2>1, <2>4, <3>1 DEF FailProcessing, EventIgnored, EventFails, row
  <2> QED
    BY <1>3, <2>2, <2>3, <2>4 DEF ApplyProcessingFailed
<1> QED
  BY <1>1, <1>2, <1>3 DEF Consume

\* Only these actions write the row of a video; ClockTick only its age.
LEMMA RowWriters ==
  ASSUME [Next]_vars
  PROVE  \/ UNCHANGED <<status, attempt, failure, urgent>>
         \/ \E v \in Videos :
              \/ CreateUpload(v)
              \/ \E c \in Clients : CompleteQueue(c, v)
              \/ Delete(v)
              \/ \E e \in Event : Consume(v, e)
         \/ FailTimedOut
BY DEF Next, Requests, Relay, Worker, Consumer, Watchdog, Hooks, vars, row,
       ClientPut, CompleteBegin, CompleteLate, CompleteConflict,
       RelayPublish, RelayCommit, RelayRollback, WorkerTake, WorkerUpload,
       WorkerComplete, WorkerFail, WorkerCrash, CommitOffset, ConsumerRestart,
       ClockTick, ReadLanes, TickFails, RunHook, LoseHook

\* A video that has failed stays failed until it is deleted, and then deleted.
LEMMA EndIsFinal ==
  ASSUME TypeOK, ProcessableHasOriginal, [Next]_vars, NEW w \in Videos
  PROVE  /\ status[w] \in {"failed", "deleted"} => status'[w] \in {"failed", "deleted"}
         /\ status[w] = "deleted" => status'[w] = "deleted"
<1>1. status \in [Videos -> Statuses]
  BY DEF TypeOK
<1>2. CASE UNCHANGED status
  BY <1>2
<1>3. ASSUME NEW v \in Videos,
             CreateUpload(v) \/ Delete(v) \/ \E c \in Clients : CompleteQueue(c, v)
      PROVE  /\ status[w] \in {"failed", "deleted"} => status'[w] \in {"failed", "deleted"}
             /\ status[w] = "deleted" => status'[w] = "deleted"
  BY <1>1, <1>3 DEF CreateUpload, Delete, CompleteQueue, SetRow
<1>4. ASSUME NEW v \in Videos, NEW e \in Event, Consume(v, e)
      PROVE  /\ status[w] \in {"failed", "deleted"} => status'[w] \in {"failed", "deleted"}
             /\ status[w] = "deleted" => status'[w] = "deleted"
  BY <1>1, <1>4, ConsumeCases
     DEF EventIgnored, EventStarts, EventFinishes, EventFails, EventRequeues,
         EventAbandons, Applies, SetRow, Processing, row, ProcessableHasOriginal
<1>5. CASE FailTimedOut
  BY <1>1, <1>5 DEF FailTimedOut, TimedOut
<1> QED
  BY <1>2, <1>3, <1>4, <1>5, RowWriters

\* The same of the outbox and the topic of the tasks.
LEMMA QueueWriters ==
  ASSUME [Next]_vars
  PROVE  \/ UNCHANGED queue
         \/ \E v \in Videos, c \in Clients : CompleteQueue(c, v)
         \/ \E t \in Tasks : RelayPublish(t) \/ RelayCommit(t) \/ RelayRollback(t)
         \/ \E v \in Videos, e \in Event : Consume(v, e) /\ UNCHANGED <<sent, tasks>>
BY DEF Next, Requests, Relay, Worker, Consumer, Watchdog, Hooks, vars, queue,
       CreateUpload, ClientPut, CompleteBegin, CompleteLate, CompleteConflict, Delete,
       WorkerTake, WorkerUpload, WorkerComplete, WorkerFail, WorkerCrash, Consume,
       Receive, CommitOffset, ConsumerRestart, ClockTick, ReadLanes, FailTimedOut,
       TickFails, RunHook, LoseHook

-----------------------------------------------------------------------------
(* The parts of the invariant, one lemma for each *)

LEMMA RowShapeStep ==
  ASSUME IInv, [Next]_vars
  PROVE  RowShape'
<1> USE Constants DEF Processing
<1>1. /\ status \in [Videos -> Statuses]
      /\ attempt \in [Videos -> 0..MaxProcessingAttempts]
      /\ failure \in [Videos -> FailureClasses]
      /\ RowShape
  BY DEF IInv, TypeOK
<1>2. CASE UNCHANGED <<status, attempt, failure>>
  BY <1>1, <1>2 DEF RowShape
<1>3. ASSUME NEW v \in Videos,
             CreateUpload(v) \/ Delete(v) \/ \E c \in Clients : CompleteQueue(c, v)
      PROVE  RowShape'
  BY <1>1, <1>3 DEF RowShape, CreateUpload, Delete, CompleteQueue, SetRow
<1>4. ASSUME NEW v \in Videos, NEW e \in Event, Consume(v, e)
      PROVE  RowShape'
  <2>1. ~EventAbandons(v, e)
    BY DEF IInv, ProcessableHasOriginal, EventAbandons, Applies
  <2> QED
    BY <1>1, <1>4, <2>1, ConsumeCases
       DEF RowShape, EventIgnored, EventStarts, EventFinishes, EventFails,
           EventRequeues, Applies, SetRow, row
<1>5. CASE FailTimedOut
  BY <1>1, <1>5 DEF RowShape, FailTimedOut, TimedOut
<1> QED
  BY <1>2, <1>3, <1>4, <1>5, RowWriters

LEMMA SentHaveRowsStep ==
  ASSUME IInv, [Next]_vars
  PROVE  SentHaveRows'
<1>1. /\ outbox \in [Tasks -> Nat]
      /\ sent \subseteq Tasks
      /\ SentHaveRows
  BY DEF IInv, TypeOK
<1>2. CASE UNCHANGED queue
  BY <1>1, <1>2 DEF SentHaveRows, queue
<1>3. ASSUME NEW v \in Videos, NEW a \in Attempts, PublishOriginalUploaded(v, a),
             UNCHANGED <<sent, tasks>>
      PROVE  SentHaveRows'
  BY <1>1, <1>3 DEF SentHaveRows, PublishOriginalUploaded, Tasks
<1>4. ASSUME NEW v \in Videos, NEW c \in Clients, CompleteQueue(c, v)
      PROVE  SentHaveRows'
  BY <1>3, <1>4, Constants DEF CompleteQueue
<1>5. ASSUME NEW t \in Tasks, RelayPublish(t) \/ RelayCommit(t) \/ RelayRollback(t)
      PROVE  SentHaveRows'
  BY <1>1, <1>5 DEF SentHaveRows, RelayPublish, RelayCommit, RelayRollback
<1>6. ASSUME NEW v \in Videos, NEW e \in Event, Consume(v, e), UNCHANGED <<sent, tasks>>
      PROVE  SentHaveRows'
  BY <1>2, <1>3, <1>6, ConsumeCases
     DEF EventIgnored, EventStarts, EventFinishes, EventFails, EventRequeues,
         EventAbandons, queue
<1> QED
  BY <1>2, <1>4, <1>5, <1>6, QueueWriters

\* A step publishes at most the attempt its video moves to.
LEMMA FutureAttemptsStep ==
  ASSUME IInv, [Next]_vars
  PROVE  FutureAttempts' /\ OneRowPerAttempt'
<1> USE Constants
<1>1. /\ outbox \in [Tasks -> Nat]
      /\ attempt \in [Videos -> 0..MaxProcessingAttempts]
      /\ RowShape /\ SentHaveRows /\ FutureAttempts /\ OneRowPerAttempt
  BY DEF IInv, TypeOK
<1> DEFINE Goal == FutureAttempts' /\ OneRowPerAttempt'
<1>2. ASSUME UNCHANGED <<outbox, tasks>>,
             \A v \in Videos : attempt'[v] \in Nat /\ attempt'[v] >= attempt[v]
      PROVE  Goal
  BY <1>1, <1>2 DEF FutureAttempts, OneRowPerAttempt
<1>3. ASSUME NEW v \in Videos, NEW a \in Attempts, a = attempt[v] + 1,
             attempt' = [attempt EXCEPT ![v] = a],
             PublishOriginalUploaded(v, a), UNCHANGED tasks
      PROVE  Goal
  <2>1. outbox[<<v, a>>] = 0
    BY <1>1, <1>3 DEF FutureAttempts
  <2>2. \A w \in Videos, b \in Attempts :
          /\ <<w, b>> = <<v, a>> => outbox'[<<w, b>>] = 1 /\ attempt'[w] = b
          /\ <<w, b>> # <<v, a>> => outbox'[<<w, b>>] = outbox[<<w, b>>]
    BY <1>1, <1>3, <2>1 DEF PublishOriginalUploaded, Tasks
  <2>3. \A w \in Videos : attempt'[w] \in Nat /\ attempt'[w] >= attempt[w]
    BY <1>1, <1>3
  <2> QED
    BY <1>1, <1>3, <2>2, <2>3 DEF FutureAttempts, OneRowPerAttempt
<1>4. ASSUME NEW v \in Videos,
             CreateUpload(v) \/ Delete(v)
      PROVE  Goal
  BY <1>1, <1>2, <1>4 DEF CreateUpload, Delete, SetRow, queue
<1>5. ASSUME NEW v \in Videos, NEW c \in Clients, CompleteQueue(c, v)
      PROVE  Goal
  <2>1. /\ attempt' = [attempt EXCEPT ![v] = 1]
        /\ PublishOriginalUploaded(v, 1)
        /\ UNCHANGED tasks
    BY <1>5 DEF CompleteQueue, SetRow
  <2>2. attempt[v] = 0
    BY <1>1, <1>5 DEF CompleteQueue, RowShape
  <2>3. 1 \in Attempts /\ 1 = attempt[v] + 1
    BY <2>2
  <2> QED
    BY <1>3, <2>1, <2>3
<1>6. ASSUME NEW v \in Videos, NEW e \in Event, Consume(v, e)
      PROVE  Goal
  <2>1. UNCHANGED tasks
    BY <1>6 DEF Consume, Receive
  <2>2. ~EventAbandons(v, e)
    BY DEF IInv, ProcessableHasOriginal, EventAbandons, Applies
  <2>3. CASE EventRequeues(v, e)
    BY <1>1, <1>3, <2>1, <2>3 DEF EventRequeues, Applies, SetRow
  <2>4. CASE UNCHANGED outbox /\ \A w \in Videos : attempt'[w] = attempt[w]
    BY <1>1, <1>2, <2>1, <2>4
  <2> QED
    BY <1>1, <1>6, <2>2, <2>3, <2>4, ConsumeCases
       DEF EventIgnored, EventStarts, EventFinishes, EventFails, SetRow, row
<1>7. ASSUME NEW t \in Tasks, RelayPublish(t) \/ RelayCommit(t) \/ RelayRollback(t)
      PROVE  Goal
  BY <1>1, <1>7
     DEF FutureAttempts, OneRowPerAttempt, SentHaveRows, RelayPublish, RelayCommit,
         RelayRollback, row, Tasks
<1>8. CASE UNCHANGED queue /\ UNCHANGED attempt
  BY <1>1, <1>2, <1>8 DEF queue
<1>9. CASE FailTimedOut
  BY <1>1, <1>2, <1>9 DEF FailTimedOut, queue
<1> QED
  BY <1>4, <1>5, <1>6, <1>7, <1>8, <1>9, QueueWriters, RowWriters

\* The row of the current attempt leaves the outbox only after its message.
LEMMA QueuedWorkStep ==
  ASSUME IInv, [Next]_vars
  PROVE  QueuedWorkIsNeverLost'
<1> USE Constants
<1>1. /\ outbox \in [Tasks -> Nat]
      /\ status \in [Videos -> Statuses]
      /\ attempt \in [Videos -> 0..MaxProcessingAttempts]
      /\ RowShape /\ SentHaveRows /\ QueuedWorkIsNeverLost
  BY DEF IInv, TypeOK
<1> DEFINE Goal == QueuedWorkIsNeverLost'
<1>2. ASSUME NEW v \in Videos, NEW a \in Attempts,
             attempt' = [attempt EXCEPT ![v] = a],
             \A w \in Videos \ {v} : status'[w] = status[w],
             PublishOriginalUploaded(v, a), UNCHANGED tasks
      PROVE  Goal
  <2>1. outbox'[<<v, a>>] > 0
    BY <1>1, <1>2 DEF PublishOriginalUploaded, Tasks
  <2>2. \A t \in Tasks : outbox[t] > 0 => outbox'[t] > 0
    BY <1>1, <1>2 DEF PublishOriginalUploaded, Tasks
  <2> QED
    BY <1>1, <1>2, <2>1, <2>2 DEF QueuedWorkIsNeverLost, Tasks
<1>3. ASSUME UNCHANGED <<outbox, tasks>>,
             \A w \in Videos : status'[w] = "queued" =>
               status[w] = "queued" /\ attempt'[w] = attempt[w]
      PROVE  Goal
  BY <1>1, <1>3 DEF QueuedWorkIsNeverLost
<1>4. ASSUME NEW v \in Videos,
             CreateUpload(v) \/ Delete(v)
      PROVE  Goal
  BY <1>1, <1>3, <1>4 DEF CreateUpload, Delete, SetRow, queue
<1>5. ASSUME NEW v \in Videos, NEW c \in Clients, CompleteQueue(c, v)
      PROVE  Goal
  <2>1. /\ attempt' = [attempt EXCEPT ![v] = 1]
        /\ \A w \in Videos \ {v} : status'[w] = status[w]
        /\ PublishOriginalUploaded(v, 1)
        /\ UNCHANGED tasks
    BY <1>1, <1>5 DEF CompleteQueue, SetRow
  <2> QED
    BY <1>2, <2>1
<1>6. ASSUME NEW v \in Videos, NEW e \in Event, Consume(v, e)
      PROVE  Goal
  <2>1. UNCHANGED tasks
    BY <1>6 DEF Consume, Receive
  <2>2. ~EventAbandons(v, e)
    BY DEF IInv, ProcessableHasOriginal, EventAbandons, Applies
  <2>3. CASE EventRequeues(v, e)
    BY <1>1, <1>2, <2>1, <2>3 DEF EventRequeues, Applies, SetRow
  <2>4. CASE /\ UNCHANGED outbox
             /\ \A w \in Videos : status'[w] = "queued" =>
                  status[w] = "queued" /\ attempt'[w] = attempt[w]
    BY <1>3, <2>1, <2>4
  <2> QED
    BY <1>1, <1>6, <2>2, <2>3, <2>4, ConsumeCases
       DEF EventIgnored, EventStarts, EventFinishes, EventFails, SetRow, row
<1>7. ASSUME NEW t \in Tasks, RelayPublish(t) \/ RelayCommit(t) \/ RelayRollback(t)
      PROVE  Goal
  BY <1>1, <1>7
     DEF QueuedWorkIsNeverLost, SentHaveRows, RelayPublish, RelayCommit,
         RelayRollback, row, Tasks
<1>8. CASE UNCHANGED queue /\ UNCHANGED <<status, attempt>>
  BY <1>1, <1>3, <1>8 DEF queue
<1>9. CASE FailTimedOut
  BY <1>1, <1>3, <1>9 DEF FailTimedOut, queue
<1> QED
  BY <1>4, <1>5, <1>6, <1>7, <1>8, <1>9, QueueWriters, RowWriters

\* A hook is registered for a video that has ended, and that is final.
LEMMA CleanupStep ==
  ASSUME IInv, [Next]_vars
  PROVE  CleanupSparesLiveVideos'
<1>1. /\ hooks \in [Videos -> SUBSET Cleanups]
      /\ status \in [Videos -> Statuses]
      /\ TypeOK /\ ProcessableHasOriginal /\ CleanupSparesLiveVideos
  BY DEF IInv, TypeOK
<1>2. \A w \in Videos :
        /\ status[w] \in {"failed", "deleted"} => status'[w] \in {"failed", "deleted"}
        /\ status[w] = "deleted" => status'[w] = "deleted"
  BY <1>1, EndIsFinal
<1>3. ASSUME \A w \in Videos :
               /\ hooks'[w] # {} => hooks[w] # {} \/ status'[w] \in {"failed", "deleted"}
               /\ "all" \in hooks'[w] => "all" \in hooks[w] \/ status'[w] = "deleted"
      PROVE  CleanupSparesLiveVideos'
  BY <1>1, <1>2, <1>3 DEF CleanupSparesLiveVideos
<1>4. CASE UNCHANGED hooks
  BY <1>3, <1>4
<1>5. ASSUME NEW v \in Videos, Delete(v)
      PROVE  CleanupSparesLiveVideos'
  BY <1>1, <1>3, <1>5 DEF Delete, SetRow
<1>6. ASSUME NEW v \in Videos, NEW e \in Event, Consume(v, e)
      PROVE  CleanupSparesLiveVideos'
  <2>1. CASE EventIgnored(v, e)
    BY <1>1, <1>3, <1>4, <2>1 DEF EventIgnored, row
  <2> QED
    BY <1>4, <1>6, <2>1, ConsumeCases
       DEF EventStarts, EventFinishes, EventFails, EventRequeues, EventAbandons
<1>7. CASE FailTimedOut
  BY <1>1, <1>3, <1>7 DEF FailTimedOut
<1>8. ASSUME NEW v \in Videos, NEW h \in Cleanups, RunHook(v, h) \/ LoseHook(v, h)
      PROVE  CleanupSparesLiveVideos'
  BY <1>1, <1>3, <1>8 DEF RunHook, LoseHook
<1>9. ASSUME NEW v \in Videos, ConsumerRestart(v)
      PROVE  CleanupSparesLiveVideos'
  BY <1>1, <1>3, <1>9 DEF ConsumerRestart
<1> QED
  BY <1>4, <1>5, <1>6, <1>7, <1>8, <1>9
     DEF Next, Requests, Relay, Worker, Consumer, Watchdog, Hooks, vars,
         CreateUpload, ClientPut, CompleteBegin, CompleteQueue, CompleteLate,
         CompleteConflict, RelayPublish, RelayCommit, RelayRollback, WorkerTake,
         WorkerUpload, WorkerComplete, WorkerFail, WorkerCrash, CommitOffset,
         ClockTick, ReadLanes, TickFails

\* An object is lost only by a cleanup, so only by a video that has ended.
LEMMA StorageStep ==
  ASSUME IInv, [Next]_vars, NEW w \in Videos, NEW o \in Objects, o \in storage[w]
  PROVE  o \in storage'[w] \/ status'[w] \in {"failed", "deleted"}
<1>1. /\ storage \in [Videos -> SUBSET Objects]
      /\ CleanupSparesLiveVideos
  BY DEF IInv, TypeOK
<1>2. status[w] \in {"failed", "deleted"} => status'[w] \in {"failed", "deleted"}
  BY EndIsFinal DEF IInv
<1>3. CASE UNCHANGED storage
  BY <1>3
<1>4. ASSUME NEW v \in Videos, NEW h \in Cleanups, RunHook(v, h)
      PROVE  o \in storage'[w] \/ status'[w] \in {"failed", "deleted"}
  BY <1>1, <1>2, <1>4 DEF RunHook, CleanupSparesLiveVideos
<1>5. ASSUME NEW v \in Videos, ClientPut(v) \/ \E a \in Attempts : WorkerUpload(v, a)
      PROVE  o \in storage'[w]
  BY <1>1, <1>5 DEF ClientPut, WorkerUpload
<1> QED
  BY <1>3, <1>4, <1>5
     DEF Next, Requests, Relay, Worker, Consumer, Watchdog, Hooks, vars,
         CreateUpload, CompleteBegin, CompleteQueue, CompleteLate,
         CompleteConflict, Delete, RelayPublish, RelayCommit, RelayRollback, WorkerTake,
         WorkerComplete, WorkerFail, WorkerCrash, Consume, Receive, CommitOffset,
         ConsumerRestart, ClockTick, ReadLanes, FailTimedOut, TickFails, LoseHook

LEMMA InflightStep ==
  ASSUME IInv, [Next]_vars
  PROVE  InflightHaveOriginal'
<1>1. /\ inflight \in [Clients -> Videos \cup {NoVideo}]
      /\ InflightHaveOriginal
  BY DEF IInv, TypeOK
<1>2. SUFFICES ASSUME NEW c \in Clients, NEW w \in Videos, inflight'[c] = w
               PROVE  "original" \in storage'[w] \/ status'[w] \in {"failed", "deleted"}
  BY DEF InflightHaveOriginal
<1>3. \/ "original" \in storage[w]
      \/ status[w] \in {"failed", "deleted"}
  <2>1. CASE UNCHANGED inflight
    BY <1>1, <1>2, <2>1 DEF InflightHaveOriginal
  <2>2. ASSUME NEW v \in Videos, NEW d \in Clients,
               \/ CompleteBegin(d, v) \/ CompleteQueue(d, v)
               \/ CompleteLate(d, v) \/ CompleteConflict(d, v)
        PROVE  "original" \in storage[w] \/ status[w] \in {"failed", "deleted"}
    BY <1>1, <1>2, <2>2, IdleAssumption
       DEF InflightHaveOriginal, CompleteBegin, CompleteQueue, CompleteLate,
           CompleteConflict
  <2> QED
    BY <2>1, <2>2
       DEF Next, Requests, Relay, Worker, Consumer, Watchdog, Hooks, vars,
           CreateUpload, ClientPut, Delete, RelayPublish, RelayCommit, RelayRollback,
           WorkerTake, WorkerUpload, WorkerComplete, WorkerFail, WorkerCrash, Consume,
           Receive, CommitOffset, ConsumerRestart, ClockTick, ReadLanes, FailTimedOut,
           TickFails, RunHook, LoseHook
<1> QED
  BY <1>3, StorageStep, EndIsFinal DEF Objects, IInv

\* An asset is never unregistered but by the deletion of its video.
LEMMA AssetsStep ==
  ASSUME IInv, [Next]_vars, NEW w \in Videos, NEW o \in assets[w]
  PROVE  o \in assets'[w] \/ status'[w] = "deleted"
<1>1. /\ assets \in [Videos -> SUBSET Objects]
      /\ status \in [Videos -> Statuses]
  BY DEF IInv, TypeOK
<1>2. CASE UNCHANGED assets
  BY <1>2
<1>3. ASSUME NEW v \in Videos, NEW c \in Clients,
             CompleteQueue(c, v) \/ CompleteLate(c, v)
      PROVE  o \in assets'[w]
  BY <1>1, <1>3 DEF CompleteQueue, CompleteLate
<1>4. ASSUME NEW v \in Videos, Delete(v)
      PROVE  o \in assets'[w] \/ status'[w] = "deleted"
  BY <1>1, <1>4 DEF Delete, SetRow
<1>5. ASSUME NEW v \in Videos, NEW e \in Event, Consume(v, e)
      PROVE  o \in assets'[w]
  BY <1>1, <1>2, <1>5, ConsumeCases
     DEF EventIgnored, EventStarts, EventFinishes, EventFails, EventRequeues,
         EventAbandons
<1> QED
  BY <1>2, <1>3, <1>4, <1>5
     DEF Next, Requests, Relay, Worker, Consumer, Watchdog, Hooks, vars,
         CreateUpload, ClientPut, CompleteBegin, CompleteConflict, RelayPublish,
         RelayCommit, RelayRollback, WorkerTake, WorkerUpload, WorkerComplete,
         WorkerFail, WorkerCrash, CommitOffset, ConsumerRestart, ClockTick,
         ReadLanes, FailTimedOut, TickFails, RunHook, LoseHook

\* A video enters the processing statuses only from "uploading", by the
\* CompleteUpload that registers its original.
LEMMA ProcessableStep ==
  ASSUME IInv, [Next]_vars
  PROVE  ProcessableHasOriginal'
<1> DEFINE Busy == Processing \cup {"ready"}
<1>1. /\ status \in [Videos -> Statuses]
      /\ assets \in [Videos -> SUBSET Objects]
      /\ ProcessableHasOriginal
  BY DEF IInv, TypeOK
<1>2. SUFFICES ASSUME NEW w \in Videos, status'[w] \in Busy
               PROVE  "original" \in assets'[w] /\ "original" \in storage'[w]
  BY DEF ProcessableHasOriginal
<1>3. ASSUME status[w] \in Busy
      PROVE  "original" \in assets'[w] /\ "original" \in storage'[w]
  <2>1. "original" \in assets[w] /\ "original" \in storage[w]
    BY <1>1, <1>3 DEF ProcessableHasOriginal
  <2>2. status'[w] \notin {"failed", "deleted"}
    BY <1>2 DEF Processing
  <2> QED
    BY <2>1, <2>2, AssetsStep, StorageStep DEF Objects
<1>4. ASSUME status[w] \notin Busy
      PROVE  \E c \in Clients : CompleteQueue(c, w)
  <2>1. CASE UNCHANGED status
    BY <1>2, <1>4, <2>1
  <2>2. ASSUME NEW v \in Videos, CreateUpload(v) \/ Delete(v)
        PROVE  FALSE
    BY <1>1, <1>2, <1>4, <2>2 DEF CreateUpload, Delete, SetRow, Processing
  <2>3. ASSUME NEW v \in Videos, NEW c \in Clients, CompleteQueue(c, v)
        PROVE  v = w
    BY <1>1, <1>2, <1>4, <2>3 DEF CompleteQueue, SetRow
  <2>4. ASSUME NEW v \in Videos, NEW e \in Event, Consume(v, e)
        PROVE  FALSE
    <3>1. ~EventAbandons(v, e)
      BY <1>1 DEF ProcessableHasOriginal, EventAbandons, Applies
    <3> QED
      BY <1>1, <1>2, <1>4, <2>4, <3>1, ConsumeCases
         DEF EventIgnored, EventStarts, EventFinishes, EventFails, EventRequeues,
             Applies, SetRow, Processing, row
  <2>5. CASE FailTimedOut
    BY <1>1, <1>2, <1>4, <2>5 DEF FailTimedOut, Processing
  <2> QED
    BY <2>1, <2>2, <2>3, <2>4, <2>5, RowWriters
<1>5. ASSUME NEW c \in Clients, CompleteQueue(c, w)
      PROVE  "original" \in assets'[w] /\ "original" \in storage'[w]
  <2>1. "original" \in storage[w]
    BY <1>1, <1>5 DEF CompleteQueue, IInv, InflightHaveOriginal
  <2> QED
    BY <1>1, <1>5, <2>1 DEF CompleteQueue
<1> QED
  BY <1>3, <1>4, <1>5

\* A message "completed" enters the log only after the worker's upload.
LEMMA ResultsStep ==
  ASSUME IInv, [Next]_vars
  PROVE  ResultsAreStored'
<1>1. /\ worker \in [Tasks -> Phases]
      /\ events \in [Videos -> Seq(Event)]
      /\ handled \in [Videos -> Nat]
      /\ storage \in [Videos -> SUBSET Objects]
      /\ ResultsAreStored
  BY DEF IInv, TypeOK
<1> DEFINE NoResults(w) ==
             /\ \A a \in Attempts : worker[<<w, a>>] # "uploaded"
             /\ \A i \in 1..Len(events[w]) : events[w][i].kind # "completed"
<1>2. SUFFICES ASSUME NEW w \in Videos
               PROVE  \/ "hls" \in storage'[w]
                      \/ status'[w] \in {"failed", "deleted"}
                      \/ NoResults(w)'
  BY DEF ResultsAreStored
<1>3. CASE "hls" \in storage[w] \/ status[w] \in {"failed", "deleted"}
  BY <1>3, StorageStep, EndIsFinal DEF IInv, Objects
<1>4. CASE NoResults(w)
  <2>0. Len(events[w]) \in Nat /\ events[w] \in Seq(Event)
    BY <1>1, LenProperties
  <2>1. CASE UNCHANGED <<worker, events>>
    BY <1>4, <2>1
  <2>2. ASSUME NEW v \in Videos, NEW a \in Attempts, WorkerUpload(v, a)
        PROVE  "hls" \in storage'[w] \/ NoResults(w)'
    BY <1>1, <1>4, <2>2 DEF WorkerUpload, topic, Tasks
  <2>3. ASSUME NEW v \in Videos, NEW a \in Attempts, WorkerCrash(v, a)
        PROVE  NoResults(w)'
    BY <1>1, <1>4, <2>3 DEF WorkerCrash, topic, Tasks
  <2>4. ASSUME NEW v \in Videos, NEW a \in Attempts,
               WorkerTake(v, a) \/ WorkerComplete(v, a) \/ WorkerFail(v, a)
        PROVE  NoResults(w)'
    <3>1. ~ (v = w /\ WorkerComplete(v, a))
      BY <1>4 DEF WorkerComplete
    <3>2. \A b \in Attempts : worker'[<<w, b>>] # "uploaded"
      BY <1>1, <1>4, <2>4 DEF WorkerTake, WorkerComplete, WorkerFail, Tasks
    <3>3. CASE v # w
      BY <1>1, <1>4, <2>4, <3>2, <3>3 DEF WorkerTake, WorkerComplete, WorkerFail, Emit
    <3>4. ASSUME v = w, NEW k \in EventKinds \ {"completed"}, Emit(v, k, a)
          PROVE  NoResults(w)'
      <4> DEFINE e == [kind |-> k, attempt |-> a]
      <4>1. e \in Event /\ e.kind # "completed"
        BY DEF Event
      <4>2. events'[w] = Append(events[w], e)
        BY <1>1, <3>4 DEF Emit
      <4>3. /\ Len(events'[w]) = Len(events[w]) + 1
            /\ \A i \in 1..Len(events[w]) : events'[w][i] = events[w][i]
            /\ events'[w][Len(events[w]) + 1] = e
        BY <2>0, <4>1, <4>2, AppendProperties
      <4>4. \A i \in 1..Len(events'[w]) : events'[w][i].kind # "completed"
        BY <1>4, <2>0, <4>1, <4>3
      <4> QED
        BY <3>2, <4>4
    <3>5. v = w => \E k \in EventKinds \ {"completed"} : Emit(v, k, a)
      BY <2>4, <3>1 DEF WorkerTake, WorkerFail, EventKinds
    <3> QED
      BY <3>3, <3>4, <3>5
  <2>5. ASSUME NEW v \in Videos, CommitOffset(v)
        PROVE  NoResults(w)'
    <3>1. CASE v # w
      BY <1>1, <1>4, <2>5, <3>1 DEF CommitOffset
    <3>2. CASE v = w
      <4> DEFINE n == handled[w]
                 rest == SubSeq(events[w], n + 1, Len(events[w]))
      <4>0. n \in Nat /\ n <= Len(events[w])
        BY <1>1 DEF IInv, TypeOK
      <4>1. \A i \in n + 1..Len(events[w]) : events[w][i] \in Event
        BY <2>0, <4>0, ElementOfSeq
      <4>2. /\ Len(rest) = IF n + 1 <= Len(events[w]) THEN Len(events[w]) - (n + 1) + 1 ELSE 0
            /\ \A i \in 1..Len(events[w]) - (n + 1) + 1 : rest[i] = events[w][n + 1 + i - 1]
        BY <2>0, <4>0, <4>1, SubSeqProperties
      <4>3. \A i \in 1..Len(rest) : rest[i].kind # "completed"
        <5>1. SUFFICES ASSUME NEW i \in 1..Len(rest)
                       PROVE  rest[i].kind # "completed"
          OBVIOUS
        <5>2. /\ rest[i] = events[w][n + 1 + i - 1]
              /\ n + 1 + i - 1 \in 1..Len(events[w])
          BY <2>0, <4>0, <4>2
        <5> QED
          BY <1>4, <5>2
      <4>4. events'[w] = rest /\ UNCHANGED worker
        BY <1>1, <2>5, <3>2 DEF CommitOffset
      <4> QED
        BY <1>4, <4>3, <4>4
    <3> QED
      BY <3>1, <3>2
  <2> QED
    BY <2>1, <2>2, <2>3, <2>4, <2>5
       DEF Next, Requests, Relay, Worker, Consumer, Watchdog, Hooks, vars, topic,
           CreateUpload, ClientPut, CompleteBegin, CompleteQueue, CompleteLate,
           CompleteConflict, Delete, RelayPublish, RelayCommit, RelayRollback, Consume,
           Receive, ConsumerRestart, ClockTick, ReadLanes, FailTimedOut, TickFails,
           RunHook, LoseHook
<1> QED
  BY <1>1, <1>3, <1>4 DEF ResultsAreStored

\* A video becomes ready by the event "completed" of its attempt, and the
\* results were in the store when that event was sent.
LEMMA ReadyStep ==
  ASSUME IInv, [Next]_vars
  PROVE  ReadyIsServable'
<1>1. /\ status \in [Videos -> Statuses]
      /\ assets \in [Videos -> SUBSET Objects]
      /\ ReadyIsServable /\ ResultsAreStored
  BY DEF IInv, TypeOK
<1>2. SUFFICES ASSUME NEW w \in Videos, status'[w] = "ready"
               PROVE  "hls" \in assets'[w] /\ "hls" \in storage'[w]
  BY DEF ReadyIsServable
<1>3. ASSUME status[w] = "ready"
      PROVE  "hls" \in assets'[w] /\ "hls" \in storage'[w]
  BY <1>1, <1>2, <1>3, AssetsStep, StorageStep DEF ReadyIsServable, Objects
<1>4. ASSUME status[w] # "ready"
      PROVE  \E e \in Event : Consume(w, e) /\ EventFinishes(w, e)
  <2>1. CASE UNCHANGED status
    BY <1>2, <1>4, <2>1
  <2>2. ASSUME NEW v \in Videos,
               CreateUpload(v) \/ Delete(v) \/ \E c \in Clients : CompleteQueue(c, v)
        PROVE  FALSE
    BY <1>1, <1>2, <1>4, <2>2 DEF CreateUpload, Delete, CompleteQueue, SetRow
  <2>3. ASSUME NEW v \in Videos, NEW e \in Event, Consume(v, e)
        PROVE  v = w /\ EventFinishes(v, e)
    <3>1. ~EventAbandons(v, e)
      BY DEF IInv, ProcessableHasOriginal, EventAbandons, Applies
    <3> QED
      BY <1>1, <1>2, <1>4, <2>3, <3>1, ConsumeCases
         DEF EventIgnored, EventStarts, EventFinishes, EventFails, EventRequeues,
             SetRow, row
  <2>4. CASE FailTimedOut
    BY <1>1, <1>2, <1>4, <2>4 DEF FailTimedOut
  <2> QED
    BY <2>1, <2>2, <2>3, <2>4, RowWriters
<1>5. ASSUME NEW e \in Event, Consume(w, e), EventFinishes(w, e)
      PROVE  "hls" \in assets'[w] /\ "hls" \in storage'[w]
  <2>1. /\ events[w] \in Seq(Event) /\ Len(events[w]) \in Nat
        /\ handled[w] \in Nat
    BY LenProperties DEF IInv, TypeOK
  <2>2. handled[w] + 1 \in 1..Len(events[w]) /\ e = events[w][handled[w] + 1]
    BY <1>5, <2>1 DEF Consume, Receive
  <2>3. e.kind = "completed" /\ status[w] \in Processing
    BY <1>5 DEF EventFinishes, Applies
  <2>4. "hls" \in storage[w]
    BY <1>1, <2>2, <2>3 DEF ResultsAreStored, Processing
  <2>5. UNCHANGED storage
    BY <1>5 DEF Consume, Receive
  <2> QED
    BY <1>1, <1>5, <2>4, <2>5 DEF EventFinishes
<1> QED
  BY <1>3, <1>4, <1>5

LEMMA TemporaryStep ==
  ASSUME IInv, [Next]_vars
  PROVE  TemporaryMeansExhausted'
<1>1. /\ status \in [Videos -> Statuses]
      /\ attempt \in [Videos -> 0..MaxProcessingAttempts]
      /\ failure \in [Videos -> FailureClasses]
      /\ RowShape /\ TemporaryMeansExhausted
  BY DEF IInv, TypeOK
<1>2. CASE UNCHANGED <<status, attempt, failure>>
  BY <1>1, <1>2 DEF TemporaryMeansExhausted
<1>3. ASSUME NEW v \in Videos,
             CreateUpload(v) \/ Delete(v) \/ \E c \in Clients : CompleteQueue(c, v)
      PROVE  TemporaryMeansExhausted'
  BY <1>1, <1>3
     DEF TemporaryMeansExhausted, RowShape, CreateUpload, Delete, CompleteQueue, SetRow
<1>4. ASSUME NEW v \in Videos, NEW e \in Event, Consume(v, e)
      PROVE  TemporaryMeansExhausted'
  <2>1. ~EventAbandons(v, e)
    BY DEF IInv, ProcessableHasOriginal, EventAbandons, Applies
  <2> QED
    BY <1>1, <1>4, <2>1, ConsumeCases
       DEF TemporaryMeansExhausted, RowShape, EventIgnored, EventStarts, EventFinishes,
           EventFails, EventRequeues, Applies, SetRow, Processing, row
<1>5. CASE FailTimedOut
  BY <1>1, <1>5 DEF TemporaryMeansExhausted, FailTimedOut
<1> QED
  BY <1>2, <1>3, <1>4, <1>5, RowWriters

-----------------------------------------------------------------------------
(* The theorems *)

LEMMA InitIInv == Init => IInv
<1> SUFFICES ASSUME Init PROVE IInv
  OBVIOUS
<1>1. TypeOK
  BY InitType
<1>2. \A t \in Tasks : outbox[t] = 0
  BY DEF Init
<1>3. \A v \in Videos, a \in Attempts : <<v, a>> \in Tasks
  BY DEF Tasks
<1>4. RowShape /\ SentHaveRows /\ FutureAttempts /\ OneRowPerAttempt
  BY <1>2, <1>3
     DEF Init, RowShape, SentHaveRows, FutureAttempts, OneRowPerAttempt, Processing
<1>5. /\ QueuedWorkIsNeverLost /\ CleanupSparesLiveVideos /\ ProcessableHasOriginal
      /\ ReadyIsServable /\ TemporaryMeansExhausted
  BY DEF Init, QueuedWorkIsNeverLost, CleanupSparesLiveVideos, ProcessableHasOriginal,
         ReadyIsServable, TemporaryMeansExhausted, Processing
<1>6. InflightHaveOriginal
  BY IdleAssumption DEF Init, InflightHaveOriginal
<1>7. ResultsAreStored
  <2>1. \A v \in Videos : Len(events[v]) = 0
    BY EmptySeq DEF Init
  <2>2. \A v \in Videos, a \in Attempts : worker[<<v, a>>] = "idle"
    BY <1>3 DEF Init
  <2>3. \A v \in Videos : \A i \in 1..Len(events[v]) : events[v][i].kind # "completed"
    BY <2>1
  <2> QED
    BY <2>2, <2>3 DEF ResultsAreStored
<1> QED
  BY <1>1, <1>4, <1>5, <1>6, <1>7 DEF IInv

LEMMA StepIInv == IInv /\ [Next]_vars => IInv'
<1> SUFFICES ASSUME IInv, [Next]_vars PROVE IInv'
  OBVIOUS
<1>1. TypeOK'
  BY TypeStep DEF IInv
<1> QED
  BY <1>1, RowShapeStep, SentHaveRowsStep, FutureAttemptsStep, QueuedWorkStep,
     CleanupStep, InflightStep, ProcessableStep, ResultsStep, ReadyStep, TemporaryStep
     DEF IInv

\* The invariant holds in every reachable state of every instance.
THEOREM Invariance == Spec => []IInv
BY InitIInv, StepIInv, PTL DEF Spec

\* Rows, tables, topics and hooks keep their types, and processing_attempt never
\* passes max_processing_attempts, for any number of videos and requests.
THEOREM TypeCorrect == Spec => []TypeOK
<1>1. IInv => TypeOK
  BY DEF IInv
<1> QED
  BY <1>1, Invariance, PTL

\* The transactional outbox: a queued video always has the task of its current
\* attempt in the outbox or in Kafka.
THEOREM QueuedWorkSafe == Spec => []QueuedWorkIsNeverLost
<1>1. IInv => QueuedWorkIsNeverLost
  BY DEF IInv
<1> QED
  BY <1>1, Invariance, PTL

\* However many requests complete an upload and however often a failure is told,
\* an attempt is given one row of the outbox at most, and none before its turn.
THEOREM OneRowSafe == Spec => []OneRowPerAttempt
<1>1. IInv => OneRowPerAttempt
  BY DEF IInv
<1> QED
  BY <1>1, Invariance, PTL

\* A cleanup that is still to run is about a video that has ended for good: what
\* its transaction knew when it registered the hook is true when the hook runs.
THEOREM CleanupSafe == Spec => []CleanupSparesLiveVideos
<1>1. IInv => CleanupSparesLiveVideos
  BY DEF IInv
<1> QED
  BY <1>1, Invariance, PTL

\* So what is being processed has its original, in the tables and in the store,
\* although uploads time out and are cleaned up beside the requests that complete them.
THEOREM OriginalSafe == Spec => []ProcessableHasOriginal
<1>1. IInv => ProcessableHasOriginal
  BY DEF IInv
<1> QED
  BY <1>1, Invariance, PTL

\* And what is ready has its results, whatever late or repeated event of another
\* attempt has registered a cleanup of results since.
THEOREM ReadySafe == Spec => []ReadyIsServable
<1>1. IInv => ReadyIsServable
  BY DEF IInv
<1> QED
  BY <1>1, Invariance, PTL

\* failure_class "temporary" is written only when every attempt has been spent.
THEOREM TemporarySafe == Spec => []TemporaryMeansExhausted
<1>1. IInv => TemporaryMeansExhausted
  BY DEF IInv
<1> QED
  BY <1>1, Invariance, PTL

-----------------------------------------------------------------------------
(* The lanes *)

\* The indicators of the lanes and the watchdog's reading of them.
LEMMA LaneWriters ==
  ASSUME [Next]_vars
  PROVE  \/ UNCHANGED <<row, laneAge, ticking, stalled>>
         \/ /\ UNCHANGED <<laneAge, ticking, stalled>>
            /\ \E v \in Videos :
                 CreateUpload(v) \/ Delete(v) \/ \E c \in Clients : CompleteQueue(c, v)
         \/ /\ UNCHANGED <<ticking, stalled>>
            /\ \E v \in Videos, e \in Event : Consume(v, e)
         \/ ClockTick \/ ReadLanes \/ FailTimedOut \/ TickFails
<1> DEFINE Held == UNCHANGED <<row, laneAge, ticking, stalled>>
<1>1. UNCHANGED vars => Held
  BY DEF vars, row
<1>2. ASSUME NEW v \in Videos,
             \/ ClientPut(v) \/ CommitOffset(v) \/ ConsumerRestart(v)
             \/ \E c \in Clients :
                  CompleteBegin(c, v) \/ CompleteLate(c, v) \/ CompleteConflict(c, v)
             \/ \E a \in Attempts :
                  \/ WorkerTake(v, a) \/ WorkerUpload(v, a) \/ WorkerComplete(v, a)
                  \/ WorkerFail(v, a) \/ WorkerCrash(v, a)
             \/ \E h \in Cleanups : RunHook(v, h) \/ LoseHook(v, h)
      PROVE  Held
  BY <1>2
     DEF watchdog, ClientPut, CommitOffset, ConsumerRestart, CompleteBegin, CompleteLate,
         CompleteConflict, WorkerTake, WorkerUpload, WorkerComplete, WorkerFail,
         WorkerCrash, RunHook, LoseHook
<1>3. ASSUME NEW t \in Tasks, RelayPublish(t) \/ RelayCommit(t) \/ RelayRollback(t)
      PROVE  Held
  BY <1>3 DEF watchdog, RelayPublish, RelayCommit, RelayRollback
<1>4. ASSUME NEW v \in Videos,
             CreateUpload(v) \/ Delete(v) \/ \E c \in Clients : CompleteQueue(c, v)
      PROVE  UNCHANGED <<laneAge, ticking, stalled>>
  BY <1>4 DEF watchdog, CreateUpload, Delete, CompleteQueue
<1>5. ASSUME NEW v \in Videos, NEW e \in Event, Consume(v, e)
      PROVE  UNCHANGED <<ticking, stalled>>
  BY <1>5 DEF watchdog, Consume, Receive
<1> QED
  BY <1>1, <1>2, <1>3, <1>4, <1>5
     DEF Next, Requests, Relay, Worker, Consumer, Watchdog, Hooks

LEMMA LaneIndicatorStep ==
  ASSUME IInv, LaneIndicator, [Next]_vars
  PROVE  LaneIndicator'
<1> USE Constants DEF LaneIndicator
<1>1. /\ status \in [Videos -> Statuses]
      /\ urgent \in [Videos -> Lanes]
      /\ age \in [Videos -> 0..MaxAge]
      /\ laneAge \in [Lanes -> 0..MaxAge]
      /\ ticking \in BOOLEAN
  BY DEF IInv, TypeOK
<1>2. CASE UNCHANGED <<row, laneAge, ticking, stalled>>
  BY <1>2 DEF row
<1>3. ASSUME NEW v \in Videos, UNCHANGED <<laneAge, ticking, stalled>>,
             CreateUpload(v) \/ Delete(v) \/ \E c \in Clients : CompleteQueue(c, v)
      PROVE  LaneIndicator'
  BY <1>1, <1>3 DEF CreateUpload, Delete, CompleteQueue, SetRow
<1>4. ASSUME NEW v \in Videos, NEW e \in Event, Consume(v, e),
             UNCHANGED <<ticking, stalled>>
      PROVE  LaneIndicator'
  <2>1. ~EventAbandons(v, e)
    BY DEF IInv, ProcessableHasOriginal, EventAbandons, Applies
  <2>2. CASE EventStarts(v, e)
    <3>1. /\ age' = [age EXCEPT ![v] = 0]
          /\ laneAge' = [laneAge EXCEPT ![urgent[v]] = 0]
          /\ UNCHANGED urgent
          /\ \A w \in Videos \ {v} : status'[w] = status[w]
      BY <1>1, <2>2 DEF EventStarts, SetRow
    <3>2. ASSUME NEW w \in Videos, status'[w] = "compressing"
          PROVE  /\ laneAge'[urgent'[w]] <= age'[w]
                 /\ urgent'[w] \in stalled' /\ age'[w] > 0 => age'[w] >= QueuedStallTimeout
      <4>1. CASE w = v
        BY <1>1, <3>1, <4>1
      <4>2. CASE w # v
        BY <1>1, <1>4, <3>1, <3>2, <4>2
      <4> QED
        BY <4>1, <4>2
    <3> QED
      BY <1>4, <3>2
  <2>3. CASE EventIgnored(v, e)
    BY <1>2, <1>4, <2>3 DEF EventIgnored
  <2> QED
    BY <1>1, <1>4, <2>1, <2>2, <2>3, ConsumeCases
       DEF EventFinishes, EventFails, EventRequeues, SetRow
<1>5. CASE ClockTick
  <2>1. stalled' = {}
    BY <1>5 DEF ClockTick, watchdog
  <2>2. ASSUME NEW w \in Videos, status'[w] = "compressing"
        PROVE  laneAge'[urgent'[w]] <= age'[w]
    BY <1>1, <1>5, <2>2 DEF ClockTick, Unsettled, Processing
  <2> QED
    BY <2>1, <2>2
<1>6. CASE ReadLanes
  BY <1>1, <1>6 DEF ReadLanes, row
<1>7. CASE FailTimedOut
  BY <1>1, <1>7 DEF FailTimedOut
<1>8. CASE TickFails
  BY <1>1, <1>8 DEF TickFails, row
<1> QED
  BY <1>2, <1>3, <1>4, <1>5, <1>6, <1>7, <1>8, LaneWriters

\* A tick of the watchdog gives up no video because of a standing lane when the
\* lane had taken one within queued_stall_timeout of the tick.
THEOREM FreshLaneSafe == Spec => FreshDequeueProtectsLane
<1> DEFINE Fresh(v, w) ==
             /\ status[w] = "compressing"
             /\ age[w] \in 1..(QueuedStallTimeout - 1)
             /\ urgent[v] = urgent[w]
             /\ status[v] = "queued"
             /\ status'[v] = "failed"
             /\ failure'[v] = "timeout"
<1>1. Init => LaneIndicator
  BY DEF Init, LaneIndicator
<1>2. IInv /\ LaneIndicator /\ [Next]_vars => LaneIndicator'
  BY LaneIndicatorStep
<1>3. ASSUME IInv, LaneIndicator, [Next]_vars
      PROVE  \A v, w \in Videos : Fresh(v, w) => age[v] > QueuedMaxTimeout
  <2>1. SUFFICES ASSUME NEW v \in Videos, NEW w \in Videos, Fresh(v, w)
                 PROVE  age[v] > QueuedMaxTimeout
    OBVIOUS
  <2>2. /\ status \in [Videos -> Statuses]
        /\ age \in [Videos -> 0..MaxAge]
        /\ failure \in [Videos -> FailureClasses]
    BY <1>3 DEF IInv, TypeOK
  <2>3. CASE FailTimedOut
    <3>1. TimedOut(v)
      BY <2>1, <2>2, <2>3 DEF FailTimedOut
    <3>2. urgent[v] \notin stalled
      BY <1>3, <2>1, <2>2, Constants DEF LaneIndicator
    <3> QED
      BY <2>1, <3>1, <3>2 DEF TimedOut
  <2>4. ~UNCHANGED status
    BY <2>1
  <2>5. ASSUME NEW u \in Videos,
               CreateUpload(u) \/ Delete(u) \/ \E c \in Clients : CompleteQueue(c, u)
        PROVE  FALSE
    BY <2>1, <2>2, <2>5 DEF CreateUpload, Delete, CompleteQueue, SetRow
  <2>6. ASSUME NEW u \in Videos, NEW e \in Event, Consume(u, e)
        PROVE  FALSE
    <3>1. ~EventAbandons(u, e)
      BY <1>3 DEF IInv, ProcessableHasOriginal, EventAbandons, Applies
    <3> QED
      BY <2>1, <2>2, <2>6, <3>1, ConsumeCases
         DEF EventIgnored, EventStarts, EventFinishes, EventFails, EventRequeues,
             SetRow, row
  <2> QED
    BY <1>3, <2>3, <2>4, <2>5, <2>6, RowWriters
<1>4. Spec => []IInv
  BY Invariance
<1> QED
  BY <1>1, <1>2, <1>3, <1>4, PTL DEF Spec, FreshDequeueProtectsLane

-----------------------------------------------------------------------------
(* The refinement of VideoLifecycle *)

LEMMA SetRowBecomes ==
  ASSUME NEW v, NEW s, NEW a, NEW class, SetRow(v, s, a, class)
  PROVE  Lifecycle!Become(v, s, a)
BY DEF SetRow, Lifecycle!Become

LEMMA LifecycleStep ==
  ASSUME IInv, [Next]_vars
  PROVE  [Lifecycle!Next]_(Lifecycle!vars)
<1> DEFINE Goal == [Lifecycle!Next]_(Lifecycle!vars)
<1>1. /\ status \in [Videos -> Statuses]
      /\ attempt \in [Videos -> 0..MaxProcessingAttempts]
      /\ RowShape
  BY DEF IInv, TypeOK
<1>2. CASE UNCHANGED <<status, attempt>>
  BY <1>2 DEF Lifecycle!vars
<1>3. ASSUME NEW v \in Videos, CreateUpload(v)
      PROVE  Goal
  <2>1. attempt' = [attempt EXCEPT ![v] = 0]
    BY <1>1, <1>3 DEF CreateUpload, RowShape
  <2>2. Lifecycle!Create(v)
    BY <1>3, <2>1 DEF CreateUpload, Lifecycle!Create, Lifecycle!Become
  <2> QED
    BY <2>2 DEF Lifecycle!Next
<1>4. ASSUME NEW v \in Videos, NEW c \in Clients, CompleteQueue(c, v)
      PROVE  Goal
  <2>1. Lifecycle!Enqueue(v)
    BY <1>4, SetRowBecomes DEF CompleteQueue, Lifecycle!Enqueue
  <2> QED
    BY <2>1 DEF Lifecycle!Next
<1>5. ASSUME NEW v \in Videos, Delete(v)
      PROVE  Goal
  <2>1. Lifecycle!Delete(v)
    BY <1>5, SetRowBecomes DEF Delete, Lifecycle!Delete
  <2> QED
    BY <2>1 DEF Lifecycle!Next
<1>6. ASSUME NEW v \in Videos, NEW e \in Event, Consume(v, e)
      PROVE  Goal
  <2>1. ~EventAbandons(v, e)
    BY DEF IInv, ProcessableHasOriginal, EventAbandons, Applies
  <2>2. CASE EventIgnored(v, e)
    BY <1>2, <2>2 DEF EventIgnored, row
  <2>3. CASE EventStarts(v, e)
    <3>1. Lifecycle!Start(v)
      BY <2>3, SetRowBecomes DEF EventStarts, Applies, Lifecycle!Start
    <3> QED
      BY <3>1 DEF Lifecycle!Next
  <2>4. CASE EventFinishes(v, e)
    <3>1. Lifecycle!Publish(v)
      BY <2>4, SetRowBecomes
         DEF EventFinishes, Applies, Processing, Lifecycle!Publish, Lifecycle!Processing
    <3> QED
      BY <3>1 DEF Lifecycle!Next
  <2>5. CASE EventFails(v, e, "permanent") \/ EventFails(v, e, "temporary")
    <3>1. /\ status' = [status EXCEPT ![v] = "failed"]
          /\ attempt' = [attempt EXCEPT ![v] = attempt[v]]
          /\ status[v] \in Processing
      BY <2>5 DEF EventFails, SetRow, Applies
    <3>2. /\ status' = [w \in Videos |-> IF w \in {v} THEN "failed" ELSE status[w]]
          /\ UNCHANGED attempt
      BY <1>1, <3>1
    <3>3. Lifecycle!GiveUp({v})
      BY <3>1, <3>2
         DEF Processing, Lifecycle!GiveUp, Lifecycle!Unsettled, Lifecycle!Processing
    <3> QED
      BY <3>3 DEF Lifecycle!Next
  <2>6. CASE EventRequeues(v, e)
    <3>1. /\ SetRow(v, "queued", attempt[v] + 1, failure[v])
          /\ attempt[v] + 1 \in Attempts
          /\ status[v] \in Processing
      BY <2>6 DEF EventRequeues, Applies
    <3>2. attempt[v] < MaxProcessingAttempts
      BY <1>1, <3>1, Constants DEF Attempts
    <3>3. Lifecycle!Retry(v)
      BY <3>1, <3>2, SetRowBecomes
         DEF Processing, Lifecycle!Retry, Lifecycle!Processing
    <3> QED
      BY <3>3 DEF Lifecycle!Next
  <2> QED
    BY <1>6, <2>1, <2>2, <2>3, <2>4, <2>5, <2>6, ConsumeCases
<1>7. CASE FailTimedOut
  <2> DEFINE S == {v \in Videos : TimedOut(v)}
  <2>1. /\ status' = [v \in Videos |-> IF v \in S THEN "failed" ELSE status[v]]
        /\ UNCHANGED attempt
    BY <1>7 DEF FailTimedOut
  <2>2. \A v \in S : status[v] \in Lifecycle!Unsettled
    BY DEF TimedOut, Lifecycle!Unsettled, Lifecycle!Processing
  <2>3. Lifecycle!GiveUp(S)
    BY <2>1, <2>2 DEF Lifecycle!GiveUp
  <2> QED
    BY <2>3 DEF Lifecycle!Next
<1> QED
  BY <1>2, <1>3, <1>4, <1>5, <1>6, <1>7, RowWriters

\* The rows of the pipeline follow the lifecycle: "ready" and "failed" are final,
\* and every retry spends one of max_processing_attempts.
THEOREM Refinement == Spec => ImplementsLifecycle
<1>1. Init => Lifecycle!Init
  BY DEF Init, Lifecycle!Init
<1>2. IInv /\ [Next]_vars => [Lifecycle!Next]_(Lifecycle!vars)
  BY LifecycleStep
<1> QED
  BY <1>1, <1>2, Invariance, PTL DEF Spec, ImplementsLifecycle, Lifecycle!Spec
=============================================================================
