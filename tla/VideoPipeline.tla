---------------------------- MODULE VideoPipeline ----------------------------
(***************************************************************************)
(* The life of a video from the upload to "ready" or "failed": the API's   *)
(* handlers (internal/service/video.go), each of them one database         *)
(* transaction of saga.Run, the after-commit hooks that clean the object   *)
(* store, the outbox relay, the consumer of the worker's events, and the   *)
(* watchdog. The client, S3, Kafka and the worker are outside src/ and are *)
(* modelled from how src/ uses them.                                       *)
(*                                                                         *)
(* CompleteUpload is split where it talks to S3: what it read before       *)
(* HeadObject may be stale when it writes.                                 *)
(***************************************************************************)
EXTENDS Naturals, Sequences

CONSTANTS
  Videos,
  Clients,                 \* CompleteUpload requests that may be in flight at once
  NoVideo,                 \* an idle client
  Lanes,                   \* values of is_urgent, each a queue of its own
  MaxProcessingAttempts,   \* config video.max_processing_attempts
  UploadTimeout,           \* config video.upload_timeout
  QueuedStallTimeout,      \* config video.queued_stall_timeout
  QueuedMaxTimeout,        \* config video.queued_max_timeout
  ProcessingTimeout,       \* config video.processing_timeout
  MaxAge,                  \* ages stop growing here, beyond every timeout
  MaxLog                   \* events of one video not yet committed by the consumer

Timeouts == {UploadTimeout, QueuedStallTimeout, QueuedMaxTimeout, ProcessingTimeout}

\* Config.Validate refuses a start with fewer than one attempt or with a
\* timeout that is not positive. MaxAge only has to be past them all.
ASSUME AttemptsAssumption == MaxProcessingAttempts \in Nat \ {0}
ASSUME TimeAssumption ==
  /\ Timeouts \subseteq Nat \ {0}
  /\ MaxAge \in Nat
  /\ \A t \in Timeouts : t < MaxAge
ASSUME LaneAssumption == Lanes \subseteq BOOLEAN /\ Lanes # {}
ASSUME IdleAssumption == NoVideo \notin Videos

VARIABLES
  \* app.user_group_videos: status (with "none" and "deleted" for no row),
  \* processing_attempt, failure_class, is_urgent, now - status_changed_at
  status, attempt, failure, urgent, age,
  laneAge,    \* app.pipeline_progress: now - last_dequeued_at of each lane
  assets,     \* app.video_assets with their app.files rows
  outbox,     \* app.outbox_events: rows OriginalUploaded of each task
  sent,       \* tasks published by a relay transaction that is not committed yet
  tasks,      \* the topics video.original-uploaded: what workers may receive
  worker,     \* what a worker is doing with each task
  events,     \* topic video.processing-events past the committed offset, by key
  handled,    \* how many of these the consumer has applied
  storage,    \* the objects of each video in S3
  hooks,      \* after-commit cleanups still to run
  ticking,    \* the watchdog has begun a tick and not written yet
  stalled,    \* the lanes that tick has found standing still
  inflight    \* CompleteUpload requests between HeadObject and their writes

row == <<status, attempt, failure, urgent, age>>
queue == <<outbox, sent, tasks>>
topic == <<events, handled>>
watchdog == <<ticking, stalled>>
vars == <<status, attempt, failure, urgent, age, laneAge, assets, outbox, sent,
          tasks, worker, events, handled, storage, hooks, ticking, stalled, inflight>>

Statuses == {"none", "uploading", "queued", "compressing", "ready", "failed", "deleted"}
Processing == {"queued", "compressing"}
Unsettled == Processing \cup {"uploading"}
FailureClasses == {"none", "permanent", "temporary", "timeout"}
Objects == {"original", "hls"}
Cleanups == {"original", "hls", "all"}
Attempts == 1..MaxProcessingAttempts
Tasks == Videos \X Attempts
EventKinds == {"started", "completed", "poison", "permanent", "temporary"}
Event == [kind : EventKinds, attempt : Attempts]
Phases == {"idle", "encoding", "uploaded"}

Init ==
  /\ status = [v \in Videos |-> "none"]
  /\ attempt = [v \in Videos |-> 0]
  /\ failure = [v \in Videos |-> "none"]
  /\ urgent = [v \in Videos |-> CHOOSE l \in Lanes : TRUE]   \* no row yet
  /\ age = [v \in Videos |-> 0]
  /\ laneAge = [l \in Lanes |-> 0]
  /\ assets = [v \in Videos |-> {}]
  /\ outbox = [t \in Tasks |-> 0]
  /\ sent = {}
  /\ tasks = {}
  /\ worker = [t \in Tasks |-> "idle"]
  /\ events = [v \in Videos |-> << >>]
  /\ handled = [v \in Videos |-> 0]
  /\ storage = [v \in Videos |-> {}]
  /\ hooks = [v \in Videos |-> {}]
  /\ ticking = FALSE
  /\ stalled = {}
  /\ inflight = [c \in Clients |-> NoVideo]

-----------------------------------------------------------------------------
(* The row of a video and the outbox *)

\* Slips of the WHERE: ExpectedAttempt or the status forgotten.
AppliesToAnyAttempt(v, from, a) == status[v] \in from

AppliesToAnyStatus(v, from, a) ==
  /\ status[v] # "none"
  /\ attempt[v] = a

\* The WHERE of UpdateStatusIf: the status is one of from and the attempt of
\* the event is the attempt of the row.
Applies(v, from, a) ==
  /\ status[v] \in from
  /\ attempt[v] = a

\* The SET of an UPDATE of one row, status_changed_at included.
SetRow(v, s, a, class) ==
  /\ status' = [status EXCEPT ![v] = s]
  /\ attempt' = [attempt EXCEPT ![v] = a]
  /\ failure' = [failure EXCEPT ![v] = class]
  /\ age' = [age EXCEPT ![v] = 0]
  /\ UNCHANGED urgent

PublishOriginalUploaded(v, a) ==
  outbox' = [outbox EXCEPT ![<<v, a>>] = @ + 1]

-----------------------------------------------------------------------------
(* Requests of the client *)

CreateUpload(v) ==
  /\ status[v] = "none"
  /\ status' = [status EXCEPT ![v] = "uploading"]
  /\ \E l \in Lanes : urgent' = [urgent EXCEPT ![v] = l]
  /\ UNCHANGED <<attempt, failure, age, laneAge, watchdog, assets, queue, worker, topic,
                 storage, hooks, inflight>>

\* The PUT goes to S3 by the presigned URL, past the API, and may land late.
ClientPut(v) ==
  /\ status[v] # "none"
  /\ storage' = [storage EXCEPT ![v] = @ \cup {"original"}]
  /\ UNCHANGED <<row, laneAge, watchdog, assets, queue, worker, topic, hooks, inflight>>

\* CompleteUpload up to HeadObject: in any other status, and without an
\* object, the request ends here with no effect.
CompleteBegin(c, v) ==
  /\ inflight[c] = NoVideo
  /\ status[v] = "uploading"
  /\ "original" \in storage[v]
  /\ inflight' = [inflight EXCEPT ![c] = v]
  /\ UNCHANGED <<row, laneAge, watchdog, assets, queue, worker, topic, storage, hooks>>

\* A slip: the UPDATE of the status is not conditional.
CompleteQueueAlways(c, v) ==
  /\ inflight[c] = v
  /\ "original" \notin assets[v]
  /\ status[v] # "deleted"
  /\ assets' = [assets EXCEPT ![v] = @ \cup {"original"}]
  /\ SetRow(v, "queued", 1, failure[v])
  /\ PublishOriginalUploaded(v, 1)
  /\ inflight' = [inflight EXCEPT ![c] = NoVideo]
  /\ UNCHANGED <<laneAge, watchdog, sent, tasks, worker, topic, storage, hooks>>

CompleteQueue(c, v) ==
  /\ inflight[c] = v
  /\ "original" \notin assets[v]
  /\ status[v] = "uploading"
  /\ assets' = [assets EXCEPT ![v] = @ \cup {"original"}]
  /\ SetRow(v, "queued", 1, failure[v])
  /\ PublishOriginalUploaded(v, 1)
  /\ inflight' = [inflight EXCEPT ![c] = NoVideo]
  /\ UNCHANGED <<laneAge, watchdog, sent, tasks, worker, topic, storage, hooks>>

\* The conditional UPDATE finds another status: the transaction still commits
\* the asset it has registered.
CompleteLate(c, v) ==
  /\ inflight[c] = v
  /\ "original" \notin assets[v]
  /\ status[v] \notin {"uploading", "deleted"}
  /\ assets' = [assets EXCEPT ![v] = @ \cup {"original"}]
  /\ inflight' = [inflight EXCEPT ![c] = NoVideo]
  /\ UNCHANGED <<row, laneAge, watchdog, queue, worker, topic, storage, hooks>>

\* Registering the asset breaks a constraint, the unique (bucket, key) or the
\* reference to a deleted row, and the transaction leaves nothing behind.
CompleteConflict(c, v) ==
  /\ inflight[c] = v
  /\ \/ "original" \in assets[v]
     \/ status[v] = "deleted"
  /\ inflight' = [inflight EXCEPT ![c] = NoVideo]
  /\ UNCHANGED <<row, laneAge, watchdog, assets, queue, worker, topic, storage, hooks>>

Delete(v) ==
  /\ status[v] \notin {"none", "deleted"}
  /\ SetRow(v, "deleted", attempt[v], "none")
  /\ assets' = [assets EXCEPT ![v] = {}]
  /\ hooks' = [hooks EXCEPT ![v] = @ \cup {"all"}]
  /\ UNCHANGED <<laneAge, watchdog, queue, worker, topic, storage, inflight>>

-----------------------------------------------------------------------------
(* The outbox relay: publish, then delete the row, in one transaction *)

RelayPublish(t) ==
  /\ outbox[t] > 0
  /\ t \notin sent
  /\ sent' = sent \cup {t}
  /\ tasks' = tasks \cup {t}
  /\ UNCHANGED <<row, laneAge, watchdog, assets, outbox, worker, topic, storage, hooks, inflight>>

RelayCommit(t) ==
  /\ t \in sent
  /\ sent' = sent \ {t}
  /\ outbox' = [outbox EXCEPT ![t] = @ - 1]
  /\ UNCHANGED <<row, laneAge, watchdog, assets, tasks, worker, topic, storage, hooks, inflight>>

\* A failed publish or a crash: the row stays although Kafka has the message.
RelayRollback(t) ==
  /\ t \in sent
  /\ sent' = sent \ {t}
  /\ UNCHANGED <<row, laneAge, watchdog, assets, outbox, tasks, worker, topic, storage, hooks, inflight>>

-----------------------------------------------------------------------------
(* The worker: Kafka may deliver a task to it again at any time *)

Emit(v, k, a) ==
  /\ Len(events[v]) < MaxLog
  /\ events' = [events EXCEPT ![v] = Append(@, [kind |-> k, attempt |-> a])]

WorkerTake(v, a) ==
  /\ <<v, a>> \in tasks
  /\ worker[<<v, a>>] = "idle"
  /\ worker' = [worker EXCEPT ![<<v, a>>] = "encoding"]
  /\ Emit(v, "started", a)
  /\ UNCHANGED <<row, laneAge, watchdog, assets, queue, handled, storage, hooks, inflight>>

WorkerUpload(v, a) ==
  /\ worker[<<v, a>>] = "encoding"
  /\ worker' = [worker EXCEPT ![<<v, a>>] = "uploaded"]
  /\ storage' = [storage EXCEPT ![v] = @ \cup {"hls"}]
  /\ UNCHANGED <<row, laneAge, watchdog, assets, queue, topic, hooks, inflight>>

\* "poison" is a ProcessingCompleted whose results do not validate.
WorkerComplete(v, a) ==
  /\ worker[<<v, a>>] = "uploaded"
  /\ worker' = [worker EXCEPT ![<<v, a>>] = "idle"]
  /\ \E k \in {"completed", "poison"} : Emit(v, k, a)
  /\ UNCHANGED <<row, laneAge, watchdog, assets, queue, handled, storage, hooks, inflight>>

WorkerFail(v, a) ==
  /\ worker[<<v, a>>] = "encoding"
  /\ worker' = [worker EXCEPT ![<<v, a>>] = "idle"]
  /\ \E k \in {"permanent", "temporary"} : Emit(v, k, a)
  /\ UNCHANGED <<row, laneAge, watchdog, assets, queue, handled, storage, hooks, inflight>>

WorkerCrash(v, a) ==
  /\ worker[<<v, a>>] # "idle"
  /\ worker' = [worker EXCEPT ![<<v, a>>] = "idle"]
  /\ UNCHANGED <<row, laneAge, watchdog, assets, queue, topic, storage, hooks, inflight>>

-----------------------------------------------------------------------------
(* The consumer of the worker's events: one message at a time, and the next *)
(* one only when the hooks of the last have run                             *)

Receive(v, e) ==
  /\ handled[v] < Len(events[v])
  /\ "hls" \notin hooks[v]
  /\ e = events[v][handled[v] + 1]
  /\ handled' = [handled EXCEPT ![v] = @ + 1]
  /\ UNCHANGED <<events, sent, tasks, worker, storage, watchdog, inflight>>

\* A slip: the indicator of the other lane is refreshed.
StartedInOtherLane(v, e) ==
  /\ e.kind = "started"
  /\ IF Applies(v, {"queued"}, e.attempt)
       THEN /\ SetRow(v, "compressing", attempt[v], failure[v])
            /\ laneAge' = [laneAge EXCEPT ![~urgent[v]] = 0]
       ELSE UNCHANGED <<row, laneAge>>
  /\ UNCHANGED <<assets, outbox, hooks>>

ApplyProcessingStarted(v, e) ==
  /\ e.kind = "started"
  /\ IF Applies(v, {"queued"}, e.attempt)
       THEN /\ SetRow(v, "compressing", attempt[v], failure[v])
            /\ laneAge' = [laneAge EXCEPT ![urgent[v]] = 0]
       ELSE UNCHANGED <<row, laneAge>>
  /\ UNCHANGED <<assets, outbox, hooks>>

\* Slips: an ignored event cleans up whatever the status, or unless "ready".
CompletedCleansUnless(v, e, spared) ==
  /\ e.kind = "completed"
  /\ IF Applies(v, Processing, e.attempt)
       THEN /\ SetRow(v, "ready", attempt[v], "none")
            /\ assets' = [assets EXCEPT ![v] = @ \cup {"hls"}]
            /\ UNCHANGED hooks
       ELSE /\ status[v] \notin spared
            /\ hooks' = [hooks EXCEPT ![v] = @ \cup {"hls"}]
            /\ UNCHANGED <<row, assets>>
  /\ UNCHANGED <<outbox, laneAge>>

CompletedAlwaysCleans(v, e) == CompletedCleansUnless(v, e, {})

CompletedSparesReadyOnly(v, e) == CompletedCleansUnless(v, e, {"ready"})

ApplyProcessingCompleted(v, e) ==
  /\ e.kind = "completed"
  /\ IF Applies(v, Processing, e.attempt)
       THEN /\ SetRow(v, "ready", attempt[v], "none")
            /\ assets' = [assets EXCEPT ![v] = @ \cup {"hls"}]
            /\ UNCHANGED hooks
       ELSE /\ hooks' = IF status[v] \in {"failed", "deleted"}
                          THEN [hooks EXCEPT ![v] = @ \cup {"hls"}]
                          ELSE hooks
            /\ UNCHANGED <<row, assets>>
  /\ UNCHANGED <<outbox, laneAge>>

FailProcessing(v, a, class) ==
  IF Applies(v, Processing, a)
    THEN SetRow(v, "failed", attempt[v], class)
    ELSE UNCHANGED row

\* A slip: the next attempt is not published.
RequeueWithoutPublishing(v, a) ==
  /\ IF Applies(v, Processing, a)
       THEN SetRow(v, "queued", a + 1, failure[v])
       ELSE UNCHANGED row
  /\ UNCHANGED outbox

\* The original asset is looked up after the row is back in the queue; without
\* it the same transaction fails the video with the new attempt number.
RequeueAfterTemporaryFailure(v, a) ==
  IF Applies(v, Processing, a)
    THEN IF "original" \in assets[v]
           THEN /\ SetRow(v, "queued", a + 1, failure[v])
                /\ PublishOriginalUploaded(v, a + 1)
           ELSE /\ SetRow(v, "failed", a + 1, "permanent")
                /\ UNCHANGED outbox
    ELSE UNCHANGED <<row, outbox>>

\* Slips: one retry too many, one too few.
FailedWithRetriesUpTo(v, e, limit) ==
  /\ \/ /\ e.kind \in {"permanent", "poison"}
        /\ FailProcessing(v, e.attempt, "permanent")
        /\ UNCHANGED outbox
     \/ /\ e.kind = "temporary"
        /\ e.attempt < limit
        /\ RequeueAfterTemporaryFailure(v, e.attempt)
     \/ /\ e.kind = "temporary"
        /\ e.attempt >= limit
        /\ FailProcessing(v, e.attempt, "temporary")
        /\ UNCHANGED outbox
  /\ UNCHANGED <<laneAge, assets, hooks>>

FailedRetriesOnceMore(v, e) == FailedWithRetriesUpTo(v, e, MaxProcessingAttempts + 1)

FailedRetriesOnceLess(v, e) == FailedWithRetriesUpTo(v, e, MaxProcessingAttempts - 1)

ApplyProcessingFailed(v, e) ==
  /\ \/ /\ e.kind \in {"permanent", "poison"}
        /\ FailProcessing(v, e.attempt, "permanent")
        /\ UNCHANGED outbox
     \/ /\ e.kind = "temporary"
        /\ e.attempt < MaxProcessingAttempts
        /\ RequeueAfterTemporaryFailure(v, e.attempt)
     \/ /\ e.kind = "temporary"
        /\ e.attempt >= MaxProcessingAttempts
        /\ FailProcessing(v, e.attempt, "temporary")
        /\ UNCHANGED outbox
  /\ UNCHANGED <<laneAge, assets, hooks>>

Consume(v, e) ==
  /\ Receive(v, e)
  /\ \/ ApplyProcessingStarted(v, e)
     \/ ApplyProcessingCompleted(v, e)
     \/ ApplyProcessingFailed(v, e)

\* Committing an offset commits every message before it, those whose own
\* commit had failed included.
CommitOffset(v) ==
  /\ handled[v] > 0
  /\ "hls" \notin hooks[v]
  /\ events' = [events EXCEPT ![v] = SubSeq(@, handled[v] + 1, Len(@))]
  /\ handled' = [handled EXCEPT ![v] = 0]
  /\ UNCHANGED <<row, laneAge, watchdog, assets, queue, worker, storage, hooks, inflight>>

\* A restart: Kafka delivers from the committed offset again, and the hooks of
\* the message in hand are lost.
ConsumerRestart(v) ==
  /\ handled[v] > 0
  /\ handled' = [handled EXCEPT ![v] = 0]
  /\ hooks' = [hooks EXCEPT ![v] = @ \ {"hls"}]
  /\ UNCHANGED <<row, laneAge, watchdog, assets, queue, worker, events, storage, inflight>>

-----------------------------------------------------------------------------
(* Time, the watchdog and the hooks *)

\* The age of a settled video is never read again and stays where it is. A tick
\* of the watchdog compares every row with the moment it began.
ClockTick ==
  /\ ~ticking
  /\ age' = [v \in Videos |-> IF status[v] \in Unsettled /\ age[v] < MaxAge
                                THEN age[v] + 1 ELSE age[v]]
  /\ laneAge' = [l \in Lanes |-> IF laneAge[l] < MaxAge THEN laneAge[l] + 1 ELSE laneAge[l]]
  /\ UNCHANGED <<status, attempt, failure, urgent, watchdog, assets, queue, worker,
                 topic, storage, hooks, inflight>>

\* A tick reads the indicator of each lane before it writes any video of it.
ReadLanes ==
  /\ ~ticking
  /\ ticking' = TRUE
  /\ stalled' = {l \in Lanes : laneAge[l] >= QueuedStallTimeout}
  /\ UNCHANGED <<row, laneAge, assets, queue, worker, topic, storage, hooks, inflight>>

\* A slip: the pass over the videos being compressed is missing.
TimedOutBeforeProcessing(v) ==
  \/ status[v] = "uploading" /\ age[v] > UploadTimeout
  \/ status[v] = "queued" /\ age[v] > QueuedMaxTimeout
  \/ status[v] = "queued" /\ urgent[v] \in stalled /\ age[v] > QueuedStallTimeout

TimedOut(v) ==
  \/ status[v] = "uploading" /\ age[v] > UploadTimeout
  \/ status[v] = "queued" /\ age[v] > QueuedMaxTimeout
  \/ status[v] = "queued" /\ urgent[v] \in stalled /\ age[v] > QueuedStallTimeout
  \/ status[v] = "compressing" /\ age[v] > ProcessingTimeout

FailTimedOut ==
  LET expired == {v \in Videos : TimedOut(v)}
      Failed(f, x) == [v \in Videos |-> IF v \in expired THEN x ELSE f[v]]
  IN /\ ticking
     /\ ticking' = FALSE
     /\ stalled' = {}
     /\ status' = Failed(status, "failed")
     /\ failure' = Failed(failure, "timeout")
     /\ age' = Failed(age, 0)
     /\ hooks' = [v \in Videos |-> IF v \in expired /\ status[v] = "uploading"
                                     THEN hooks[v] \cup {"original"} ELSE hooks[v]]
     /\ UNCHANGED <<attempt, urgent, laneAge, assets, queue, worker, topic,
                    storage, inflight>>

\* An error or a crash: the transaction of the tick is rolled back.
TickFails ==
  /\ ticking
  /\ ticking' = FALSE
  /\ stalled' = {}
  /\ UNCHANGED <<row, laneAge, assets, queue, worker, topic, storage, hooks, inflight>>

\* What a cleanup removes: one object, the hls/ prefix, or the whole prefix.
Covers(h) == IF h = "all" THEN Objects ELSE {h}

RunHook(v, h) ==
  /\ h \in hooks[v]
  /\ hooks' = [hooks EXCEPT ![v] = @ \ {h}]
  /\ storage' = [storage EXCEPT ![v] = @ \ Covers(h)]
  /\ UNCHANGED <<row, laneAge, watchdog, assets, queue, worker, topic, inflight>>

\* Best effort: the store refuses every attempt, or the process dies first.
LoseHook(v, h) ==
  /\ h \in hooks[v]
  /\ hooks' = [hooks EXCEPT ![v] = @ \ {h}]
  /\ UNCHANGED <<row, laneAge, watchdog, assets, queue, worker, topic, storage, inflight>>

-----------------------------------------------------------------------------
Requests ==
  \E v \in Videos :
    \/ CreateUpload(v)
    \/ ClientPut(v)
    \/ Delete(v)
    \/ \E c \in Clients :
         \/ CompleteBegin(c, v)
         \/ CompleteQueue(c, v)
         \/ CompleteLate(c, v)
         \/ CompleteConflict(c, v)

Relay ==
  \E t \in Tasks : RelayPublish(t) \/ RelayCommit(t) \/ RelayRollback(t)

Worker ==
  \E v \in Videos, a \in Attempts :
    \/ WorkerTake(v, a)
    \/ WorkerUpload(v, a)
    \/ WorkerComplete(v, a)
    \/ WorkerFail(v, a)
    \/ WorkerCrash(v, a)

Consumer ==
  \E v \in Videos :
    \/ \E e \in Event : Consume(v, e)
    \/ CommitOffset(v)
    \/ ConsumerRestart(v)

Hooks ==
  \E v \in Videos, h \in Cleanups : RunHook(v, h) \/ LoseHook(v, h)

Watchdog == ReadLanes \/ FailTimedOut \/ TickFails

Next == Requests \/ Relay \/ Worker \/ Consumer \/ Watchdog \/ Hooks \/ ClockTick

Spec == Init /\ [][Next]_vars

\* The watchdog's ticker and the clock are all that settles a video: neither
\* the relay, the worker nor the consumer owes anything. Time goes on between
\* the ticks, and not every tick fails.
Fairness == SF_vars(ClockTick) /\ WF_vars(ReadLanes) /\ SF_vars(FailTimedOut)

FairSpec == Spec /\ Fairness

-----------------------------------------------------------------------------
(* What must hold *)

\* Every variable stays within the values the schema and the events allow; in
\* particular processing_attempt never passes max_processing_attempts.
TypeOK ==
  /\ status \in [Videos -> Statuses]
  /\ attempt \in [Videos -> 0..MaxProcessingAttempts]
  /\ failure \in [Videos -> FailureClasses]
  /\ urgent \in [Videos -> Lanes]
  /\ age \in [Videos -> 0..MaxAge]
  /\ laneAge \in [Lanes -> 0..MaxAge]
  /\ assets \in [Videos -> SUBSET Objects]
  /\ outbox \in [Tasks -> Nat]
  /\ sent \subseteq Tasks
  /\ tasks \subseteq Tasks
  /\ worker \in [Tasks -> Phases]
  /\ events \in [Videos -> Seq(Event)]
  /\ handled \in [Videos -> Nat]
  /\ \A v \in Videos : handled[v] <= Len(events[v])
  /\ storage \in [Videos -> SUBSET Objects]
  /\ hooks \in [Videos -> SUBSET Cleanups]
  /\ ticking \in BOOLEAN
  /\ stalled \subseteq Lanes
  /\ inflight \in [Clients -> Videos \cup {NoVideo}]

\* A queued video is always on its way to a worker: the task of its current
\* attempt is a row of the outbox or a message in Kafka, after any number of
\* retries, relay crashes and redeliveries (the transactional outbox).
QueuedWorkIsNeverLost ==
  \A v \in Videos : status[v] = "queued" =>
    /\ attempt[v] \in Attempts
    /\ \/ outbox[<<v, attempt[v]>>] > 0
       \/ <<v, attempt[v]>> \in tasks

\* One attempt, one row: neither two CompleteUploads nor a ProcessingFailed
\* delivered twice publish the same attempt again, and no row is ahead of the
\* attempt the video is at.
OneRowPerAttempt ==
  \A v \in Videos, a \in Attempts :
    /\ outbox[<<v, a>>] <= 1
    /\ outbox[<<v, a>>] > 0 => a <= attempt[v]

\* What a worker may be sent to encode has its original, in the database and in
\* the store: no cleanup of a timed-out upload races a completed one.
ProcessableHasOriginal ==
  \A v \in Videos : status[v] \in Processing \cup {"ready"} =>
    "original" \in assets[v] \cap storage[v]

\* A ready video can be played: its HLS results are registered and no cleanup
\* of orphan results has removed them, however late or often an event arrives.
ReadyIsServable ==
  \A v \in Videos : status[v] = "ready" => "hls" \in assets[v] \cap storage[v]

\* A cleanup is only ever pending for a video that has ended: what the hook
\* knew when it was registered cannot become stale before it runs.
CleanupSparesLiveVideos ==
  \A v \in Videos :
    /\ hooks[v] # {} => status[v] \in {"failed", "deleted"}
    /\ "all" \in hooks[v] => status[v] = "deleted"

\* The class "temporary" says that every attempt was spent, whichever of the
\* duplicated and late ProcessingFailed of those attempts were applied.
TemporaryMeansExhausted ==
  \A v \in Videos : failure[v] = "temporary" => attempt[v] = MaxProcessingAttempts

\* The rows follow the lifecycle: "ready" and "failed" are final, attempts go
\* up by one, and only by a retry (VideoLifecycle).
Lifecycle ==
  INSTANCE VideoLifecycle WITH
    Videos <- Videos, MaxProcessingAttempts <- MaxProcessingAttempts,
    status <- status, attempt <- attempt
ImplementsLifecycle == Lifecycle!Spec

\* A lane that has just taken a video is alive: when a video of the lane went to
\* compressing less than QueuedStallTimeout ago, and before the tick began (it
\* has aged since), the tick fails no other video of the lane that has not been
\* queued for QueuedMaxTimeout.
FreshDequeueProtectsLane ==
  [][\A v, w \in Videos :
       (/\ status[w] = "compressing"
        /\ age[w] \in 1..(QueuedStallTimeout - 1)
        /\ urgent[v] = urgent[w]
        /\ status[v] = "queued"
        /\ status'[v] = "failed"
        /\ failure'[v] = "timeout")
       => age[v] > QueuedMaxTimeout]_vars

\* No video stays in uploading, queued or compressing for ever, even if Kafka,
\* the worker and the client are gone: the watchdog's promise.
EveryVideoSettles ==
  \A v \in Videos : status[v] \in Unsettled ~> status[v] \notin Unsettled
=============================================================================
