# Verification of vilib-api

TLA+ specifications of the backend of the video library (`src/`, Go), the TLC
instances that check them, and TLAPS proofs of what matters most. The source is
the reference: where a module says what the code does, it says it of the code,
not of the documents about it.

## 1. The system

vilib-api is an HTTP API over PostgreSQL, S3 and Kafka. Several instances of it may
run. An external worker (not in `src/`) encodes videos: it receives tasks
(`OriginalUploaded`) and answers with events (`ProcessingStarted`, `ProcessingCompleted`,
`ProcessingFailed`).

Every request, every event and every background tick is **one database transaction**
run by `saga.Run` (READ COMMITTED, no savepoints). What must be done outside the
database after the commit (deleting objects, sending mail) is registered with
`saga.AfterCommit` and run best-effort, in order, after the commit; a crash loses it.

### Components

| component | state it keeps | operations | hard behaviour |
|---|---|---|---|
| Video service (`service/video.go`, `repository/video*.go`) | `user_group_videos` (status, attempt, failure class, timestamps, lane), `video_assets`, `files`, S3 objects | CreateUpload, CompleteUpload, Get, Rename, Delete, Apply{Started,Completed,Failed}, FailTimedOut | conditional updates racing each other; S3 outside the transaction; duplicated, late and reordered events |
| Saga and hooks (`saga/`) | the open transaction, the hooks | Run, AfterCommit | crash between commit and hook; statements after a failed one |
| Outbox relay (`outbox/relay.go`) | `outbox_events` | tick: select a batch FOR UPDATE SKIP LOCKED, publish, delete, commit | at-least-once, several instances, publish and commit are not atomic |
| Event consumer (`kafka/consumer.go`, `eventhandler/`) | the committed offset | fetch, handle with retry, commit | redelivery, endless retry of one message, shutdown |
| Watchdog (`watchdog/`) | none (reads rows and `pipeline_progress`) | tick: fail timed-out videos, clean old watch sessions | races every other writer; several instances; ticks that fail |
| Watch progress (`service/watch_progress.go`) | `watch_progress` (multirange of watched intervals), `watch_sessions` | Heartbeat, Get, OnDurationKnown, CleanupStaleSessions | arithmetic of allowances, replayed and concurrent heartbeats, the threshold crossed while the duration becomes known |
| Assignments (`service/assignment.go`) | `assignments`, targets, participants, events | Create, UpdateDue, Cancel, RemoveParticipant, membership and deletion cascades | cascades racing heartbeats and each other; the event log |
| Auth (`service/auth.go`) | password hashes, `password_reset_tokens` | Login, SwitchAccount, ChangePassword, RequestPasswordReset, ResetPassword | one-time tokens under concurrency |
| Accounts, users, roles, access | `accounts`, `users`, `account_roles`, `group_roles` | Create, Update, Delete, Deactivate, checks | exactly one default role, check-then-act deletion |
| Groups and members | `user_groups`, `group_members` | Create, Rename, AddMembers, RemoveMember, UpdateRole, Delete | cascades into videos and assignments |
| Instances (`cmd/main.go`) | the phase of start-up and shutdown | start, SIGTERM, stop server, watchdog, consumer and relay in turn | components are stopped in the middle of their work |
| Chapters | `video_chapters` | Create, Update, Delete, List | limit per video, end of a chapter is the start of the next |
| HLS, S3 client, handlers, DTOs, e-mail, configuration | none of their own | | text, I/O and parsing |

What makes each correct: the video service never loses a task or an object a live
video needs, and settles every video; the relay publishes every committed row; the
consumer applies every event at least once; a heartbeat never earns more coverage than
time allows, and reaching the threshold completes the open participations; a cancelled
assignment has no open participant, and the log of a participant tells his status; a
reset token sets one password; an account keeps exactly one default role; the chapters
share out the video. Where the code checks first and writes later without a lock, the
models say how much of such a promise overlapping requests leave.

### How they interact

    client --HTTP--> video service --row--> outbox --relay--> Kafka --> worker
      |                  ^   |                                  |        |
      +--PUT--> S3 <-----|---+ hooks (after commit)             +<-------+ events
                         |                                      |
                      watchdog (ticks)            consumer --> Apply*

Shared state is the database; nothing is shared in memory. `Delete` of a video or a
group and `AddMembers` call into assignments; `ProcessingCompleted` and heartbeats
meet in watch progress.

## 2. The modules

| module | what it is |
|---|---|
| `VideoLifecycle` | abstract: statuses and attempts of videos and which steps are allowed |
| `VideoPipeline` | the life of videos: requests, relay, worker, consumer, watchdog, hooks, time |
| `AtomicUpload` | abstract: transactions of one video that happen at once, and their answers |
| `UploadTransactions` | four kinds of transactions of one video, statement by statement, under PostgreSQL's locks and constraints |
| `Outbox` | abstract: an event that has committed is accepted for ever, only accepted events are delivered |
| `OutboxRelay` | the outbox and the relays of several instances, row by row |
| `KafkaConsumer` | the consumers of the processing events: fetch, retry, commit, rebalance |
| `Delivery` | composes the last two: instances that start, shut down and die, and the worker between them |
| `Participation` | the tables of assignments and participants and the statements that write their rows |
| `WatchProgress` | extends it: heartbeats, sessions, the recount when the length becomes known, assignments created and cancelled meanwhile |
| `ParticipantLifecycle` | abstract: statuses of assignments and participants and which steps are allowed |
| `Assignments` | the assignments of one video of one group: requests of managers, cascades, viewers, the event log |
| `Chapters` | the chapters of one video and what a read computes of them |
| `Directory` | the roles and users of one account, and the links that reset passwords |
| `MC...` | instances for TLC: symmetries, definitions for constants |
| `...Proofs` | the inductive invariant and the theorems of the module of that name |

`VideoPipeline` implements `VideoLifecycle`, `UploadTransactions` implements `AtomicUpload`,
`Delivery` implements `Outbox`, and both `Assignments` and `WatchProgress` implement
`ParticipantLifecycle`, each by INSTANCE ... WITH, checked and proved.
`VideoPipeline` has the relay and the consumer too, in the detail that matters for one
video; `Delivery` has them for a sequence of events and several instances.

A definition whose comment begins "A slip" is a mistake that the definition after it
avoids. Nothing uses it; it is there to show what a property would notice.

### VideoPipeline

One action per handler; a handler is one transaction and so one step, except where it
leaves the database:

* `CompleteUpload` is `CompleteBegin` (the SELECT and S3's HeadObject) and then one of
  `CompleteQueue`, `CompleteLate`, `CompleteConflict` (its writes). What was read
  may be stale in between. `inflight` holds the requests in between.
* The relay is `RelayPublish` (Kafka has the message) and `RelayCommit` or `RelayRollback`.
* A tick of the watchdog is `ReadLanes` (the SELECT of `pipeline_progress`) and
  `FailTimedOut` (the UPDATEs) or `TickFails`.
* A hook (`hooks`) runs (`RunHook`) or is lost (`LoseHook`) later than its commit.
  The consumer runs the hooks of a message before it takes the next one, so a pending
  `hls` cleanup blocks `Receive` and `CommitOffset`.
* `Consume` is `Receive` and `ApplyProcessingStarted`, `-Completed` or `-Failed`;
  `CommitOffset` and `ConsumerRestart` give at-least-once delivery from the last
  committed offset.

| variable | in the code |
|---|---|
| `status`, `attempt`, `failure`, `urgent` | columns of `user_group_videos`; "none" and "deleted" stand for no row |
| `age` | now - `status_changed_at` (`created_at` for uploading: nothing but the insert writes either) |
| `laneAge` | now - `pipeline_progress.last_dequeued_at` |
| `assets` | `video_assets` with their `files`; the HLS assets of one video as one |
| `outbox`, `sent` | rows of `outbox_events` per task; those a relay has published and not committed |
| `tasks`, `worker` | the topics of the two lanes; the worker (external) |
| `events`, `handled` | the processing topic of a video past the committed offset (Kafka keeps the order per key); how many were applied |
| `storage` | the objects of a video in S3 |
| `hooks` | cleanups registered with AfterCommit |
| `ticking`, `stalled` | a tick of the watchdog, and what it has read |
| `inflight` | CompleteUploads between HeadObject and their writes |

Abstractions. Kafka may deliver a task again at any time, so `tasks` is a set; one
worker handles one delivery of a task at a time. The worker's upload replaces the HLS results in one step (the worker cleans its
prefix first: that a second worker does so to a ready video is the worker's concern
and outside `src/`). A `ProcessingCompleted` whose results do not validate is the event
kind "poison". Left out: permissions, unique names, empty
objects, events that do not decode (skipped without effect), durations (watch
progress). `ClientPut` may happen at any time after `CreateUpload`: the URL is
valid for an hour and the upload itself may take longer. Ages stop at `MaxAge`, past
every timeout. Time does not pass within a tick, which compares every row with the one
`now` it began with; ticks of several instances are in `UploadTransactions`.

### UploadTransactions

The same handlers as sequences of statements, to see what "one transaction, one step"
hides: CompleteUpload (insert the file, insert the asset, UPDATE the status,
insert the outbox row), Delete (select the assets, delete their files, delete the
video), the watchdog's tick and ApplyProcessingCompleted (UPDATE, replace the
results). A tick is one transaction that looks at every status: `TickUploading`, then
`TickProcessing`, where "queued" stands for queued and compressing and the passes over them (by the
maximum, per lane, and of compressing) are one statement, for they write the row at most once. Which video
has timed out is left open: time, lanes and the clean-up of old sessions, which touches none of these
rows, are in `VideoPipeline` and `WatchProgress`. PostgreSQL is modelled from how the code relies on it: row locks of UPDATE
and DELETE, FOR KEY SHARE of a foreign key check, a unique index that makes an insert wait for
uncommitted entries, cascades, an error that aborts the transaction, READ COMMITTED
re-evaluation of a WHERE after a wait. `Crash` rolls a transaction back at any
statement.

`AtomicUpload` says what all of this comes to: each transaction happens at once, and is answered by
what it found then. The mapping hides the statements, the locks and everything uncommitted, and shows a
reply only once the transaction has ended. That `UploadTransactions` implements it is why
`VideoPipeline` may take a transaction for one step. A transaction that loses a race may end in an error, which is a step
without effect; a CompleteUpload of a video that has failed registers its original all the same (`Register`).
`GiveUp` fails a video that is uploading or processed, and leaves its assets and its task.
The rows of `files` that may be left behind without an asset (section 5) are not in `AtomicUpload`.

### WatchProgress and Participation

The progress of the users on one video. A heartbeat is a transaction of several steps,
for the order of its reads, its lock and its writes is what matters:

* `BeginHeartbeat`: the time is taken and the video read, neither of them locked;
* `SelectProgress`: SELECT FOR UPDATE of the row of progress. It waits for a lock, but a
  row that is not there is no lock;
* `InsertProgress`: INSERT ON CONFLICT DO NOTHING, which waits for another inserter, and
  the second SELECT. The heartbeat takes the row for new, whoever has inserted it;
* `Heartbeat` or `ReplayedHeartbeat`: session, allowance, UPDATE, participants, commit;
  `AbortHeartbeat` is every rollback.

What one heartbeat is worth are the operators `AcceptedMs`, `WallDelta`, `GrantedMs` and
`Apply`: the multirange of the row is a set of milliseconds, and `covered_ms` its
cardinality, as the UPDATE recounts it. The rate tolerance and the
threshold are fractions of integers; `Tolerate` cuts. The need is `math.Ceil` of a product in float64,
which can lie just above the share when that is a whole number of milliseconds: 0.55 of 3,600,000 ms is
1980000.0000000002, and the need 1,980,001. `NeedMs` is the exact ceiling and `CeilExcess`, 0 or 1
(`CeilAssumption`).

`ProcessingCompleted` sets the length and recounts (`OnDurationKnown`) in one step, when no
heartbeat holds a row it updates; `CleanupStaleSessions` is the watchdog's. Create reads
progress without a lock (`ReadForCreate`) and inserts later (`CommitCreate`).

| variable | in the code |
|---|---|
| `clock` | `time.Now` of the service (UTC, one clock) |
| `video`, `duration` | status ("processing" for queued and compressing) and `duration_ms` |
| `progress`, `sessions` | rows of `watch_progress` and `watch_sessions`; `NoRow`, `NoSession` for none |
| `request` | a heartbeat in flight: its time, the length it has read, its row |
| `assignment`, `participant` | the status of `assignments`; status and `completed_at` of `assignment_participants` |
| `creating` | the statuses Create has decided on, before InsertBatch |

Left out: the player's position, `first_at`, percents and the session that completed a
participant (they decide nothing), Get, permissions, deletion of the video (the rows go
with it), and the other operations of assignments (`Assignments`).

### OutboxRelay, KafkaConsumer and Delivery

A tick of a relay is `SelectBatch`, a `Publish` per row, and `DeleteAndCommit`. It fails by
`PublishFails` (Kafka may have the message all the same) or `TickFails`, and is cut by
`Interrupt`, the cancelled context of a shutdown. The consumer is the loop of
`Consumer.Run`: `Fetch`, `HandleSucceeds` or `HandleFails`, `Retry` or `GiveUp`, `Commit` (whose
error the code only logs), until `FetchStops` or `FetchFails`. `Delivery` puts one of each into an
instance, and guards their steps by where `main` is.

| variable | in the code |
|---|---|
| `queue` | committed rows of `outbox_events`; their ids are numbers, for the relay sorts by them |
| `claimed`, `sent` | what the transaction of each relay's tick has locked and published |
| `topic` | the tasks that Kafka has, in order |
| `reader`, `owner`, `committed` | where `Run` is and the offset it is at; who the partition is assigned to; the group's offset |
| `handled`, `abandoned` | history: offsets whose handler succeeded, or whose retry a shutdown ended |
| `phase` | of each instance: "running", what `shutdown` waits for ("http", "consumer", "relay"), "off" |
| `answered` | how many copies of tasks the worker (external) has answered; the partition of answers is that of tasks up to there |
| `faults` | failed publications, failed ticks, crashes, shutdowns, accidental rebalances, readers gone deaf: at most `MaxFaults` |

Left out: headers and payloads, messages that do not decode (the handlers drop them), more
than one partition (Kafka orders per key, and a key has one).

### Assignments and ParticipantLifecycle

A request is one transaction at READ COMMITTED. `Begin...` makes its checks and reads, and
keeps in `request` what they returned and which rows its UPDATEs find; `Commit...` applies
its writes, the WHERE evaluated again on the rows that were found, as PostgreSQL does after
it has waited for a row, while rows inserted since are not seen. `Abort` is every error.
RemoveMember takes the lock of the member's row first, so it is one step.
`Deactivate` and `Reactivate` are there for what they do to memberships, `Watch` for what a
heartbeat does to participants.

| variable | in the code |
|---|---|
| `assignment` | status of `assignments`, and the reason of a cancellation (`cancel_reason`) |
| `term` | `due_mode` with `due_at` or `due_days`; `past` are the dates that are over |
| `forGroup` | `assignment_targets` of the group |
| `participant` | status, source and term of `assignment_participants` |
| `journal` | the last event of a pair in `assignment_events` |
| `members`, `inactive` | `group_members`; users with `deactivated_at` |
| `present` | whether the video and the group are there |
| `seen` | progress of a user on the video: none, some, threshold reached |
| `request` | the request of each client in flight |

One video of one group: what an assignment reads of another group is only whether a user may
watch, which is what `Overseers` stand for. Left out: the comment of an assignment, cards,
lists and reports (reads).

### Chapters

A row keeps only where its chapter starts. `EndOf`, `CoveredMs`, `CoveragePct` and `IsDone` are
what the reads compute (`chapter_bounds` of the SQL, `ChapterProgress` in `domain`). Create,
Update and Delete begin with their checks and commit their one write later; the unique
key on the start and the foreign key on the video are conditions of the commit. `chapters` and
`start` are the rows of `video_chapters`, `retired` the ids of those deleted, `video` the status with
its length. Names are left out; a patch without `start_ms` (`Same`) stands for a new name. `ThresholdPct` is
the threshold that `ChapterProgress.Status` rounds to a whole percent; `VideoPct` is the percent of the video,
`coveragePercent` of `service/watch_progress.go`.

### Directory

One account. Requests that check what no key guards begin and commit apart (`CreateDefault`,
`MakeDefault`, `UpdateRole`, `CreateUser`, `RequestReset`, `Reset`); those whose checks the foreign
keys repeat at the write are one step (`CreateRole`, `DeleteRole`, `ChangeRole`, `Deactivate`,
`Reactivate`). `roles`, `defaultBy` and `user` are rows of `account_roles` and `users`; `link` and
`spent` those of `password_reset_tokens`; `defaultBy` and `hiredBy` also remember whose request
wrote them. Left out: the creation of an account (its owner's role is there from the start), the
tree of parent roles, hashes, mail.

## 3. Runs

| run | instance | what it shows |
|---|---|---|
| `pipeline_safety` | 1 video, 2 clients, 1 lane, 2 attempts, 2 uncommitted events, timeouts 1/1/2/1, ages to 3; 1.7 million states | `TypeOK`, `QueuedWorkIsNeverLost`, `OneRowPerAttempt`, `ProcessableHasOriginal`, `ReadyIsServable`, `CleanupSparesLiveVideos`, `TemporaryMeansExhausted`, `ImplementsLifecycle` |
| `pipeline_lanes` | 2 videos, 2 lanes, 1 attempt, stall 2 < max 3; 1.4 million states | `FreshDequeueProtectsLane` |
| `pipeline_liveness` | 1 video, 1 client, fairness | `EveryVideoSettles` |
| `upload_transactions` | 2 CompleteUploads, 2 Deletes, 1 tick, 2 completions, fairness; 0.2 million states | `TypeOK`, `AcceptedAsAWhole`, `LiveVideoIsWhole`, `ImplementsAtomic`, `EveryTxEnds` |
| `watch_progress` | 1 user, 2 heartbeats in flight, 2 sessions, 1 assignment, positions and length 2 ms, interval 2, numbers to 2 and the one past the maximum, clock to 3; 0.8 million states | `TypeOK`, `LockedRowIsCurrent`, `CoverageWithinWall`, `ReachedIsEarned`, `ParticipantIsBacked`, `SettledIsFinal`, `WallGrowsBySession`, `ImplementsLifecycle` |
| `assignments` | 2 users, 1 assignment, 2 requests in flight, 1 term by days; 2.6 million states | `JournalMatchesRows`, `OnlyNewcomersOutlive`, `SettledIsFinal`, `ReopenedByJoining`, `LeavingSparesPersonal`, `ImplementsLifecycle` |
| `assignments_serial` | 1 user who oversees groups, 2 assignments, 1 request at a time, a term by date and one by days; 0.5 million states | `SerialPromises` |
| `delivery` | 2 instances, 2 events, batches of 2, 1 fault, fairness | `CopiesCostFaults`, `OnlyAbandonedAreSkipped`, `ImplementsOutbox`, `EveryTaskIsAnswered` |
| `chapters` | 4 rows, 3 requests in flight, a video of 4 ms, limit 1, threshold 50 % | `BoundsPartition`, `LimitUpToOverlap`, `AllDoneShowsInPercent` |
| `directory` | 2 roles, 2 users of one address, 2 links, 2 requests in flight | `DefaultsUpToOverlap`, `RowsOfEmailUpToOverlap`, `SpentStaysSpent` |
| `deactivation` | 1 user, 1 assignment, 1 request at a time | finds `GroupRowsAreMembers` violated (section 5) |
| `shutdown_skip` | 1 instance, 1 fault | finds `CommittedIsHandled` violated |

Ten more instances are kept beside the runs. Each takes a promise of a comment that the passing run beside
it states only up to requests that overlap, or leaves out, and TLC shows the state in which the code breaks it
(section 5). They are no part of the runs of `PROJECT.json`; `tlc -config X.cfg M` repeats them.

| instance | module | bounds | TLC finds violated |
|---|---|---|---|
| `UploadLostRace.cfg` | `MCUploadTransactions` | 2 CompleteUploads | `LostRaceIsAnswered` |
| `UploadOrphans.cfg` | `MCUploadTransactions` | 1 CompleteUpload, 1 Delete | `NoOrphanFiles` |
| `WatchWall.cfg` | `MCWatchProgress` | as `watch_progress` | `WallIsReal` |
| `WatchUnrecorded.cfg` | `MCWatchProgress` | as `watch_progress` | `UnreachedIsBelow` |
| `WatchEnrolledDone.cfg` | `MCWatchProgress` | as `watch_progress` | `CompletedIsDated` |
| `AssignmentsOverlap.cfg` | `MCAssignments` | 1 user, 1 assignment, 2 requests in flight | `CancelledIsClosed` |
| `ChaptersOverlap.cfg` | `MCChapters` | as `chapters`, 2 requests in flight | `LimitHolds` |
| `DirectoryDefaults.cfg` | `MCDirectory` | as `directory` | `OneDefaultRole` |
| `DirectoryEmails.cfg` | `MCDirectory` | as `directory` | `EmailIsUnique` |
| `DirectoryTokens.cfg` | `MCDirectory` | as `directory` | `TokensAreSingleUse` |

The types of the variables of `assignments`, `delivery`, `chapters` and `directory` are proved
(section 4) and not checked again by a run.

**Bounds of the pipeline.** `Clients`, `MaxLog` (events not yet committed), `MaxProcessingAttempts`,
`MaxAge` and the timeouts are the only bounds. Two clients race for one upload; two events are a
duplicate, or a late one behind another; two attempts have a first, a retried and a last
one; a video interacts with another only through its lane, so one is enough
except for lanes, where two are. `pipeline_lanes` explores no further from a state in
which a video has settled (`NoneSettled`): it has no queue to wait in any more.
The timeouts are small and the stall timeout is no longer than the maximum, as in the
defaults.

**Of `upload_transactions`.** Two requests of a kind race each other; one tick meets each of their statements,
and a second one would find nothing left to fail but what the first rolled back.

**Of `watch_progress`.** Two heartbeats meet, of one session (a replay) or of two (two players);
the tolerance 3/2 and the threshold 2/3 cut and round at lengths of 1 and 2 as 1.1 and
0.9 do at real ones, with no excess of the float product (`CeilExcess` 0: one millisecond of such a length would be
half of it; the theorems are for both); three moments are enough for a session to grow old and for a
heartbeat to be late for the recount. Users share no row but that of a session,
which a heartbeat of another user only refuses.

**Of `assignments`.** A property relates at most two requests and a step of a viewer, and one
assignment is enough for them: requests meet on its rows, its group and its video. Two users are
one who is meant and one who is not, or one personal and one of the group. The term decides
only whether newcomers are enrolled, so its kinds are left to `assignments_serial`, where two
assignments meet in one cascade.

**Of `delivery`.** A fault is any of the seven kinds at any moment. One is enough for a
second copy, for a redelivery, for a shutdown in the middle of a tick or of a retry; two events
give a batch that is published in part, and a message behind one that fails; two instances, a
tick that meets another's and a partition that moves.

**Of `chapters` and `directory`.** Three requests pass the limit of 1 by two, the most that they
can; four milliseconds hold chapters of different lengths and a gap before the first. Two
requests are the fewest that overlap, and any two defaults or two rows are made by two.

The safety theorems are proved for every value of all of these bounds (section 4).

**Deadlock** is not checked where the system may really stop: every row that may be created
was, everything has ended, and no request is possible (a failed or deleted video, a cancelled
assignment, all transactions ended, spent links). That nothing waits for ever is a liveness property
there: `EveryTxEnds`, `EveryTaskIsAnswered`.

**Fairness.** `VideoPipeline` assumes it only of the clock and the watchdog: the ticker goes
on after a failed tick (`Watchdog.Run` logs the error and waits for the next), time goes
on between ticks, and not every tick fails for ever (strong fairness of `FailTimedOut`,
for a tick that fails disables it each time). Nothing is assumed of Kafka, of the worker or of clients.
`UploadTransactions` assumes that a statement that is not blocked is executed. `Delivery` assumes
that goroutines run (weak fairness of the steps of a tick, of the consumer's loop and of `shutdown`),
that a handler that is tried again and again succeeds at last (strong: each failure disables it;
the code's retry is endless for this reason), that an instance that is off is started again, that the
coordinator takes the partition from an instance that is gone, and that the worker answers.
Faults are finitely many, as `MaxFaults` says. A message whose handler never
succeeds blocks its partition for ever in the code: fairness excludes it.

## 4. Proofs

Every theorem holds for all values of the constants under the named assumptions of the
modules, which come from `Config.Validate`, from the schema, or say that a constant is not one of
the model's marks.

### VideoPipeline

| theorem | statement |
|---|---|
| `TypeCorrect` | `Spec => []TypeOK` |
| `QueuedWorkSafe` | `Spec => []QueuedWorkIsNeverLost` |
| `OneRowSafe` | `Spec => []OneRowPerAttempt` |
| `CleanupSafe` | `Spec => []CleanupSparesLiveVideos` |
| `OriginalSafe` | `Spec => []ProcessableHasOriginal` |
| `ReadySafe` | `Spec => []ReadyIsServable` |
| `TemporarySafe` | `Spec => []TemporaryMeansExhausted` |
| `FreshLaneSafe` | `Spec => FreshDequeueProtectsLane` |
| `Refinement` | `Spec => ImplementsLifecycle` |
| `Invariance` | `Spec => []IInv`, on which they rest |

None of the properties is inductive. `IInv` adds to them what the code relies on without
saying it: before the upload is completed nothing about the video exists downstream (no
row in the outbox, no task, no event, no results); every row, task, worker and event belongs to an attempt
the video has begun, and to one that was published once; a worker that has uploaded has put its
results into the store; a pending event "completed" therefore finds them there unless
the video has ended; cleanups are pending only for videos that
have ended, and an ended video never lives again. For the lanes, `LaneIndicator`: a lane's
indicator is no older than the youngest time in which one of its videos went to
compressing, and what a tick has read is true until time passes.

### UploadTransactions

| theorem | statement |
|---|---|
| `UploadTypeCorrect` | `Spec => []TypeOK` |
| `AcceptedOnce` | `Spec => []AcceptedAsAWhole` |
| `NeverHalf` | `Spec => []LiveVideoIsWhole` |
| `UploadIsAtomic` | `Spec => ImplementsAtomic` |
| `NoDeadlock` | `Spec => []SomebodyGoesOn` |

The properties are about committed rows; the argument is about those that are not. `IInv` says per
kind of transaction what it has locked, inserted and read at each of its statements
(`CompletesAt`, `DeletesAt`, `TicksAt`, `FinishesAt`). `KeysAreUnique` and `PendingHaveTheKey` are the unique
index: an uncommitted row has its key to itself. `WriterKnowsTheRow`: who holds the lock of the
video's row has evaluated his WHERE on its present status, which is why only one upload
is accepted and only one result registered (`OneResult`). `OneTask`: with a task in the outbox comes the
original of the request that wrote it, as long as the video is there, and so a second original finds the key
taken; `TaskWithStatus`: a video is not queued before its task, and no longer uploading with it. A
video that times out is failed and keeps both.

For the refinement, `TInv` adds what each transaction will answer (`RepliesAt`) and why the answer is still right when
it commits: the foreign key of a CompleteUpload keeps the video from being deleted (`KeepsVideo`), one that is to
commit without a task has come too late (`LateIsTooLate`), a deleted video has no assets and only a ready
one has results. `TasksAreAnswered` adds that the task is the word of the one request that was answered "accepted",
which makes `AcceptedAsAWhole` of `OneTask` and `TaskWithStatus`.

`SomebodyGoesOn`: of the transactions that have begun and not ended, the next statement of one waits
for nobody (`CanGoOn`, the guards that wait: ENABLED is out of the prover's reach). `NInv` adds where a transaction
can hold what another waits for (`LocksAt`) and that results are deleted only when no more can come
(`ResultsCameBefore`). Whoever has the lock of the video's row waits for nobody. If nobody has it, whoever is
past the files of the video goes on, a CompleteUpload before a Delete, which waits for its foreign
key; if all are at the files, none has written any and all go on. Crashes, which free everything, play
no part.

### WatchProgress

| theorem | statement |
|---|---|
| `WatchTypeCorrect` | `Spec => []TypeOK` |
| `LockedRowSafe` | `Spec => []LockedRowIsCurrent` |
| `CoverageSafe` | `Spec => []CoverageWithinWall` |
| `ReachedSafe` | `Spec => []ReachedIsEarned` |
| `ParticipantSafe` | `Spec => []ParticipantIsBacked` |
| `SettledFinal` | `Spec => SettledIsFinal` |
| `WallGrows` | `Spec => WallGrowsBySession` |
| `WatchImplements` | `Spec => ImplementsLifecycle` |

The argument: `OneLock` and `LockedRowIsCurrent` hold together (the lock of a row is held
once, so nobody writes the row of a heartbeat that has read it), and so what `GrantedMs` computes from the
row that was read fits the row that is written: the union of intervals grows by at most the
granted milliseconds (`ApplyGrows`, from the cardinality of a union), which keeps the wall cap.
The length never changes once it is set (`LengthIsFinal`), and coverage
never shrinks (`RowsGrow`), so an earned threshold stays earned (`NeedIsEnough`: the need, with or
without the excess of the float product, is at least the share). `CreatingIsBacked` and `CreatingIsNew` carry what Create has
read to its insert. `Moves` says what any step may do to one participant, and gives both
`ParticipantIsBacked` and `SettledIsFinal`. `WallGrows` needs `LockedRowIsCurrent`: the time is
added to the row that was read. For `WatchImplements`, `LInv` adds that an
assignment not yet inserted has no participants (`NewIsEmpty`), and `AdvanceMaps` that the two UPDATEs of one
transaction, which start rows and complete rows of any assignments, are one step of the lifecycle.

### Assignments

| theorem | statement |
|---|---|
| `AssignmentsTypeCorrect` | `Spec => []TypeOK` |
| `JournalIsTrue` | `Spec => []JournalMatchesRows` |
| `NewcomersAlone` | `Spec => []OnlyNewcomersOutlive` |
| `SettledStays` | `Spec => SettledIsFinal` |
| `BackByJoining` | `Spec => ReopenedByJoining` |
| `LeavingIsExact` | `Spec => LeavingSparesPersonal` |
| `AssignmentsImplement` | `Spec => ImplementsLifecycle` |
| `SerialIsSafe` | with one request at a time, `Spec => []SerialPromises` |

`IInv` says what a request in flight keeps true of the rows, whatever others commit (`RequestsFit`). The
heart of it: a request that cancels an assignment has found every open personal row,
because personal rows are made only by the Create of an assignment that no
cancellation could yet have seen, and never come open again. Rows of the group have no such
bound, and they are what `OnlyNewcomersOutlive` leaves out. `LeavingIsExact` needs also that
members are those of a group that is there.

`SerialIsSafe` is for one client, whose requests follow each other while viewers watch and
terms run out. `SInv` adds to `IInv` and the promises that what the request in flight has read is still so
(`AllUpToDate`). Section 5 says how two clients break each of them.

### Delivery

| theorem | statement |
|---|---|
| `DeliveryTypeCorrect` | `Spec => []TypeOK` |
| `AbandonedAlone` | `Spec => []OnlyAbandonedAreSkipped` |
| `TicksAreExclusive` | `Spec => [](TicksHoldRows /\ LocksAreExclusive)` |
| `RelaysImplementOutbox` | `Spec => ImplementsOutbox` |
| `CopiesNeedFaults` | `Spec => []CopiesCostFaults` |
| `AnswersInOrder` | `Spec => []DealtWithInOrder` |
| `CommittedUntilFault` | `Spec => [](faults = 0 => CommittedIsHandled)` |

`TicksHoldRows` (what a tick has locked is in the outbox, what it has sent is in Kafka) makes the
delete safe and gives the refinement. `ReadersSkipNothing`: all that is before the place of a
consumer was handled or given up, whichever consumer did it, so any commit, however
late, is safe. For `CopiesCostFaults`, `CopiesArePaid` counts: the copies of an event are at most
the faults, and one more once a tick holds it published or it has left the outbox (`Credit`). A
shutdown that may still interrupt a tick has paid its fault when it began (`Prepaid`).
`DealtWithInOrder`: with an offset, all before it are dealt with, which is the order in which
`VideoPipeline` applies the events of a video. An offset is given up only after a fault (`FaultsComeFirst`), so
until then committed means handled.

### Chapters

| theorem | statement |
|---|---|
| `ChaptersTypeCorrect` | `Spec => []TypeOK` |
| `ChaptersPartition` | `Spec => []BoundsPartition` |
| `LimitOverlapOnly` | `Spec => []LimitUpToOverlap` |
| `AllDoneShows` | `Spec => []AllDoneShowsInPercent` |
| `LimitOfOne` | with one request at a time, `Spec => [](Cardinality(chapters) <= Limit)` |

The partition follows from `UniqueStarts` and the least element of a set of naturals. `RoomIsKept` counts
a request that has passed the check of the limit as a place it holds until it ends.

`AllDoneShows` compares a sum over all chapters with the whole. Instead of an induction over the chapters, it takes
the least boundary of chapters before which too little is covered: the chapter that ends there is done, so too
little is covered before its start already.

### Directory

| theorem | statement |
|---|---|
| `DirectoryTypeCorrect` | `Spec => []TypeOK` |
| `DefaultsOverlapOnly` | `Spec => []DefaultsUpToOverlap` |
| `RowsOverlapOnly` | `Spec => []RowsOfEmailUpToOverlap` |
| `OnePerClient` | `Spec => []AtMostOnePerClient` |
| `SpentForGood` | `Spec => SpentStaysSpent` |

`SnapshotHasOwn`: what a request read when it began has all that its own client ever made
default, so `ClearDefault` clears it; `HiresNoneTwice` is the same for rows of users.
`OnePerClient` counts by the injection of defaults into clients.

### Only model-checked

Every safety and action property that a passing run checks is proved, and so is every refinement. Out of the
prover's reach, and left to TLC, are liveness under fairness and ENABLED (`EveryVideoSettles`, `EveryTxEnds`,
`EveryTaskIsAnswered`). `NoDeadlock` is the part of `EveryTxEnds` that is a safety property.
Induction over data, whose theorems take an operator as a parameter, is out of reach too; no
definition here needs it, and none is RECURSIVE.

## 5. What the checks found

1. `deactivation`. `UserService.Deactivate` takes a user out of every group by a plain DELETE
   (`repository/user.go:272`) and does not call `OnMemberRemoved`; `Reactivate` does not bring the
   membership back. Once reactivated, the user is in no group, may not watch its videos, and
   keeps the open assignments he had through it.
2. `shutdown_skip`. A shutdown that falls into the pause between two attempts
   ends the retry without a commit, and `Run` calls `FetchMessage` again
   (`kafka/consumer.go:131`). If that returns the next message in spite of the cancelled context, it
   is handled and committed, and the group's offset passes the message that failed.
   `OnlyAbandonedAreSkipped` says that this is the only way to skip one, and `CommittedUntilFault`
   that it takes a fault or a shutdown.
3. `UploadLostRace.cfg`. The loser of two concurrent CompleteUploads is to get the current state instead of a
   500 (`service/video.go:520-524`, and the test at `service/video_test.go:505-508`, over a mock). Its SELECT
   runs in the transaction that the unique violation has aborted, and fails too.
4. `UploadOrphans.cfg`. "An orphan in S3 is allowed, an orphan in the database is not"
   (`repository/video.go:357-359`). An original registered between the SELECT of `Delete` and its DELETE of the
   video loses its asset to the cascade and leaves its row of `files`.
5. `WatchWall.cfg`. `wall_ms` is said to be real time (`migrations/20260819100100_create_watch_progress.sql:25`).
   Two first heartbeats that meet both take the row for new (`service/watch_progress.go:200-215`), and the
   second adds its interval although no time has passed. `CoverageWithinWall` is relative to `wall_ms`, and holds.
6. `WatchUnrecorded.cfg`. A heartbeat that has read the video before its length was known and commits after
   `OnDurationKnown` is past the threshold with `threshold_reached_at` NULL, "not reached yet" (line 28 of the
   migration), until another heartbeat of the user is accepted.
7. `WatchEnrolledDone.cfg`. `applyInitialParticipantProgress` completes a participant "with completed_at = the
   moment the threshold was reached" (`service/assignment.go:476-478`); `InsertBatch`
   (`repository/assignment_participant.go:158-166`) writes neither that moment nor the other `completed_*`.
8. `AssignmentsOverlap.cfg`. A newcomer is enrolled in an assignment that was cancelled after `OnMembersAdded` had read it as
   active, and stays open, against `service/assignment.go:1746-1747`. `OnlyNewcomersOutlive` says that nobody
   else does.
9. `ChaptersOverlap.cfg`. Requests that count together pass the limit (`service/chapter.go:14`) together;
   `LimitUpToOverlap` says by how many.
10. `DirectoryDefaults.cfg`. Two Creates, or a Create and an Update, leave two default roles, against
   `repository/account_role.go:185-187`, and `CreateUser` fails until a manager mends it.
11. `DirectoryEmails.cfg`. Two CreateUsers hire one address twice, against `service/account.go:90`.
12. `DirectoryTokens.cfg`. Two ResetPasswords use one "single-use" link
   (`migrations/20260818110000_create_password_reset_tokens.sql:16`); `SpentStaysSpent` says that no later one does.

Noticed while modelling, without an instance of its own:

* Videos. `CompleteUpload` commits the asset of a video the watchdog has
  failed in the meantime (`service/video.go:552-560`); the tick's hook then deletes the
  object, and `Get` offers a URL to nothing. `queued_stall_timeout` cannot tell a worker that is
  busy with a long video from a pipeline that stands still, and a ProcessingStarted that commits between the
  tick's SELECT of the lane and its UPDATE does not save the lane (`service/video.go:1408`).
  `README.md:93` of the repository gives the classes of a failed video as permanent and timeout;
  the code also writes "temporary" (`service/video.go:983`).
* Watch progress. As a heartbeat takes its time before it waits for the lock, `last_at` may go
  back, and the next one counts the time twice.
* Chapters. A user who is done with every chapter may not have reached the threshold of the video:
  the chapters hold him to a percent rounded to a whole one (`domain/chapter.go:103`), the video to the
  ceiling of a product in float64 (`service/watch_progress.go:486`), which at 0.55 and 3,600,000 ms asks for one
  millisecond more than 55 %. `AllDoneShowsInPercent` therefore compares the percents that are shown.
* Assignments. Requests that overlap break the other two parts of `SerialPromises` too: an assignment is created
  while its video is deleted, an open row keeps the old term. A participant enrolled while his heartbeat crosses the
  threshold stays open though he has watched the video (`service/assignment.go:392`). Cancel by hand writes no
  event of the cancellation (`service/assignment.go:1748`), though
  the comment at 1876 says that the caller does; heartbeats complete a participant without an event.
  The report on chapters makes two reads that may disagree (`service/assignment.go:1322-1357`).
* Directory. An Update that read a role before it became the default, or its
  deletion, leaves no default. A ChangePassword in flight may overwrite a reset.
* Delivery. A row that cannot be published blocks the outbox (`outbox/relay.go:121`). A consumer whose
  `FetchMessage` fails ends with a log line (`cmd/main.go:169`), and its instance keeps its partition.

## 6. Not modelled

* HTTP handlers, DTOs and routing: parsing and formatting around one call of a service in one saga.
* Generated code (`internal/gen`, the mocks, `docs/docs.go`) is most of the lines of the
  repository. It has no logic of its own; what the generated queries do is modelled where a
  repository calls them.
* HLS playlists and the S3 client: text without state, and thin I/O. The objects are in `VideoPipeline`.
* E-mail: formatting and SMTP within the transaction of the request; its failure is an `Abort`.
* Login, SwitchAccount, sessions and tokens: no state but what the JWT carries. ChangePassword
  writes one column, whose value is not modelled.
* Decisions on permissions: tests of bits on what one request has read. Actions are those of
  users who may.
* Creation of accounts, profiles, parent roles, roles of groups, Create and Rename of groups, Rename
  of videos: single writes that nothing modelled depends on.
* Reads: lists, cards, previews, reports.
* PostgreSQL, Kafka, S3 and the worker beyond what `src/` relies on.
