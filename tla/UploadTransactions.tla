------------------------- MODULE UploadTransactions -------------------------
(***************************************************************************)
(* The transactions about one video, statement by statement:               *)
(* CompleteUpload, Delete, the watchdog's tick and                         *)
(* ApplyProcessingCompleted, run by saga.Run against PostgreSQL at READ    *)
(* COMMITTED. VideoPipeline has each of them as one step; here their       *)
(* statements interleave, wait for each other's locks and break the        *)
(* constraints of app.files and app.video_assets. PostgreSQL is modelled   *)
(* from the way src/ uses it.                                              *)
(***************************************************************************)
EXTENDS Naturals, FiniteSets

CONSTANTS
  Completes,   \* CompleteUpload requests
  Deletes,     \* Delete requests
  Ticks,       \* ticks of the watchdogs of all instances of the API
  Finishes,    \* deliveries of ProcessingCompleted
  NoTx

Txs == Completes \cup Deletes \cup Ticks \cup Finishes

ASSUME TxAssumption ==
  /\ NoTx \notin Txs
  /\ IsFiniteSet(Txs)
  /\ Completes \cap Deletes = {}
  /\ Ticks \cap (Completes \cup Deletes) = {}
  /\ Finishes \cap (Completes \cup Deletes \cup Ticks) = {}

VARIABLES
  row,       \* committed status of the video, "gone" once deleted
  files,     \* committed rows of app.files
  assets,    \* committed rows of app.video_assets; an asset is its file's row
  outbox,    \* committed rows OriginalUploaded, by the transaction that wrote them
  writer,    \* the transaction that holds the lock of an UPDATE or DELETE of the video
  newRow,    \* the status that transaction has written
  keyShare,  \* the transactions with FOR KEY SHARE on the video: inserts that refer to it
  pc,        \* the next statement of each transaction
  seen,      \* the assets a transaction selected, to delete their files
  added,     \* files and assets inserted by a transaction and not committed
  removed,   \* files a transaction has deleted, not committed
  published, \* the transactions that have inserted a row in the outbox
  reply      \* what each transaction was answered

vars == <<row, files, assets, outbox, writer, newRow, keyShare, pc, seen, added,
          removed, published, reply>>
tables == <<row, files, assets, outbox>>
locks == <<writer, newRow, keyShare>>
local == <<seen, added, removed, published>>

Kinds == {"original", "hls"}
\* A row of app.files: the object it is about and the transaction that wrote it.
Rows == Kinds \X Txs
Statuses == {"uploading", "queued", "ready", "failed", "gone"}
Steps == {"begin", "file", "asset", "status", "publish", "select", "files", "video",
          "replace", "results", "processing", "commit", "race", "aborted", "done"}
Replies == {"none", "accepted", "current", "failed", "missing", "error", "lost"}

\* The upload has landed in S3; the row has been committed by CreateUpload.
Init ==
  /\ row = "uploading"
  /\ files = {}
  /\ assets = {}
  /\ outbox = {}
  /\ writer = NoTx
  /\ newRow = "uploading"
  /\ keyShare = {}
  /\ pc = [t \in Txs |-> "begin"]
  /\ seen = [t \in Txs |-> {}]
  /\ added = [t \in Txs |-> {}]
  /\ removed = [t \in Txs |-> {}]
  /\ published = {}
  /\ reply = [t \in Txs |-> "none"]

-----------------------------------------------------------------------------
(* PostgreSQL *)

\* An UPDATE or a DELETE of the video waits for the transaction that wrote it;
\* a DELETE waits for the inserts that refer to it as well.
CanUpdate(t) == writer \in {NoTx, t}
CanDelete(t) == CanUpdate(t) /\ keyShare \subseteq {t}

\* An insert with a foreign key waits for a DELETE of the video, not for an UPDATE.
CanRefer(t) == writer \in {NoTx, t} \/ newRow # "gone"

\* The status a statement of t sees.
RowSeen(t) == IF writer = t THEN newRow ELSE row

\* The unique (bucket, object_key) of app.files: an insert waits for the
\* transactions that have inserted or deleted the key.
KeyIsContended(t, k) ==
  \E u \in Txs \ {t}, r \in Rows : r[1] = k /\ r \in added[u] \cup removed[u]

KeyIsTaken(t, k) ==
  \E r \in files \ removed[t] : r[1] = k

Goto(t, s) == pc' = [pc EXCEPT ![t] = s]
Answer(t, a) == reply' = [reply EXCEPT ![t] = a]

\* INSERT of app.files. A broken constraint aborts the transaction.
InsertFile(t, k, next, broken) ==
  /\ ~KeyIsContended(t, k)
  /\ IF KeyIsTaken(t, k)
       THEN Goto(t, broken) /\ UNCHANGED added
       ELSE /\ added' = [added EXCEPT ![t] = @ \cup {<<k, t>>}]
            /\ Goto(t, next)

WriteRow(t, s) ==
  /\ writer' = t
  /\ newRow' = s

-----------------------------------------------------------------------------
(* saga.Run *)

Release(t) ==
  /\ writer' = IF writer = t THEN NoTx ELSE writer
  /\ newRow' = IF writer = t THEN row' ELSE newRow
  /\ keyShare' = keyShare \ {t}
  /\ added' = [added EXCEPT ![t] = {}]
  /\ removed' = [removed EXCEPT ![t] = {}]
  /\ seen' = [seen EXCEPT ![t] = {}]
  /\ published' = published \ {t}

\* The foreign keys cascade: an asset goes with its file and with its video.
Commit(t) ==
  /\ pc[t] = "commit"
  /\ row' = RowSeen(t)
  /\ files' = (files \cup added[t]) \ removed[t]
  /\ assets' = IF row' = "gone" THEN {} ELSE (assets \cup added[t]) \ removed[t]
  /\ outbox' = outbox \cup (published \cap {t})
  /\ Release(t)
  /\ Goto(t, "done")
  /\ UNCHANGED reply

Rollback(t, a) ==
  /\ UNCHANGED tables
  /\ Release(t)
  /\ Goto(t, "done")
  /\ Answer(t, a)

\* The handler has returned the error of a statement.
Fail(t) == pc[t] = "aborted" /\ Rollback(t, "error")

\* The process dies, or its connection does, at any statement.
Crash(t) == pc[t] \notin {"begin", "done"} /\ Rollback(t, "lost")

\* A handler that ends without having written anything.
EndWith(t, a) ==
  /\ Goto(t, "done")
  /\ Answer(t, a)
  /\ UNCHANGED <<tables, locks, local>>

-----------------------------------------------------------------------------
(* CompleteUpload *)

\* A slip, meant to keep the video from being deleted: it is locked first.
CompleteBeginLocksVideo(t) ==
  /\ pc[t] = "begin"
  /\ CanRefer(t)
  /\ row = "uploading"
  /\ keyShare' = keyShare \cup {t}
  /\ Goto(t, "file")
  /\ UNCHANGED <<reply, tables, writer, newRow, local>>

CompleteBegin(t) ==
  /\ pc[t] = "begin"
  /\ \/ row = "uploading" /\ Goto(t, "file") /\ UNCHANGED <<reply, tables, locks, local>>
     \/ row \in {"queued", "ready"} /\ EndWith(t, "current")
     \/ row = "failed" /\ EndWith(t, "failed")
     \/ row = "gone" /\ EndWith(t, "missing")

\* A slip: the file is inserted outside of the transaction.
CompleteFileOutsideTx(t) ==
  /\ pc[t] = "file"
  /\ InsertFile(t, "original", "asset", "race")
  /\ files' = files \cup added'[t]
  /\ UNCHANGED <<row, assets, outbox, locks, seen, removed, published, reply>>

CompleteFile(t) ==
  /\ pc[t] = "file"
  /\ InsertFile(t, "original", "asset", "race")
  /\ UNCHANGED <<tables, locks, seen, removed, published, reply>>

\* The unique violation is caught as a lost race and the video selected again, in
\* the transaction that the violation has aborted: the SELECT fails too.
CompleteRace(t) == pc[t] = "race" /\ Rollback(t, "error")

\* The unique (video_id, kind, profile) cannot break where (bucket, key) did not;
\* the foreign key does if the video is gone, and that is no lost race.
CompleteAsset(t) ==
  /\ pc[t] = "asset"
  /\ CanRefer(t)
  /\ IF row = "gone"
       THEN Goto(t, "aborted") /\ UNCHANGED keyShare
       ELSE keyShare' = keyShare \cup {t} /\ Goto(t, "status")
  /\ UNCHANGED <<tables, writer, newRow, local, reply>>

\* A slip: the UPDATE does not look at the status.
CompleteStatusOfAny(t) ==
  /\ pc[t] = "status"
  /\ CanUpdate(t)
  /\ WriteRow(t, "queued")
  /\ Goto(t, "publish")
  /\ UNCHANGED <<tables, keyShare, local, reply>>

CompleteStatus(t) ==
  /\ pc[t] = "status"
  /\ CanUpdate(t)
  /\ IF row = "uploading"
       THEN WriteRow(t, "queued") /\ Goto(t, "publish") /\ UNCHANGED reply
       ELSE Goto(t, "commit") /\ Answer(t, "current") /\ UNCHANGED <<writer, newRow>>
  /\ UNCHANGED <<tables, keyShare, local>>

\* A slip: the task is published outside of the transaction.
CompletePublishOutsideTx(t) ==
  /\ pc[t] = "publish"
  /\ outbox' = outbox \cup {t}
  /\ Goto(t, "commit")
  /\ Answer(t, "accepted")
  /\ UNCHANGED <<row, files, assets, locks, local>>

CompletePublish(t) ==
  /\ pc[t] = "publish"
  /\ published' = published \cup {t}
  /\ Goto(t, "commit")
  /\ Answer(t, "accepted")
  /\ UNCHANGED <<tables, locks, seen, added, removed>>

-----------------------------------------------------------------------------
(* Delete *)

DeleteBegin(t) ==
  /\ pc[t] = "begin"
  /\ \/ row # "gone" /\ Goto(t, "select") /\ UNCHANGED <<reply, tables, locks, local>>
     \/ row = "gone" /\ EndWith(t, "missing")

DeleteSelect(t) ==
  /\ pc[t] = "select"
  /\ seen' = [seen EXCEPT ![t] = assets]
  /\ Goto(t, "files")
  /\ UNCHANGED <<tables, locks, added, removed, published, reply>>

\* Two deletions of one file: the second waits, and deletes what is left.
DeleteFiles(t) ==
  /\ pc[t] = "files"
  /\ \A u \in Txs \ {t} : removed[u] \cap seen[t] = {}
  /\ removed' = [removed EXCEPT ![t] = seen[t] \cap files]
  /\ Goto(t, "video")
  /\ UNCHANGED <<tables, locks, seen, added, published, reply>>

DeleteVideo(t) ==
  /\ pc[t] = "video"
  /\ CanDelete(t)
  /\ IF row = "gone" THEN UNCHANGED <<writer, newRow>> ELSE WriteRow(t, "gone")
  /\ Goto(t, "commit")
  /\ Answer(t, "accepted")
  /\ UNCHANGED <<tables, keyShare, local>>

-----------------------------------------------------------------------------
(* The watchdog, whose tick looks at every status in one transaction; "queued"
   stands for both processing statuses, which take the row at most once *)

\* The UPDATE fails a video that has had this status for too long, which is left
\* open. It waits only for rows that have the status.
UpdateTimedOut(t, status) ==
  /\ row = status => CanUpdate(t)
  /\ \/ RowSeen(t) = status /\ WriteRow(t, "failed")
     \/ UNCHANGED <<writer, newRow>>

TickUploading(t) ==
  /\ pc[t] = "begin"
  /\ UpdateTimedOut(t, "uploading")
  /\ Goto(t, "processing")
  /\ UNCHANGED <<tables, keyShare, local, reply>>

\* A slip: the tick goes on to its cleanup with its transaction open.
TickProcessingStaysOpen(t) ==
  /\ pc[t] = "processing"
  /\ UpdateTimedOut(t, "queued")
  /\ Goto(t, "done")
  /\ UNCHANGED <<tables, keyShare, local, reply>>

TickProcessing(t) ==
  /\ pc[t] = "processing"
  /\ UpdateTimedOut(t, "queued")
  /\ Goto(t, "commit")
  /\ UNCHANGED <<tables, keyShare, local, reply>>

-----------------------------------------------------------------------------
(* ApplyProcessingCompleted; "queued" stands for both processing statuses *)

FinishStatus(t) ==
  /\ pc[t] = "begin"
  /\ outbox # {}
  /\ CanUpdate(t)
  /\ IF row = "queued"
       THEN WriteRow(t, "ready") /\ Goto(t, "replace") /\ UNCHANGED <<reply, tables, keyShare, local>>
       ELSE EndWith(t, "current")

\* The results registered before are selected and their files deleted.
FinishReplace(t) ==
  /\ pc[t] = "replace"
  /\ LET old == {r \in assets : r[1] = "hls"}
     IN /\ \A u \in Txs \ {t} : removed[u] \cap old = {}
        /\ removed' = [removed EXCEPT ![t] = old \cap files]
  /\ Goto(t, "results")
  /\ UNCHANGED <<tables, locks, seen, added, published, reply>>

FinishResults(t) ==
  /\ pc[t] = "results"
  /\ InsertFile(t, "hls", "commit", "aborted")
  /\ Answer(t, "accepted")
  /\ UNCHANGED <<tables, locks, seen, removed, published>>

-----------------------------------------------------------------------------
Complete(t) ==
  \/ CompleteBegin(t) \/ CompleteFile(t) \/ CompleteRace(t)
  \/ CompleteAsset(t) \/ CompleteStatus(t) \/ CompletePublish(t)
DeleteTx(t) == DeleteBegin(t) \/ DeleteSelect(t) \/ DeleteFiles(t) \/ DeleteVideo(t)
Tick(t) == TickUploading(t) \/ TickProcessing(t)
Finish(t) == FinishStatus(t) \/ FinishReplace(t) \/ FinishResults(t)

Statement(t) ==
  \/ t \in Completes /\ Complete(t)
  \/ t \in Deletes /\ DeleteTx(t)
  \/ t \in Ticks /\ Tick(t)
  \/ t \in Finishes /\ Finish(t)
  \/ Commit(t)
  \/ Fail(t)

Next == \E t \in Txs : Statement(t) \/ Crash(t)

Spec == Init /\ [][Next]_vars

\* A statement that can run is run: PostgreSQL keeps no request waiting for a lock
\* that is free. A lock that is never released is waited for, as without the
\* server's deadlock detection.
Fairness == \A t \in Txs : WF_vars(pc[t] # "begin" /\ Statement(t))

FairSpec == Spec /\ Fairness

-----------------------------------------------------------------------------
(* What must hold *)

\* The tables and the transactions keep their shape, and a transaction that has
\* not begun or has ended holds no lock and no uncommitted row.
TypeOK ==
  /\ row \in Statuses /\ newRow \in Statuses
  /\ files \subseteq Rows /\ assets \subseteq files
  /\ outbox \subseteq Completes /\ published \subseteq Completes
  /\ writer \in Txs \cup {NoTx}
  /\ keyShare \subseteq Completes
  /\ pc \in [Txs -> Steps]
  /\ seen \in [Txs -> SUBSET Rows]
  /\ added \in [Txs -> SUBSET Rows]
  /\ removed \in [Txs -> SUBSET Rows]
  /\ reply \in [Txs -> Replies]
  /\ \A t \in Txs : pc[t] \in {"begin", "done"} =>
       /\ writer # t /\ t \notin keyShare
       /\ added[t] = {} /\ removed[t] = {}

\* The upload is accepted once and as a whole: the one request that is answered so
\* has left its task and its original, which a queued video and a published one
\* have, and the task of a video says who registered it, whatever becomes of it.
AcceptedAsAWhole ==
  /\ row \in {"queued", "ready"} => outbox # {}
  /\ outbox # {} =>
       /\ row # "uploading"
       /\ \E c \in Completes :
            /\ outbox = {c}
            /\ row # "gone" => {r \in assets : r[1] = "original"} = {<<"original", c>>}
  /\ \A c \in Completes : c \in outbox <=> pc[c] = "done" /\ reply[c] = "accepted"

\* While there is a video every file row belongs to one of its assets, and a ready
\* one has its results: no interleaving of registrations and deletions that fail
\* or commit leaves half of one.
LiveVideoIsWhole ==
  /\ row # "gone" => files = assets
  /\ row = "ready" => Cardinality({r \in assets : r[1] = "hls"}) = 1

\* No two transactions wait for each other: each that has begun ends, whatever
\* locks it meets.
EveryTxEnds ==
  \A t \in Txs : pc[t] # "begin" ~> pc[t] = "done"

\* However their statements interleave, the transactions are seen as steps that
\* happen at once: what is committed and what each request is answered follow
\* AtomicUpload, and a request that fails or is lost has written nothing.
Atomic ==
  INSTANCE AtomicUpload
    WITH reply <- [t \in Txs |-> IF pc[t] = "done" THEN reply[t] ELSE "none"]
ImplementsAtomic == Atomic!Spec

-----------------------------------------------------------------------------
(* What the comments promise, and requests that overlap break *)

\* completeUploadingVideo: the loser of two CompleteUploads is answered "the
\* current state instead of 500". An error is left to a video that is gone.
LostRaceIsAnswered == \A c \in Completes : reply[c] = "error" => row = "gone"

\* VideoRepository.Delete: "an orphan in S3 is allowed, an orphan in the database is not".
NoOrphanFiles == row = "gone" => files = {}
=============================================================================
