----------------------------- MODULE AtomicUpload -----------------------------
(***************************************************************************)
(* What CompleteUpload, Delete, the watchdog and the results of a worker   *)
(* promise about one video: each of them happens at once, in some order,   *)
(* and is answered by what it found then. UploadTransactions, with its     *)
(* statements, locks and constraints, is shown to implement this module,   *)
(* which is how VideoPipeline takes them.                                  *)
(***************************************************************************)
CONSTANTS Completes, Deletes, Ticks, Finishes

VARIABLES
  row,       \* status of the video, "gone" once deleted
  assets,    \* what is registered for it, with the request that did
  outbox,    \* the requests that have left a task for the workers
  reply      \* what each request was answered

vars == <<row, assets, outbox, reply>>

Txs == Completes \cup Deletes \cup Ticks \cup Finishes

Init ==
  /\ row = "uploading"
  /\ assets = {}
  /\ outbox = {}
  /\ reply = [t \in Txs |-> "none"]

\* A request is answered once.
Answer(t, a) ==
  /\ reply[t] = "none"
  /\ reply' = [reply EXCEPT ![t] = a]

\* CompleteUpload: the original and its task come with the status.
Accept(c) ==
  /\ row = "uploading"
  /\ row' = "queued"
  /\ assets' = {<<"original", c>>}
  /\ outbox' = {c}
  /\ Answer(c, "accepted")

\* It comes too late, for a video given up meanwhile: the original is registered.
Register(c) ==
  /\ row = "failed"
  /\ assets = {}
  /\ assets' = {<<"original", c>>}
  /\ Answer(c, "current")
  /\ UNCHANGED <<row, outbox>>

\* The watchdog: the video has been uploading or processed for too long. Its task
\* stays, for a worker whose results will come too late.
GiveUp ==
  /\ row \in {"uploading", "queued"}
  /\ row' = "failed"
  /\ UNCHANGED <<assets, outbox, reply>>

\* ApplyProcessingCompleted: the results come with the status.
Publish(f) ==
  /\ row = "queued"
  /\ row' = "ready"
  /\ assets' = assets \cup {<<"hls", f>>}
  /\ Answer(f, "accepted")
  /\ UNCHANGED outbox

\* A video can be deleted twice, by requests that overlap.
Delete(d) ==
  /\ row' = "gone"
  /\ assets' = {}
  /\ Answer(d, "accepted")
  /\ UNCHANGED outbox

\* Nothing to do, for the status the request has found.
Settled(t) ==
  \/ t \in Completes /\ row \in {"queued", "ready"}
  \/ t \in Finishes /\ row # "queued"

\* Refused, failed or lost, a request leaves nothing behind.
Refuse(t, a) ==
  /\ \/ a \in {"error", "lost"}
     \/ a = "missing" /\ row = "gone"
     \/ a = "failed" /\ row = "failed"
     \/ a = "current" /\ Settled(t)
  /\ Answer(t, a)
  /\ UNCHANGED <<row, assets, outbox>>

Next ==
  \/ \E c \in Completes : Accept(c) \/ Register(c)
  \/ GiveUp
  \/ \E f \in Finishes : Publish(f)
  \/ \E d \in Deletes : Delete(d)
  \/ \E t \in Txs, a \in {"error", "lost", "missing", "failed", "current"} : Refuse(t, a)

Spec == Init /\ [][Next]_vars
=============================================================================
