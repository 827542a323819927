--------------------------- MODULE VideoLifecycle ---------------------------
(***************************************************************************)
(* What the video service promises about the status of a video, whatever   *)
(* happens in Kafka, in the object store and in the worker: the diagram of *)
(* statuses the service's conditional UPDATEs are meant to keep to.        *)
(* VideoPipeline is shown to implement this module.                        *)
(***************************************************************************)
EXTENDS Naturals

CONSTANTS
  Videos,                  \* identifiers of the videos
  MaxProcessingAttempts    \* config video.max_processing_attempts

VARIABLES
  status,    \* status of each video; "none" before its row, "deleted" after it
  attempt    \* processing_attempt of each video

vars == <<status, attempt>>

Statuses == {"none", "uploading", "queued", "compressing", "ready", "failed", "deleted"}

\* Statuses a worker's event may move a video out of.
Processing == {"queued", "compressing"}

\* Statuses a video must not stay in for ever.
Unsettled == Processing \cup {"uploading"}

Init ==
  /\ status = [v \in Videos |-> "none"]
  /\ attempt = [v \in Videos |-> 0]

Become(v, s, a) ==
  /\ status' = [status EXCEPT ![v] = s]
  /\ attempt' = [attempt EXCEPT ![v] = a]

Create(v) ==
  /\ status[v] = "none"
  /\ Become(v, "uploading", 0)

Enqueue(v) ==
  /\ status[v] = "uploading"
  /\ Become(v, "queued", 1)

Start(v) ==
  /\ status[v] = "queued"
  /\ Become(v, "compressing", attempt[v])

\* A retry spends one attempt and there is always one left to spend.
Retry(v) ==
  /\ status[v] \in Processing
  /\ attempt[v] < MaxProcessingAttempts
  /\ Become(v, "queued", attempt[v] + 1)

Publish(v) ==
  /\ status[v] \in Processing
  /\ Become(v, "ready", attempt[v])

\* Several videos may be given up in one step: a tick of the watchdog.
GiveUp(S) ==
  /\ \A v \in S : status[v] \in Unsettled
  /\ status' = [v \in Videos |-> IF v \in S THEN "failed" ELSE status[v]]
  /\ UNCHANGED attempt

Delete(v) ==
  /\ status[v] \notin {"none", "deleted"}
  /\ Become(v, "deleted", attempt[v])

Next ==
  \/ \E v \in Videos :
       Create(v) \/ Enqueue(v) \/ Start(v) \/ Retry(v) \/ Publish(v) \/ Delete(v)
  \/ \E S \in SUBSET Videos : GiveUp(S)

Spec == Init /\ [][Next]_vars
=============================================================================
