------------------------------- MODULE Chapters -------------------------------
(***************************************************************************)
(* The chapters of one video (internal/service/chapter.go and              *)
(* internal/repository/chapter.go). A row keeps where its chapter starts;  *)
(* where it ends, what of it a user has watched and whether he is done     *)
(* with it are computed by every read.                                     *)
(*                                                                         *)
(* A request is a transaction at READ COMMITTED: it begins with its checks *)
(* and commits its one write later, when others may have committed theirs. *)
(* Positions are milliseconds of the video.                                *)
(***************************************************************************)
EXTENDS Integers, FiniteSets, FiniteSetsExt

CONSTANTS
  Ids,                          \* of the rows that may ever be inserted
  Clients,                      \* requests in flight at once
  Duration,                     \* the length of the video, once known
  Limit,                        \* chapterLimitPerVideo
  ThresholdPct                  \* config video.watch_completion_threshold, rounded
                                \* to a whole percent

ASSUME SizeAssumption == Duration \in Nat /\ Limit \in Nat \ {0}
ASSUME ClientsAssumption == IsFiniteSet(Clients) /\ IsFiniteSet(Ids)
ASSUME ThresholdAssumption == ThresholdPct \in 0..100

VARIABLES
  video,       \* its status; its length is known when it is "ready"
  chapters,    \* the rows of app.video_chapters
  start,       \* start_ms of each of them
  retired,     \* the ids of the rows deleted: an id is never made twice
  request      \* what each request in flight has checked

vars == <<video, chapters, start, retired, request>>

Milliseconds == 0..(Duration - 1)
Same == -1     \* a patch without start_ms
Idle == [op |-> "none", chapter |-> "none", start |-> Same]

Init ==
  /\ video = "processing"
  /\ chapters = {} /\ retired = {}
  /\ start = [k \in Ids |-> 0]
  /\ request = [c \in Clients |-> Idle]

-----------------------------------------------------------------------------
(* What a read computes *)

\* A slip: the last chapter, and it alone, is given its end.
EndAtDuration(k) == Duration

\* chapter_bounds: the start of the next chapter, or the end of the video.
EndOf(k) == Min({start[j] : j \in {i \in chapters : start[i] > start[k]}} \cup {Duration})

Span(k) == start[k]..(EndOf(k) - 1)
LengthMs(k) == IF EndOf(k) > start[k] THEN EndOf(k) - start[k] ELSE 0

\* A slip: the range of a chapter is closed at its end.
CoveredMsClosed(k, W) == Cardinality(W \cap (start[k]..EndOf(k)))

\* covered_ms of a user who has watched the milliseconds of W.
CoveredMs(k, W) == Cardinality(W \cap Span(k))

CoveragePct(k, W) ==
  IF LengthMs(k) = 0 THEN 100 ELSE (100 * CoveredMs(k, W)) \div LengthMs(k)

\* ChapterProgress.Status = "done"
IsDone(k, W) == CoveredMs(k, W) > 0 /\ CoveragePct(k, W) >= ThresholdPct

\* coveragePercent of the video as a whole, next to which the same threshold is kept.
VideoPct(W) == IF Duration = 0 THEN 0 ELSE (100 * Cardinality(W)) \div Duration

-----------------------------------------------------------------------------
(* Requests *)

Begin(c, op, k, s) ==
  /\ request[c] = Idle
  /\ request' = [request EXCEPT ![c] = [op |-> op, chapter |-> k, start |-> s]]
  /\ UNCHANGED <<video, chapters, start, retired>>

Ended(c) == request' = [request EXCEPT ![c] = Idle]

Within(s) == 0 <= s /\ s < Duration

\* A slip: a hundred and first chapter.
RoomForOneMore == Cardinality(chapters) <= Limit

BelowLimit == Cardinality(chapters) < Limit

\* A slip: without the unique key.
FreeForAny(k, s) == TRUE

\* UNIQUE (video_id, start_ms)
Free(k, s) == \A j \in chapters \ {k} : start[j] # s

BeginCreate(c, s) ==
  /\ video = "ready"
  /\ Within(s)
  /\ BelowLimit
  /\ Begin(c, "create", "none", s)

\* The insert: the foreign key needs the video, the unique key another start.
CommitCreate(c, k) ==
  /\ request[c].op = "create"
  /\ video # "deleted"
  /\ k \notin chapters \cup retired
  /\ Free(k, request[c].start)
  /\ chapters' = chapters \cup {k}
  /\ start' = [start EXCEPT ![k] = request[c].start]
  /\ Ended(c)
  /\ UNCHANGED <<video, retired>>

BeginUpdate(c, k, s) ==
  /\ k \in chapters
  /\ s # Same => video = "ready" /\ Within(s)
  /\ Begin(c, "update", k, s)

CommitUpdate(c) ==
  LET k == request[c].chapter
      s == request[c].start IN
  /\ request[c].op = "update"
  /\ k \in chapters
  /\ s # Same => Free(k, s)
  /\ start' = [start EXCEPT ![k] = IF s = Same THEN @ ELSE s]
  /\ Ended(c)
  /\ UNCHANGED <<video, chapters, retired>>

BeginDelete(c, k) ==
  /\ k \in chapters
  /\ Begin(c, "delete", k, Same)

\* A row that is gone is deleted without an error.
CommitDelete(c) ==
  LET k == request[c].chapter IN
  /\ request[c].op = "delete"
  /\ chapters' = chapters \ {k}
  /\ retired' = retired \cup {k}
  /\ start' = [start EXCEPT ![k] = 0]
  /\ Ended(c)
  /\ UNCHANGED video

\* An error, a refusal by a key, a lost connection.
Abort(c) ==
  /\ request[c] # Idle
  /\ Ended(c)
  /\ UNCHANGED <<video, chapters, start, retired>>

\* The result of the processing is applied: the length is known.
VideoReady ==
  /\ video = "processing"
  /\ video' = "ready"
  /\ UNCHANGED <<chapters, start, retired, request>>

\* ON DELETE CASCADE
DeleteVideo ==
  /\ video # "deleted"
  /\ video' = "deleted"
  /\ chapters' = {}
  /\ retired' = retired \cup chapters
  /\ start' = [k \in Ids |-> 0]
  /\ UNCHANGED request

Next ==
  \/ \E c \in Clients :
       \/ \E s \in 0..Duration : BeginCreate(c, s)
       \/ \E k \in Ids : CommitCreate(c, k)
       \/ \E k \in Ids, s \in {Same} \cup 0..Duration : BeginUpdate(c, k, s)
       \/ \E k \in Ids : BeginDelete(c, k)
       \/ CommitUpdate(c) \/ CommitDelete(c) \/ Abort(c)
  \/ VideoReady \/ DeleteVideo

Spec == Init /\ [][Next]_vars

-----------------------------------------------------------------------------
(* What must hold *)

Request == [op : {"none", "create", "update", "delete"}, chapter : Ids \cup {"none"},
            start : {Same} \cup Milliseconds]

\* Every variable has its type, and a chapter lies within its video: a start
\* outside of it is refused before the write, however late the write comes.
TypeOK ==
  /\ video \in {"processing", "ready", "deleted"}
  /\ chapters \in SUBSET Ids /\ retired \in SUBSET Ids /\ chapters \cap retired = {}
  /\ start \in [Ids -> Nat]
  /\ \A k \in chapters : start[k] \in Milliseconds
  /\ request \in [Clients -> Request]
  /\ \A c \in Clients : request[c].op = "create" => request[c].start # Same

\* The chapters share out the video: from the first of them to its end every
\* millisecond is of exactly one chapter, and each chapter has some, whatever
\* edits and deletions of its neighbours were committed in between.
BoundsPartition ==
  /\ \A k \in chapters : Span(k) # {}
  /\ \A m \in Milliseconds :
       (\E k \in chapters : start[k] <= m)
         => \E k \in chapters : {j \in chapters : m \in Span(j)} = {k}

\* The count is taken before the insert, without a lock: the limit can be
\* passed, but only by the requests that counted together.
LimitUpToOverlap == Cardinality(chapters) <= Limit - 1 + Cardinality(Clients)

\* The report of the chapters and the percent of the video agree: where the
\* chapters cover the whole video, the percent of a user who is done with every
\* one of them is no lower than the threshold that they were held to.
AllDoneShowsInPercent ==
  \A W \in SUBSET Milliseconds :
    (\E k \in chapters : start[k] = 0) /\ (\A k \in chapters : IsDone(k, W))
      => VideoPct(W) >= ThresholdPct

\* chapterLimitPerVideo: "the largest number of chapters of a video". Requests
\* that have counted together pass it.
LimitHolds == Cardinality(chapters) <= Limit
=============================================================================
