----------------------- MODULE UploadTransactionsProofs -----------------------
(***************************************************************************)
(* Proofs about UploadTransactions, for any number of requests, ticks and  *)
(* deliveries: an upload is accepted once and whole, and a video that is   *)
(* there has all of its assets, whatever the interleaving of statements.   *)
(***************************************************************************)
EXTENDS UploadTransactions, FiniteSetTheorems, TLAPS

-----------------------------------------------------------------------------
(* The inductive invariant *)

\* A row that was committed, or that someone could select, has an ended writer.
WrittenByEnded ==
  /\ \A r \in files : pc[r[2]] = "done"
  /\ \A t \in Txs : \A r \in removed[t] : pc[r[2]] = "done"

\* The unique index: one committed row of each key, and a row that is inserted and
\* not committed has its key to itself but for rows its own transaction deletes.
KeysAreUnique ==
  \A r, s \in files : r[1] = s[1] => r = s

PendingHaveTheKey ==
  \A t \in Txs : \A r \in added[t] :
    /\ r[2] = t
    /\ \A s \in files : s[1] = r[1] => s \in removed[t]
    /\ \A u \in Txs \ {t} : \A s \in added[u] \cup removed[u] : s[1] # r[1]

\* Where each kind of transaction can be, and what it has done by then.
CompletesAt ==
  \A c \in Completes :
    /\ pc[c] \in {"begin", "file", "asset", "status", "publish", "commit", "race",
                  "aborted", "done"}
    /\ removed[c] = {}
    /\ added[c] = IF pc[c] \in {"asset", "status", "publish", "commit", "aborted"}
                    THEN {<<"original", c>>} ELSE {}
    /\ pc[c] = "publish" => writer = c
    /\ c \in published => pc[c] = "commit" /\ writer = c

DeletesAt ==
  \A d \in Deletes :
    /\ pc[d] \in {"begin", "select", "files", "video", "commit", "done"}
    /\ added[d] = {}
    /\ pc[d] = "commit" => writer = d \/ row = "gone"

TicksAt ==
  \A w \in Ticks :
    /\ pc[w] \in {"begin", "processing", "commit", "done"}
    /\ added[w] = {} /\ removed[w] = {}

FinishesAt ==
  \A f \in Finishes :
    /\ pc[f] \in {"begin", "replace", "results", "commit", "aborted", "done"}
    /\ pc[f] \notin {"begin", "done"} => writer = f
    /\ \A r \in removed[f] : r[1] = "hls"
    /\ added[f] = IF pc[f] = "commit" THEN {<<"hls", f>>} ELSE {}

\* The transaction that holds the row's lock has seen the row as it still is, and
\* has written the one status that its kind writes there.
WriterKnowsTheRow ==
  \/ writer = NoTx
  \/ /\ writer \in Completes /\ row = "uploading" /\ newRow = "queued"
     /\ pc[writer] = "publish" \/ (pc[writer] = "commit" /\ writer \in published)
  \/ writer \in Deletes /\ row # "gone" /\ newRow = "gone" /\ pc[writer] = "commit"
  \/ /\ writer \in Ticks /\ row \in {"uploading", "queued"} /\ newRow = "failed"
     /\ pc[writer] \in {"processing", "commit"}
  \/ writer \in Finishes /\ row = "queued" /\ newRow = "ready"

AssetsOf(k) == {r \in assets : r[1] = k}

OneTask ==
  outbox # {} =>
    \E c \in Completes :
      /\ outbox = {c}
      /\ row # "gone" => AssetsOf("original") = {<<"original", c>>}

TaskWithStatus ==
  /\ row \in {"queued", "ready"} => outbox # {}
  /\ outbox # {} => row # "uploading"

FilesAreAssets == row # "gone" => files = assets

OneResult == row = "ready" => \E r \in Rows : AssetsOf("hls") = {r}

IInv ==
  /\ TypeOK
  /\ WrittenByEnded
  /\ KeysAreUnique
  /\ PendingHaveTheKey
  /\ CompletesAt
  /\ DeletesAt
  /\ TicksAt
  /\ FinishesAt
  /\ WriterKnowsTheRow
  /\ OneTask
  /\ TaskWithStatus
  /\ FilesAreAssets
  /\ OneResult

LEMMA InitIInv == Init => IInv
<1> SUFFICES ASSUME Init PROVE IInv
  OBVIOUS
<1>1. TypeOK
  BY TxAssumption DEF Init, TypeOK, Statuses, Steps, Replies
<1> QED
  BY <1>1 DEF Init, IInv, WrittenByEnded, KeysAreUnique, PendingHaveTheKey, CompletesAt,
     DeletesAt, TicksAt, FinishesAt, WriterKnowsTheRow, OneTask, TaskWithStatus,
     FilesAreAssets, OneResult, Txs

-----------------------------------------------------------------------------
(* The ends of a transaction *)

LEMMA Apart ==
  ASSUME NEW t \in Txs
  PROVE  /\ t # NoTx
         /\ t \in Completes => t \notin Deletes \cup Ticks \cup Finishes
         /\ t \in Deletes => t \notin Completes \cup Ticks \cup Finishes
         /\ t \in Ticks => t \notin Completes \cup Deletes \cup Finishes
         /\ t \in Finishes => t \notin Completes \cup Deletes \cup Ticks
BY TxAssumption DEF Txs

\* A handler that wrote nothing has only answered.
LEMMA EndWithStep ==
  ASSUME IInv, NEW t \in Txs, NEW a \in Replies, pc[t] = "begin", EndWith(t, a)
  PROVE  IInv'
<1>1. /\ UNCHANGED <<tables, locks, local>>
      /\ pc' = [pc EXCEPT ![t] = "done"]
      /\ reply' = [reply EXCEPT ![t] = a]
  BY DEF EndWith, Goto, Answer
<1>2. writer # t
  BY DEF IInv, TypeOK
<1>3. TypeOK'
  BY <1>1, <1>2 DEF IInv, TypeOK, tables, locks, local, Steps
<1>4. WrittenByEnded'
  BY <1>1, <1>2, Apart DEF IInv, TypeOK, WrittenByEnded, tables, locks, local, Txs
<1>5. KeysAreUnique'
  BY <1>1, <1>2, Apart DEF IInv, TypeOK, KeysAreUnique, tables, locks, local, Txs
<1>6. PendingHaveTheKey'
  BY <1>1, <1>2, Apart DEF IInv, TypeOK, PendingHaveTheKey, tables, locks, local, Txs
<1>7. CompletesAt'
  BY <1>1, <1>2, Apart DEF IInv, TypeOK, CompletesAt, tables, locks, local, Txs
<1>8. DeletesAt'
  BY <1>1, <1>2, Apart DEF IInv, TypeOK, DeletesAt, tables, locks, local, Txs
<1>9. TicksAt'
  BY <1>1, <1>2, Apart DEF IInv, TypeOK, TicksAt, tables, locks, local, Txs
<1>10. FinishesAt'
  BY <1>1, <1>2, Apart DEF IInv, TypeOK, FinishesAt, tables, locks, local, Txs
<1>11. WriterKnowsTheRow'
  BY <1>1, <1>2, Apart DEF IInv, TypeOK, WriterKnowsTheRow, tables, locks, local, Txs
<1>12. OneTask'
  BY <1>1, <1>2, Apart DEF IInv, TypeOK, OneTask, tables, locks, local, Txs, AssetsOf
<1>13. TaskWithStatus'
  BY <1>1, <1>2, Apart DEF IInv, TypeOK, TaskWithStatus, tables, locks, local, Txs
<1>14. FilesAreAssets'
  BY <1>1, <1>2, Apart DEF IInv, TypeOK, FilesAreAssets, tables, locks, local, Txs
<1>15. OneResult'
  BY <1>1, <1>2, Apart DEF IInv, TypeOK, OneResult, tables, locks, local, Txs, AssetsOf
<1> QED
  BY <1>3, <1>4, <1>5, <1>6, <1>7, <1>8, <1>9, <1>10, <1>11, <1>12, <1>13, <1>14, <1>15
     DEF IInv

\* A rollback gives back the locks and forgets what was not committed.
LEMMA RollbackStep ==
  ASSUME IInv, NEW t \in Txs, NEW a \in Replies, Rollback(t, a)
  PROVE  IInv'
<1>1. /\ UNCHANGED <<tables>>
      /\ writer' = IF writer = t THEN NoTx ELSE writer
      /\ newRow' = IF writer = t THEN row ELSE newRow
      /\ keyShare' = keyShare \ {t}
      /\ added' = [added EXCEPT ![t] = {}]
      /\ removed' = [removed EXCEPT ![t] = {}]
      /\ seen' = [seen EXCEPT ![t] = {}]
      /\ published' = published \ {t}
      /\ pc' = [pc EXCEPT ![t] = "done"]
      /\ reply' = [reply EXCEPT ![t] = a]
  BY DEF Rollback, Release, Goto, Answer, tables
<1>2. TypeOK'
  BY <1>1, Apart DEF IInv, TypeOK, tables, Steps
<1>3. WrittenByEnded'
  BY <1>1, Apart DEF IInv, TypeOK, WrittenByEnded, tables, Txs
<1>4. KeysAreUnique'
  BY <1>1, Apart DEF IInv, TypeOK, KeysAreUnique, tables, Txs
<1>5. PendingHaveTheKey'
  BY <1>1, Apart DEF IInv, TypeOK, PendingHaveTheKey, tables, Txs
<1>6. CompletesAt'
  BY <1>1, Apart DEF IInv, TypeOK, CompletesAt, tables, Txs
<1>7. DeletesAt'
  BY <1>1, Apart DEF IInv, TypeOK, DeletesAt, tables, Txs
<1>8. TicksAt'
  BY <1>1, Apart DEF IInv, TypeOK, TicksAt, tables, Txs
<1>9. FinishesAt'
  BY <1>1, Apart DEF IInv, TypeOK, FinishesAt, tables, Txs
<1>10. WriterKnowsTheRow'
  BY <1>1, Apart DEF IInv, TypeOK, WriterKnowsTheRow, tables, Txs
<1>11. OneTask'
  BY <1>1, Apart DEF IInv, TypeOK, OneTask, tables, Txs, AssetsOf
<1>12. TaskWithStatus'
  BY <1>1, Apart DEF IInv, TypeOK, TaskWithStatus, tables, Txs
<1>13. FilesAreAssets'
  BY <1>1, Apart DEF IInv, TypeOK, FilesAreAssets, tables, Txs
<1>14. OneResult'
  BY <1>1, Apart DEF IInv, TypeOK, OneResult, tables, Txs, AssetsOf
<1> QED
  BY <1>2, <1>3, <1>4, <1>5, <1>6, <1>7, <1>8, <1>9, <1>10, <1>11, <1>12, <1>13, <1>14
     DEF IInv

-----------------------------------------------------------------------------
(* CompleteUpload *)

\* The file has its key, or the transaction is aborted.
LEMMA CompleteFileStep ==
  ASSUME IInv, NEW t \in Completes, CompleteFile(t)
  PROVE  IInv'
<1>0. /\ UNCHANGED <<tables, locks, seen, removed, published>>
      /\ t \in Txs /\ pc[t] = "file"
      /\ \/ added' = added /\ pc' = [pc EXCEPT ![t] = "race"]
         \/ /\ added' = [added EXCEPT ![t] = {<<"original", t>>}]
            /\ pc' = [pc EXCEPT ![t] = "asset"]
  <2>1. added[t] = {}
    BY DEF CompleteFile, IInv, CompletesAt
  <2> QED
    BY <2>1 DEF CompleteFile, InsertFile, Goto, IInv, TypeOK, Txs
<1>1. TypeOK'
  BY Apart DEF CompleteFile, InsertFile, KeyIsContended, KeyIsTaken, Kinds, Rows, Goto,
     Answer, IInv, TypeOK, tables, locks, local, Txs, Statuses, Steps, Replies, Rows,
     Kinds
<1>2. WrittenByEnded'
  BY Apart DEF CompleteFile, InsertFile, KeyIsContended, KeyIsTaken, Kinds, Rows, Goto,
     Answer, IInv, TypeOK, WrittenByEnded, tables, locks, local, Txs
<1>3. KeysAreUnique'
  BY Apart DEF CompleteFile, InsertFile, KeyIsContended, KeyIsTaken, Kinds, Rows, Goto,
     Answer, IInv, TypeOK, KeysAreUnique, tables, locks, local, Txs
<1>4. PendingHaveTheKey'
  BY Apart DEF CompleteFile, InsertFile, KeyIsContended, KeyIsTaken, Kinds, Rows, Goto,
     Answer, IInv, TypeOK, PendingHaveTheKey, tables, locks, local, Txs
<1>5. CompletesAt'
  BY <1>0, Apart DEF IInv, TypeOK, CompletesAt, tables, locks, Txs
<1>6. DeletesAt'
  BY Apart DEF CompleteFile, InsertFile, KeyIsContended, KeyIsTaken, Kinds, Rows, Goto,
     Answer, IInv, TypeOK, DeletesAt, tables, locks, local, Txs
<1>7. TicksAt'
  BY Apart DEF CompleteFile, InsertFile, KeyIsContended, KeyIsTaken, Kinds, Rows, Goto,
     Answer, IInv, TypeOK, TicksAt, tables, locks, local, Txs
<1>8. FinishesAt'
  BY <1>0, Apart DEF IInv, TypeOK, FinishesAt, tables, locks, Txs
<1>9. WriterKnowsTheRow'
  BY Apart DEF CompleteFile, InsertFile, KeyIsContended, KeyIsTaken, Kinds, Rows, Goto,
     Answer, IInv, TypeOK, WriterKnowsTheRow, tables, locks, local, Txs
<1>10. OneTask'
  BY Apart DEF CompleteFile, InsertFile, KeyIsContended, KeyIsTaken, Kinds, Rows, Goto,
     Answer, IInv, TypeOK, OneTask, tables, locks, local, Txs, AssetsOf
<1>11. TaskWithStatus'
  BY Apart DEF CompleteFile, InsertFile, KeyIsContended, KeyIsTaken, Kinds, Rows, Goto,
     Answer, IInv, TypeOK, TaskWithStatus, tables, locks, local, Txs
<1>12. FilesAreAssets'
  BY Apart DEF CompleteFile, InsertFile, KeyIsContended, KeyIsTaken, Kinds, Rows, Goto,
     Answer, IInv, TypeOK, FilesAreAssets, tables, locks, local, Txs
<1>13. OneResult'
  BY Apart DEF CompleteFile, InsertFile, KeyIsContended, KeyIsTaken, Kinds, Rows, Goto,
     Answer, IInv, TypeOK, OneResult, tables, locks, local, Txs, AssetsOf
<1> QED
  BY <1>1, <1>2, <1>3, <1>4, <1>5, <1>6, <1>7, <1>8, <1>9, <1>10, <1>11, <1>12, <1>13
     DEF IInv

\* The asset keeps the video from being deleted.
LEMMA CompleteAssetStep ==
  ASSUME IInv, NEW t \in Completes, CompleteAsset(t)
  PROVE  IInv'
<1>1. TypeOK'
  BY Apart DEF CompleteAsset, CanRefer, Goto, Answer, IInv, TypeOK, tables, locks,
     local, Txs, Statuses, Steps, Replies, Rows, Kinds
<1>2. WrittenByEnded'
  BY Apart DEF CompleteAsset, CanRefer, Goto, Answer, IInv, TypeOK, WrittenByEnded,
     Rows, tables, locks, local, Txs
<1>3. KeysAreUnique'
  BY Apart DEF CompleteAsset, CanRefer, Goto, Answer, IInv, TypeOK, KeysAreUnique,
     tables, locks, local, Txs
<1>4. PendingHaveTheKey'
  BY Apart DEF CompleteAsset, CanRefer, Goto, Answer, IInv, TypeOK, PendingHaveTheKey,
     tables, locks, local, Txs
<1>5. CompletesAt'
  BY Apart DEF CompleteAsset, CanRefer, Goto, Answer, IInv, TypeOK, CompletesAt,
     tables, locks, local, Txs
<1>6. DeletesAt'
  BY Apart DEF CompleteAsset, CanRefer, Goto, Answer, IInv, TypeOK, DeletesAt, tables,
     locks, local, Txs
<1>7. TicksAt'
  BY Apart DEF CompleteAsset, CanRefer, Goto, Answer, IInv, TypeOK, TicksAt, tables,
     locks, local, Txs
<1>8. FinishesAt'
  BY Apart DEF CompleteAsset, CanRefer, Goto, Answer, IInv, TypeOK, FinishesAt, tables,
     locks, local, Txs
<1>9. WriterKnowsTheRow'
  BY Apart DEF CompleteAsset, CanRefer, Goto, Answer, IInv, TypeOK, WriterKnowsTheRow,
     tables, locks, local, Txs
<1>10. OneTask'
  BY Apart DEF CompleteAsset, CanRefer, Goto, Answer, IInv, TypeOK, OneTask, tables,
     locks, local, Txs, AssetsOf
<1>11. TaskWithStatus'
  BY Apart DEF CompleteAsset, CanRefer, Goto, Answer, IInv, TypeOK, TaskWithStatus,
     tables, locks, local, Txs
<1>12. FilesAreAssets'
  BY Apart DEF CompleteAsset, CanRefer, Goto, Answer, IInv, TypeOK, FilesAreAssets,
     tables, locks, local, Txs
<1>13. OneResult'
  BY Apart DEF CompleteAsset, CanRefer, Goto, Answer, IInv, TypeOK, OneResult, tables,
     locks, local, Txs, AssetsOf
<1> QED
  BY <1>1, <1>2, <1>3, <1>4, <1>5, <1>6, <1>7, <1>8, <1>9, <1>10, <1>11, <1>12, <1>13
     DEF IInv

\* The one UPDATE that decides who is accepted.
LEMMA CompleteStatusStep ==
  ASSUME IInv, NEW t \in Completes, CompleteStatus(t)
  PROVE  IInv'
<1>1. TypeOK'
  BY Apart DEF CompleteStatus, CanUpdate, WriteRow, Goto, Answer, IInv, TypeOK, tables,
     locks, local, Txs, Statuses, Steps, Replies, Rows, Kinds
<1>2. WrittenByEnded'
  BY Apart DEF CompleteStatus, CanUpdate, WriteRow, Goto, Answer, IInv, TypeOK,
     WrittenByEnded, Rows, tables, locks, local, Txs
<1>3. KeysAreUnique'
  BY Apart DEF CompleteStatus, CanUpdate, WriteRow, Goto, Answer, IInv, TypeOK,
     KeysAreUnique, tables, locks, local, Txs
<1>4. PendingHaveTheKey'
  BY Apart DEF CompleteStatus, CanUpdate, WriteRow, Goto, Answer, IInv, TypeOK,
     PendingHaveTheKey, tables, locks, local, Txs
<1>5. CompletesAt'
  BY Apart DEF CompleteStatus, CanUpdate, WriteRow, Goto, Answer, IInv, TypeOK,
     CompletesAt, tables, locks, local, Txs
<1>6. DeletesAt'
  BY Apart DEF CompleteStatus, CanUpdate, WriteRow, Goto, Answer, IInv, TypeOK,
     DeletesAt, tables, locks, local, Txs
<1>7. TicksAt'
  BY Apart DEF CompleteStatus, CanUpdate, WriteRow, Goto, Answer, IInv, TypeOK,
     TicksAt, tables, locks, local, Txs
<1>8. FinishesAt'
  BY Apart DEF CompleteStatus, CanUpdate, WriteRow, Goto, Answer, IInv, TypeOK,
     FinishesAt, tables, locks, local, Txs
<1>9. WriterKnowsTheRow'
  BY Apart DEF CompleteStatus, CanUpdate, WriteRow, Goto, Answer, IInv, TypeOK,
     WriterKnowsTheRow, tables, locks, local, Txs
<1>10. OneTask'
  BY Apart DEF CompleteStatus, CanUpdate, WriteRow, Goto, Answer, IInv, TypeOK,
     OneTask, tables, locks, local, Txs, AssetsOf
<1>11. TaskWithStatus'
  BY Apart DEF CompleteStatus, CanUpdate, WriteRow, Goto, Answer, IInv, TypeOK,
     TaskWithStatus, tables, locks, local, Txs
<1>12. FilesAreAssets'
  BY Apart DEF CompleteStatus, CanUpdate, WriteRow, Goto, Answer, IInv, TypeOK,
     FilesAreAssets, tables, locks, local, Txs
<1>13. OneResult'
  BY Apart DEF CompleteStatus, CanUpdate, WriteRow, Goto, Answer, IInv, TypeOK,
     OneResult, tables, locks, local, Txs, AssetsOf
<1> QED
  BY <1>1, <1>2, <1>3, <1>4, <1>5, <1>6, <1>7, <1>8, <1>9, <1>10, <1>11, <1>12, <1>13
     DEF IInv

\* The accepted request writes its task.
LEMMA CompletePublishStep ==
  ASSUME IInv, NEW t \in Completes, CompletePublish(t)
  PROVE  IInv'
<1>1. TypeOK'
  BY Apart DEF CompletePublish, Goto, Answer, IInv, TypeOK, tables, locks, local, Txs,
     Statuses, Steps, Replies, Rows, Kinds
<1>2. WrittenByEnded'
  BY Apart DEF CompletePublish, Goto, Answer, IInv, TypeOK, WrittenByEnded, tables,
     locks, local, Txs
<1>3. KeysAreUnique'
  BY Apart DEF CompletePublish, Goto, Answer, IInv, TypeOK, KeysAreUnique, tables,
     locks, local, Txs
<1>4. PendingHaveTheKey'
  BY Apart DEF CompletePublish, Goto, Answer, IInv, TypeOK, PendingHaveTheKey, tables,
     locks, local, Txs
<1>5. CompletesAt'
  BY Apart DEF CompletePublish, Goto, Answer, IInv, TypeOK, CompletesAt, tables, locks,
     local, Txs
<1>6. DeletesAt'
  BY Apart DEF CompletePublish, Goto, Answer, IInv, TypeOK, DeletesAt, tables, locks,
     local, Txs
<1>7. TicksAt'
  BY Apart DEF CompletePublish, Goto, Answer, IInv, TypeOK, TicksAt, tables, locks,
     local, Txs
<1>8. FinishesAt'
  BY Apart DEF CompletePublish, Goto, Answer, IInv, TypeOK, FinishesAt, tables, locks,
     local, Txs
<1>9. WriterKnowsTheRow'
  BY Apart DEF CompletePublish, Goto, Answer, IInv, TypeOK, WriterKnowsTheRow, tables,
     locks, local, Txs
<1>10. OneTask'
  BY Apart DEF CompletePublish, Goto, Answer, IInv, TypeOK, OneTask, tables, locks,
     local, Txs, AssetsOf
<1>11. TaskWithStatus'
  BY Apart DEF CompletePublish, Goto, Answer, IInv, TypeOK, TaskWithStatus, tables,
     locks, local, Txs
<1>12. FilesAreAssets'
  BY Apart DEF CompletePublish, Goto, Answer, IInv, TypeOK, FilesAreAssets, tables,
     locks, local, Txs
<1>13. OneResult'
  BY Apart DEF CompletePublish, Goto, Answer, IInv, TypeOK, OneResult, tables, locks,
     local, Txs, AssetsOf
<1> QED
  BY <1>1, <1>2, <1>3, <1>4, <1>5, <1>6, <1>7, <1>8, <1>9, <1>10, <1>11, <1>12, <1>13
     DEF IInv

-----------------------------------------------------------------------------
(* Delete *)

\* The assets are selected, and nothing is locked.
LEMMA DeleteSelectStep ==
  ASSUME IInv, NEW t \in Deletes, DeleteSelect(t)
  PROVE  IInv'
<1>1. TypeOK'
  BY Apart DEF DeleteSelect, Goto, Answer, IInv, TypeOK, tables, locks, local, Txs,
     Statuses, Steps, Replies, Rows, Kinds
<1>2. WrittenByEnded'
  BY Apart DEF DeleteSelect, Goto, Answer, IInv, TypeOK, WrittenByEnded, tables, locks,
     local, Txs
<1>3. KeysAreUnique'
  BY Apart DEF DeleteSelect, Goto, Answer, IInv, TypeOK, KeysAreUnique, tables, locks,
     local, Txs
<1>4. PendingHaveTheKey'
  BY Apart DEF DeleteSelect, Goto, Answer, IInv, TypeOK, PendingHaveTheKey, tables,
     locks, local, Txs
<1>5. CompletesAt'
  BY Apart DEF DeleteSelect, Goto, Answer, IInv, TypeOK, CompletesAt, tables, locks,
     local, Txs
<1>6. DeletesAt'
  BY Apart DEF DeleteSelect, Goto, Answer, IInv, TypeOK, DeletesAt, tables, locks,
     local, Txs
<1>7. TicksAt'
  BY Apart DEF DeleteSelect, Goto, Answer, IInv, TypeOK, TicksAt, tables, locks, local,
     Txs
<1>8. FinishesAt'
  BY Apart DEF DeleteSelect, Goto, Answer, IInv, TypeOK, FinishesAt, tables, locks,
     local, Txs
<1>9. WriterKnowsTheRow'
  BY Apart DEF DeleteSelect, Goto, Answer, IInv, TypeOK, WriterKnowsTheRow, tables,
     locks, local, Txs
<1>10. OneTask'
  BY Apart DEF DeleteSelect, Goto, Answer, IInv, TypeOK, OneTask, tables, locks, local,
     Txs, AssetsOf
<1>11. TaskWithStatus'
  BY Apart DEF DeleteSelect, Goto, Answer, IInv, TypeOK, TaskWithStatus, tables, locks,
     local, Txs
<1>12. FilesAreAssets'
  BY Apart DEF DeleteSelect, Goto, Answer, IInv, TypeOK, FilesAreAssets, tables, locks,
     local, Txs
<1>13. OneResult'
  BY Apart DEF DeleteSelect, Goto, Answer, IInv, TypeOK, OneResult, tables, locks,
     local, Txs, AssetsOf
<1> QED
  BY <1>1, <1>2, <1>3, <1>4, <1>5, <1>6, <1>7, <1>8, <1>9, <1>10, <1>11, <1>12, <1>13
     DEF IInv

\* Only committed files are deleted.
LEMMA DeleteFilesStep ==
  ASSUME IInv, NEW t \in Deletes, DeleteFiles(t)
  PROVE  IInv'
<1>1. TypeOK'
  BY Apart DEF DeleteFiles, Goto, Answer, IInv, TypeOK, tables, locks, local, Txs,
     Statuses, Steps, Replies, Rows, Kinds
<1>2. WrittenByEnded'
  BY Apart DEF DeleteFiles, Goto, Answer, IInv, TypeOK, WrittenByEnded, tables, locks,
     local, Txs
<1>3. KeysAreUnique'
  BY Apart DEF DeleteFiles, Goto, Answer, IInv, TypeOK, KeysAreUnique, tables, locks,
     local, Txs
<1>4. PendingHaveTheKey'
  <2>1. /\ UNCHANGED <<files, added>>
        /\ removed' = [removed EXCEPT ![t] = seen[t] \cap files]
        /\ \A u \in Txs \ {t} : removed[u] \cap seen[t] = {}
    BY DEF DeleteFiles, tables, locks
  <2>2. t \in Txs /\ added[t] = {}
    BY Apart DEF DeleteFiles, IInv, DeletesAt, FinishesAt, Txs
  <2> SUFFICES ASSUME NEW u \in Txs, NEW r \in added[u]
               PROVE  /\ r[2] = u
                      /\ \A s \in files : s[1] = r[1] => s \in removed'[u]
                      /\ \A w \in Txs \ {u} : \A s \in added[w] \cup removed'[w] : s[1] # r[1]
    BY <2>1 DEF PendingHaveTheKey
  <2>3. u # t /\ removed'[u] = removed[u]
    BY <2>1, <2>2 DEF IInv, TypeOK
  <2>4. ASSUME NEW w \in Txs \ {u}, NEW s \in added[w] \cup removed'[w]
        PROVE  s[1] # r[1]
    <3>1. CASE w = t /\ s \in removed'[w]
      BY <2>1, <2>2, <2>3, <3>1 DEF IInv, TypeOK, PendingHaveTheKey
    <3>2. CASE w # t \/ s \in added[w]
      BY <2>1, <2>2, <3>2 DEF IInv, TypeOK, PendingHaveTheKey
    <3> QED
      BY <3>1, <3>2
  <2> QED
    BY <2>3, <2>4 DEF IInv, PendingHaveTheKey
<1>5. CompletesAt'
  BY Apart DEF DeleteFiles, Goto, Answer, IInv, TypeOK, CompletesAt, tables, locks,
     local, Txs
<1>6. DeletesAt'
  BY Apart DEF DeleteFiles, Goto, Answer, IInv, TypeOK, DeletesAt, tables, locks,
     local, Txs
<1>7. TicksAt'
  BY Apart DEF DeleteFiles, Goto, Answer, IInv, TypeOK, TicksAt, tables, locks, local, Txs
<1>8. FinishesAt'
  BY Apart DEF DeleteFiles, Goto, Answer, IInv, TypeOK, FinishesAt, tables, locks,
     local, Txs
<1>9. WriterKnowsTheRow'
  BY Apart DEF DeleteFiles, Goto, Answer, IInv, TypeOK, WriterKnowsTheRow, tables,
     locks, local, Txs
<1>10. OneTask'
  BY Apart DEF DeleteFiles, Goto, Answer, IInv, TypeOK, OneTask, tables, locks, local,
     Txs, AssetsOf
<1>11. TaskWithStatus'
  BY Apart DEF DeleteFiles, Goto, Answer, IInv, TypeOK, TaskWithStatus, tables, locks,
     local, Txs
<1>12. FilesAreAssets'
  BY Apart DEF DeleteFiles, Goto, Answer, IInv, TypeOK, FilesAreAssets, tables, locks,
     local, Txs
<1>13. OneResult'
  BY Apart DEF DeleteFiles, Goto, Answer, IInv, TypeOK, OneResult, tables, locks,
     local, Txs, AssetsOf
<1> QED
  BY <1>1, <1>2, <1>3, <1>4, <1>5, <1>6, <1>7, <1>8, <1>9, <1>10, <1>11, <1>12, <1>13
     DEF IInv

\* The row is deleted once nobody writes it or refers to it.
LEMMA DeleteVideoStep ==
  ASSUME IInv, NEW t \in Deletes, DeleteVideo(t)
  PROVE  IInv'
<1>1. TypeOK'
  BY Apart DEF DeleteVideo, CanDelete, CanUpdate, WriteRow, Goto, Answer, IInv, TypeOK,
     tables, locks, local, Txs, Statuses, Steps, Replies, Rows, Kinds
<1>2. WrittenByEnded'
  BY Apart DEF DeleteVideo, CanDelete, CanUpdate, WriteRow, Goto, Answer, IInv, TypeOK,
     WrittenByEnded, tables, locks, local, Txs
<1>3. KeysAreUnique'
  BY Apart DEF DeleteVideo, CanDelete, CanUpdate, WriteRow, Goto, Answer, IInv, TypeOK,
     KeysAreUnique, tables, locks, local, Txs
<1>4. PendingHaveTheKey'
  BY Apart DEF DeleteVideo, CanDelete, CanUpdate, WriteRow, Goto, Answer, IInv, TypeOK,
     PendingHaveTheKey, tables, locks, local, Txs
<1>5. CompletesAt'
  BY Apart DEF DeleteVideo, CanDelete, CanUpdate, WriteRow, Goto, Answer, IInv, TypeOK,
     CompletesAt, tables, locks, local, Txs
<1>6. DeletesAt'
  BY Apart DEF DeleteVideo, CanDelete, CanUpdate, WriteRow, Goto, Answer, IInv, TypeOK,
     DeletesAt, tables, locks, local, Txs
<1>7. TicksAt'
  BY Apart DEF DeleteVideo, CanDelete, CanUpdate, WriteRow, Goto, Answer, IInv, TypeOK,
     TicksAt, tables, locks, local, Txs
<1>8. FinishesAt'
  BY Apart DEF DeleteVideo, CanDelete, CanUpdate, WriteRow, Goto, Answer, IInv, TypeOK,
     FinishesAt, tables, locks, local, Txs
<1>9. WriterKnowsTheRow'
  BY Apart DEF DeleteVideo, CanDelete, CanUpdate, WriteRow, Goto, Answer, IInv, TypeOK,
     WriterKnowsTheRow, tables, locks, local, Txs
<1>10. OneTask'
  BY Apart DEF DeleteVideo, CanDelete, CanUpdate, WriteRow, Goto, Answer, IInv, TypeOK,
     OneTask, tables, locks, local, Txs, AssetsOf
<1>11. TaskWithStatus'
  BY Apart DEF DeleteVideo, CanDelete, CanUpdate, WriteRow, Goto, Answer, IInv, TypeOK,
     TaskWithStatus, tables, locks, local, Txs
<1>12. FilesAreAssets'
  BY Apart DEF DeleteVideo, CanDelete, CanUpdate, WriteRow, Goto, Answer, IInv, TypeOK,
     FilesAreAssets, tables, locks, local, Txs
<1>13. OneResult'
  BY Apart DEF DeleteVideo, CanDelete, CanUpdate, WriteRow, Goto, Answer, IInv, TypeOK,
     OneResult, tables, locks, local, Txs, AssetsOf
<1> QED
  BY <1>1, <1>2, <1>3, <1>4, <1>5, <1>6, <1>7, <1>8, <1>9, <1>10, <1>11, <1>12, <1>13
     DEF IInv

-----------------------------------------------------------------------------
(* The watchdog, and ApplyProcessingCompleted *)

\* The files of the results before are deleted.
LEMMA FinishReplaceStep ==
  ASSUME IInv, NEW t \in Finishes, FinishReplace(t)
  PROVE  IInv'
<1>1. TypeOK'
  BY Apart DEF FinishReplace, Goto, Answer, IInv, TypeOK, tables, locks, local, Txs,
     Statuses, Steps, Replies, Rows, Kinds
<1>2. WrittenByEnded'
  BY Apart DEF FinishReplace, Goto, Answer, IInv, TypeOK, WrittenByEnded, tables,
     locks, local, Txs
<1>3. KeysAreUnique'
  BY Apart DEF FinishReplace, Goto, Answer, IInv, TypeOK, KeysAreUnique, tables, locks,
     local, Txs
<1>4. PendingHaveTheKey'
  <2>1. /\ UNCHANGED <<files, added>>
        /\ removed' = [removed EXCEPT ![t] = {r \in assets : r[1] = "hls"} \cap files]
        /\ \A u \in Txs \ {t} : removed[u] \cap {r \in assets : r[1] = "hls"} = {}
    BY DEF FinishReplace, tables, locks
  <2>2. t \in Txs /\ added[t] = {}
    BY Apart DEF FinishReplace, IInv, DeletesAt, FinishesAt, Txs
  <2> SUFFICES ASSUME NEW u \in Txs, NEW r \in added[u]
               PROVE  /\ r[2] = u
                      /\ \A s \in files : s[1] = r[1] => s \in removed'[u]
                      /\ \A w \in Txs \ {u} : \A s \in added[w] \cup removed'[w] : s[1] # r[1]
    BY <2>1 DEF PendingHaveTheKey
  <2>3. u # t /\ removed'[u] = removed[u]
    BY <2>1, <2>2 DEF IInv, TypeOK
  <2>4. ASSUME NEW w \in Txs \ {u}, NEW s \in added[w] \cup removed'[w]
        PROVE  s[1] # r[1]
    <3>1. CASE w = t /\ s \in removed'[w]
      BY <2>1, <2>2, <2>3, <3>1 DEF IInv, TypeOK, PendingHaveTheKey
    <3>2. CASE w # t \/ s \in added[w]
      BY <2>1, <2>2, <3>2 DEF IInv, TypeOK, PendingHaveTheKey
    <3> QED
      BY <3>1, <3>2
  <2> QED
    BY <2>3, <2>4 DEF IInv, PendingHaveTheKey
<1>5. CompletesAt'
  BY Apart DEF FinishReplace, Goto, Answer, IInv, TypeOK, CompletesAt, tables, locks,
     local, Txs
<1>6. DeletesAt'
  BY Apart DEF FinishReplace, Goto, Answer, IInv, TypeOK, DeletesAt, tables, locks,
     local, Txs
<1>7. TicksAt'
  BY Apart DEF FinishReplace, Goto, Answer, IInv, TypeOK, TicksAt, tables, locks,
     local, Txs
<1>8. FinishesAt'
  BY Apart DEF FinishReplace, Goto, Answer, IInv, TypeOK, FinishesAt, tables, locks,
     local, Txs
<1>9. WriterKnowsTheRow'
  BY Apart DEF FinishReplace, Goto, Answer, IInv, TypeOK, WriterKnowsTheRow, tables,
     locks, local, Txs
<1>10. OneTask'
  BY Apart DEF FinishReplace, Goto, Answer, IInv, TypeOK, OneTask, tables, locks,
     local, Txs, AssetsOf
<1>11. TaskWithStatus'
  BY Apart DEF FinishReplace, Goto, Answer, IInv, TypeOK, TaskWithStatus, tables, locks,
     local, Txs
<1>12. FilesAreAssets'
  BY Apart DEF FinishReplace, Goto, Answer, IInv, TypeOK, FilesAreAssets, tables,
     locks, local, Txs
<1>13. OneResult'
  BY Apart DEF FinishReplace, Goto, Answer, IInv, TypeOK, OneResult, tables, locks,
     local, Txs, AssetsOf
<1> QED
  BY <1>1, <1>2, <1>3, <1>4, <1>5, <1>6, <1>7, <1>8, <1>9, <1>10, <1>11, <1>12, <1>13
     DEF IInv

\* The results have their key, or the transaction is aborted.
LEMMA FinishResultsStep ==
  ASSUME IInv, NEW t \in Finishes, FinishResults(t)
  PROVE  IInv'
<1>0. /\ UNCHANGED <<tables, locks, seen, removed, published>>
      /\ t \in Txs /\ pc[t] = "results"
      /\ \/ added' = added /\ pc' = [pc EXCEPT ![t] = "aborted"]
         \/ /\ added' = [added EXCEPT ![t] = {<<"hls", t>>}]
            /\ pc' = [pc EXCEPT ![t] = "commit"]
  <2>1. added[t] = {}
    BY DEF FinishResults, IInv, FinishesAt
  <2> QED
    BY <2>1 DEF FinishResults, InsertFile, Goto, IInv, TypeOK, Txs
<1>1. TypeOK'
  BY Apart DEF FinishResults, InsertFile, KeyIsContended, KeyIsTaken, Kinds, Rows,
     Goto, Answer, IInv, TypeOK, tables, locks, local, Txs, Statuses, Steps, Replies,
     Rows, Kinds
<1>2. WrittenByEnded'
  BY Apart DEF FinishResults, InsertFile, KeyIsContended, KeyIsTaken, Kinds, Rows,
     Goto, Answer, IInv, TypeOK, WrittenByEnded, tables, locks, local, Txs
<1>3. KeysAreUnique'
  BY Apart DEF FinishResults, InsertFile, KeyIsContended, KeyIsTaken, Kinds, Rows,
     Goto, Answer, IInv, TypeOK, KeysAreUnique, tables, locks, local, Txs
<1>4. PendingHaveTheKey'
  BY Apart DEF FinishResults, InsertFile, KeyIsContended, KeyIsTaken, Kinds, Rows,
     Goto, Answer, IInv, TypeOK, PendingHaveTheKey, tables, locks, local, Txs
<1>5. CompletesAt'
  BY <1>0, Apart DEF IInv, TypeOK, CompletesAt, tables, locks, Txs
<1>6. DeletesAt'
  BY Apart DEF FinishResults, InsertFile, KeyIsContended, KeyIsTaken, Kinds, Rows,
     Goto, Answer, IInv, TypeOK, DeletesAt, tables, locks, local, Txs
<1>7. TicksAt'
  BY Apart DEF FinishResults, InsertFile, KeyIsContended, KeyIsTaken, Kinds, Rows,
     Goto, Answer, IInv, TypeOK, TicksAt, tables, locks, local, Txs
<1>8. FinishesAt'
  <2> SUFFICES ASSUME NEW f \in Finishes
               PROVE  /\ pc'[f] \in {"begin", "replace", "results", "commit", "aborted", "done"}
                      /\ pc'[f] \notin {"begin", "done"} => writer = f
                      /\ \A r \in removed[f] : r[1] = "hls"
                      /\ added'[f] = IF pc'[f] = "commit" THEN {<<"hls", f>>} ELSE {}
    BY <1>0 DEF FinishesAt, locks
  <2>1. CASE f = t
    BY <1>0, <2>1 DEF IInv, TypeOK, FinishesAt, Txs
  <2>2. CASE f # t
    <3>1. pc'[f] = pc[f] /\ added'[f] = added[f]
      BY <1>0, <2>2 DEF IInv, TypeOK, Txs
    <3> QED
      BY <3>1 DEF IInv, FinishesAt
  <2> QED
    BY <2>1, <2>2
<1>9. WriterKnowsTheRow'
  BY Apart DEF FinishResults, InsertFile, KeyIsContended, KeyIsTaken, Kinds, Rows,
     Goto, Answer, IInv, TypeOK, WriterKnowsTheRow, tables, locks, local, Txs
<1>10. OneTask'
  BY Apart DEF FinishResults, InsertFile, KeyIsContended, KeyIsTaken, Kinds, Rows,
     Goto, Answer, IInv, TypeOK, OneTask, tables, locks, local, Txs, AssetsOf
<1>11. TaskWithStatus'
  BY Apart DEF FinishResults, InsertFile, KeyIsContended, KeyIsTaken, Kinds, Rows,
     Goto, Answer, IInv, TypeOK, TaskWithStatus, tables, locks, local, Txs
<1>12. FilesAreAssets'
  BY Apart DEF FinishResults, InsertFile, KeyIsContended, KeyIsTaken, Kinds, Rows,
     Goto, Answer, IInv, TypeOK, FilesAreAssets, tables, locks, local, Txs
<1>13. OneResult'
  BY Apart DEF FinishResults, InsertFile, KeyIsContended, KeyIsTaken, Kinds, Rows,
     Goto, Answer, IInv, TypeOK, OneResult, tables, locks, local, Txs, AssetsOf
<1> QED
  BY <1>1, <1>2, <1>3, <1>4, <1>5, <1>6, <1>7, <1>8, <1>9, <1>10, <1>11, <1>12, <1>13
     DEF IInv

-----------------------------------------------------------------------------
(* The first statements *)

\* The request goes on with an uploading video, and answers the others.
LEMMA CompleteBeginStep ==
  ASSUME IInv, NEW t \in Completes, CompleteBegin(t)
  PROVE  IInv'
<1>a. t \in Txs /\ pc[t] = "begin"
  BY DEF CompleteBegin, Txs
<1>b. ASSUME NEW a \in Replies, EndWith(t, a) PROVE IInv'
  BY <1>a, <1>b, EndWithStep
<1>c. ASSUME UNCHANGED <<reply, tables, locks, local>>,
             pc' = [pc EXCEPT ![t] = "file"]
      PROVE  IInv'
  <2>1. TypeOK'
    BY <1>a, <1>c, Apart DEF IInv, TypeOK, tables, locks, local, Txs, Statuses, Steps
  <2>2. WrittenByEnded'
    BY <1>a, <1>c, Apart DEF IInv, TypeOK, WrittenByEnded, tables, locks, local, Txs
  <2>3. KeysAreUnique'
    BY <1>a, <1>c, Apart DEF IInv, TypeOK, KeysAreUnique, tables, locks, local, Txs
  <2>4. PendingHaveTheKey'
    BY <1>a, <1>c, Apart DEF IInv, TypeOK, PendingHaveTheKey, tables, locks, local, Txs
  <2>5. CompletesAt'
    BY <1>a, <1>c, Apart DEF IInv, TypeOK, CompletesAt, tables, locks, local, Txs
  <2>6. DeletesAt'
    BY <1>a, <1>c, Apart DEF IInv, TypeOK, DeletesAt, tables, locks, local, Txs
  <2>7. TicksAt'
    BY <1>a, <1>c, Apart DEF IInv, TypeOK, TicksAt, tables, locks, local, Txs
  <2>8. FinishesAt'
    BY <1>a, <1>c, Apart DEF IInv, TypeOK, FinishesAt, tables, locks, local, Txs
  <2>9. WriterKnowsTheRow'
    BY <1>a, <1>c, Apart DEF IInv, TypeOK, WriterKnowsTheRow, tables, locks, local, Txs
  <2>10. OneTask'
    BY <1>a, <1>c, Apart DEF IInv, TypeOK, OneTask, tables, locks, local, Txs, AssetsOf
  <2>11. TaskWithStatus'
    BY <1>a, <1>c, Apart DEF IInv, TypeOK, TaskWithStatus, tables, locks, local, Txs
  <2>12. FilesAreAssets'
    BY <1>a, <1>c, Apart DEF IInv, TypeOK, FilesAreAssets, tables, locks, local, Txs
  <2>13. OneResult'
    BY <1>a, <1>c, Apart DEF IInv, TypeOK, OneResult, tables, locks, local, Txs, AssetsOf
  <2> QED
    BY <2>1, <2>2, <2>3, <2>4, <2>5, <2>6, <2>7, <2>8, <2>9, <2>10, <2>11, <2>12, <2>13
       DEF IInv
<1> QED
  BY <1>a, <1>b, <1>c, Apart DEF CompleteBegin, Replies, Goto, CanUpdate, WriteRow

\* The request goes on with the video it has found.
LEMMA DeleteBeginStep ==
  ASSUME IInv, NEW t \in Deletes, DeleteBegin(t)
  PROVE  IInv'
<1>a. t \in Txs /\ pc[t] = "begin"
  BY DEF DeleteBegin, Txs
<1>b. ASSUME NEW a \in Replies, EndWith(t, a) PROVE IInv'
  BY <1>a, <1>b, EndWithStep
<1>c. ASSUME UNCHANGED <<reply, tables, locks, local>>,
             pc' = [pc EXCEPT ![t] = "select"]
      PROVE  IInv'
  <2>1. TypeOK'
    BY <1>a, <1>c, Apart DEF IInv, TypeOK, tables, locks, local, Txs, Statuses, Steps
  <2>2. WrittenByEnded'
    BY <1>a, <1>c, Apart DEF IInv, TypeOK, WrittenByEnded, tables, locks, local, Txs
  <2>3. KeysAreUnique'
    BY <1>a, <1>c, Apart DEF IInv, TypeOK, KeysAreUnique, tables, locks, local, Txs
  <2>4. PendingHaveTheKey'
    BY <1>a, <1>c, Apart DEF IInv, TypeOK, PendingHaveTheKey, tables, locks, local, Txs
  <2>5. CompletesAt'
    BY <1>a, <1>c, Apart DEF IInv, TypeOK, CompletesAt, tables, locks, local, Txs
  <2>6. DeletesAt'
    BY <1>a, <1>c, Apart DEF IInv, TypeOK, DeletesAt, tables, locks, local, Txs
  <2>7. TicksAt'
    BY <1>a, <1>c, Apart DEF IInv, TypeOK, TicksAt, tables, locks, local, Txs
  <2>8. FinishesAt'
    BY <1>a, <1>c, Apart DEF IInv, TypeOK, FinishesAt, tables, locks, local, Txs
  <2>9. WriterKnowsTheRow'
    BY <1>a, <1>c, Apart DEF IInv, TypeOK, WriterKnowsTheRow, tables, locks, local, Txs
  <2>10. OneTask'
    BY <1>a, <1>c, Apart DEF IInv, TypeOK, OneTask, tables, locks, local, Txs, AssetsOf
  <2>11. TaskWithStatus'
    BY <1>a, <1>c, Apart DEF IInv, TypeOK, TaskWithStatus, tables, locks, local, Txs
  <2>12. FilesAreAssets'
    BY <1>a, <1>c, Apart DEF IInv, TypeOK, FilesAreAssets, tables, locks, local, Txs
  <2>13. OneResult'
    BY <1>a, <1>c, Apart DEF IInv, TypeOK, OneResult, tables, locks, local, Txs, AssetsOf
  <2> QED
    BY <2>1, <2>2, <2>3, <2>4, <2>5, <2>6, <2>7, <2>8, <2>9, <2>10, <2>11, <2>12, <2>13
       DEF IInv
<1> QED
  BY <1>a, <1>b, <1>c, Apart DEF DeleteBegin, Replies, Goto, CanUpdate, WriteRow

\* The tick fails a video only if it is still uploading ...
LEMMA TickUploadingStep ==
  ASSUME IInv, NEW t \in Ticks, TickUploading(t)
  PROVE  IInv'
<1>1. /\ t \in Txs /\ pc[t] = "begin" /\ pc' = [pc EXCEPT ![t] = "processing"]
      /\ UNCHANGED <<tables, keyShare, local, reply>>
  BY DEF TickUploading, Goto, Txs
<1>2. \/ writer = NoTx /\ row = "uploading" /\ writer' = t /\ newRow' = "failed"
      \/ writer' = writer /\ newRow' = newRow
  BY <1>1, Apart DEF TickUploading, UpdateTimedOut, CanUpdate, RowSeen, WriteRow, IInv, TypeOK,
     WriterKnowsTheRow
<1>3. TypeOK'
  BY <1>1, <1>2, Apart DEF IInv, TypeOK, Statuses, Steps, tables, local, Txs
<1>4. WrittenByEnded'
  BY <1>1, <1>2, Apart DEF IInv, TypeOK, WrittenByEnded, tables, local, Txs
<1>5. KeysAreUnique'
  BY <1>1, <1>2, Apart DEF IInv, TypeOK, KeysAreUnique, tables, local, Txs
<1>6. PendingHaveTheKey'
  BY <1>1, <1>2, Apart DEF IInv, TypeOK, PendingHaveTheKey, tables, local, Txs
<1>7. CompletesAt'
  BY <1>1, <1>2, Apart DEF IInv, TypeOK, CompletesAt, tables, local, Txs
<1>8. DeletesAt'
  BY <1>1, <1>2, Apart DEF IInv, TypeOK, DeletesAt, tables, local, Txs
<1>9. TicksAt'
  BY <1>1, <1>2, Apart DEF IInv, TypeOK, TicksAt, tables, local, Txs
<1>10. FinishesAt'
  BY <1>1, <1>2, Apart DEF IInv, TypeOK, FinishesAt, tables, local, Txs
<1>11. WriterKnowsTheRow'
  BY <1>1, <1>2, Apart DEF IInv, TypeOK, WriterKnowsTheRow, tables, local, Txs
<1>12. OneTask'
  BY <1>1, <1>2, Apart DEF IInv, TypeOK, OneTask, AssetsOf, tables, local, Txs
<1>13. TaskWithStatus'
  BY <1>1, <1>2, Apart DEF IInv, TypeOK, TaskWithStatus, tables, local, Txs
<1>14. FilesAreAssets'
  BY <1>1, <1>2, Apart DEF IInv, TypeOK, FilesAreAssets, tables, local, Txs
<1>15. OneResult'
  BY <1>1, <1>2, Apart DEF IInv, TypeOK, OneResult, AssetsOf, tables, local, Txs
<1> QED
  BY <1>3, <1>4, <1>5, <1>6, <1>7, <1>8, <1>9, <1>10, <1>11, <1>12, <1>13, <1>14, <1>15
     DEF IInv

\* ... or if it is still processed, and not by this tick already failed.
LEMMA TickProcessingStep ==
  ASSUME IInv, NEW t \in Ticks, TickProcessing(t)
  PROVE  IInv'
<1>1. /\ t \in Txs /\ pc[t] = "processing" /\ pc' = [pc EXCEPT ![t] = "commit"]
      /\ UNCHANGED <<tables, keyShare, local, reply>>
  BY DEF TickProcessing, Goto, Txs
<1>2. \/ writer = NoTx /\ row = "queued" /\ writer' = t /\ newRow' = "failed"
      \/ writer' = writer /\ newRow' = newRow
  BY <1>1, Apart DEF TickProcessing, UpdateTimedOut, CanUpdate, RowSeen, WriteRow, IInv, TypeOK,
     WriterKnowsTheRow
<1>3. TypeOK'
  BY <1>1, <1>2, Apart DEF IInv, TypeOK, Statuses, Steps, tables, local, Txs
<1>4. WrittenByEnded'
  BY <1>1, <1>2, Apart DEF IInv, TypeOK, WrittenByEnded, tables, local, Txs
<1>5. KeysAreUnique'
  BY <1>1, <1>2, Apart DEF IInv, TypeOK, KeysAreUnique, tables, local, Txs
<1>6. PendingHaveTheKey'
  BY <1>1, <1>2, Apart DEF IInv, TypeOK, PendingHaveTheKey, tables, local, Txs
<1>7. CompletesAt'
  BY <1>1, <1>2, Apart DEF IInv, TypeOK, CompletesAt, tables, local, Txs
<1>8. DeletesAt'
  BY <1>1, <1>2, Apart DEF IInv, TypeOK, DeletesAt, tables, local, Txs
<1>9. TicksAt'
  BY <1>1, <1>2, Apart DEF IInv, TypeOK, TicksAt, tables, local, Txs
<1>10. FinishesAt'
  BY <1>1, <1>2, Apart DEF IInv, TypeOK, FinishesAt, tables, local, Txs
<1>11. WriterKnowsTheRow'
  BY <1>1, <1>2, Apart DEF IInv, TypeOK, WriterKnowsTheRow, tables, local, Txs
<1>12. OneTask'
  BY <1>1, <1>2, Apart DEF IInv, TypeOK, OneTask, AssetsOf, tables, local, Txs
<1>13. TaskWithStatus'
  BY <1>1, <1>2, Apart DEF IInv, TypeOK, TaskWithStatus, tables, local, Txs
<1>14. FilesAreAssets'
  BY <1>1, <1>2, Apart DEF IInv, TypeOK, FilesAreAssets, tables, local, Txs
<1>15. OneResult'
  BY <1>1, <1>2, Apart DEF IInv, TypeOK, OneResult, AssetsOf, tables, local, Txs
<1> QED
  BY <1>3, <1>4, <1>5, <1>6, <1>7, <1>8, <1>9, <1>10, <1>11, <1>12, <1>13, <1>14, <1>15
     DEF IInv

\* The event applies only while the video is being processed.
LEMMA FinishStatusStep ==
  ASSUME IInv, NEW t \in Finishes, FinishStatus(t)
  PROVE  IInv'
<1>a. t \in Txs /\ pc[t] = "begin"
  BY DEF FinishStatus, Txs
<1>b. ASSUME NEW a \in Replies, EndWith(t, a) PROVE IInv'
  BY <1>a, <1>b, EndWithStep
<1>c. ASSUME writer \in {NoTx, t}, row = "queued", writer' = t, newRow' = "ready",
             pc' = [pc EXCEPT ![t] = "replace"], UNCHANGED <<reply, tables, keyShare, local>>
      PROVE  IInv'
  <2>1. TypeOK'
    BY <1>a, <1>c, Apart DEF IInv, TypeOK, tables, locks, local, Txs, Statuses, Steps
  <2>2. WrittenByEnded'
    BY <1>a, <1>c, Apart DEF IInv, TypeOK, WrittenByEnded, tables, locks, local, Txs
  <2>3. KeysAreUnique'
    BY <1>a, <1>c, Apart DEF IInv, TypeOK, KeysAreUnique, tables, locks, local, Txs
  <2>4. PendingHaveTheKey'
    BY <1>a, <1>c, Apart DEF IInv, TypeOK, PendingHaveTheKey, tables, locks, local, Txs
  <2>5. CompletesAt'
    BY <1>a, <1>c, Apart DEF IInv, TypeOK, CompletesAt, tables, locks, local, Txs
  <2>6. DeletesAt'
    BY <1>a, <1>c, Apart DEF IInv, TypeOK, DeletesAt, tables, locks, local, Txs
  <2>7. TicksAt'
    BY <1>a, <1>c, Apart DEF IInv, TypeOK, TicksAt, tables, locks, local, Txs
  <2>8. FinishesAt'
    BY <1>a, <1>c, Apart DEF IInv, TypeOK, FinishesAt, tables, locks, local, Txs
  <2>9. WriterKnowsTheRow'
    BY <1>a, <1>c, Apart DEF IInv, TypeOK, WriterKnowsTheRow, tables, locks, local, Txs
  <2>10. OneTask'
    BY <1>a, <1>c, Apart DEF IInv, TypeOK, OneTask, tables, locks, local, Txs, AssetsOf
  <2>11. TaskWithStatus'
    BY <1>a, <1>c, Apart DEF IInv, TypeOK, TaskWithStatus, tables, locks, local, Txs
  <2>12. FilesAreAssets'
    BY <1>a, <1>c, Apart DEF IInv, TypeOK, FilesAreAssets, tables, locks, local, Txs
  <2>13. OneResult'
    BY <1>a, <1>c, Apart DEF IInv, TypeOK, OneResult, tables, locks, local, Txs, AssetsOf
  <2> QED
    BY <2>1, <2>2, <2>3, <2>4, <2>5, <2>6, <2>7, <2>8, <2>9, <2>10, <2>11, <2>12, <2>13
       DEF IInv
<1> QED
  BY <1>a, <1>b, <1>c, Apart DEF FinishStatus, Replies, Goto, CanUpdate, WriteRow

-----------------------------------------------------------------------------
(* The commit *)

\* What the transaction that commits may leave, by its kind: the row it was the
\* writer of, or, of a video that has moved on, the rows it has inserted.
LEMMA CommitKinds ==
  ASSUME IInv, NEW t \in Txs, pc[t] = "commit"
  PROVE  \/ /\ t \in Completes /\ writer = t /\ row = "uploading" /\ newRow = "queued"
            /\ t \in published /\ added[t] = {<<"original", t>>} /\ removed[t] = {}
         \/ /\ t \in Completes /\ writer # t /\ t \notin published
            /\ added[t] = {<<"original", t>>} /\ removed[t] = {}
         \/ /\ t \in Deletes /\ writer = t /\ newRow = "gone" /\ t \notin published
         \/ /\ t \in Deletes /\ writer # t /\ row = "gone" /\ t \notin published
         \/ /\ t \in Ticks /\ writer = t /\ row \in {"uploading", "queued"}
            /\ newRow = "failed" /\ t \notin published
            /\ added[t] = {} /\ removed[t] = {}
         \/ /\ t \in Ticks /\ writer # t /\ t \notin published
            /\ added[t] = {} /\ removed[t] = {}
         \/ /\ t \in Finishes /\ writer = t /\ row = "queued" /\ newRow = "ready"
            /\ t \notin published /\ added[t] = {<<"hls", t>>}
            /\ \A r \in removed[t] : r[1] = "hls"
<1>1. CASE t \in Completes
  BY <1>1, Apart DEF IInv, CompletesAt, WriterKnowsTheRow
<1>2. CASE t \in Deletes
  BY <1>2, Apart DEF IInv, TypeOK, DeletesAt, WriterKnowsTheRow
<1>3. CASE t \in Ticks
  BY <1>3, Apart DEF IInv, TypeOK, TicksAt, WriterKnowsTheRow
<1>4. CASE t \in Finishes
  BY <1>4, Apart DEF IInv, TypeOK, FinishesAt, WriterKnowsTheRow
<1> QED
  BY <1>1, <1>2, <1>3, <1>4 DEF Txs

LEMMA CommitShape ==
  ASSUME IInv, NEW t \in Txs, Commit(t)
  PROVE  /\ pc[t] = "commit"
         /\ row' = IF writer = t THEN newRow ELSE row
         /\ files' = (files \cup added[t]) \ removed[t]
         /\ assets' = IF row' = "gone" THEN {} ELSE (assets \cup added[t]) \ removed[t]
         /\ outbox' = outbox \cup (published \cap {t})
         /\ writer' = IF writer = t THEN NoTx ELSE writer
         /\ newRow' = IF writer = t THEN row' ELSE newRow
         /\ keyShare' = keyShare \ {t}
         /\ added' = [added EXCEPT ![t] = {}]
         /\ removed' = [removed EXCEPT ![t] = {}]
         /\ seen' = [seen EXCEPT ![t] = {}]
         /\ published' = published \ {t}
         /\ pc' = [pc EXCEPT ![t] = "done"]
         /\ reply' = reply
BY DEF Commit, Release, RowSeen, Goto

\* Nobody but the writer commits a change of the row, and a gone row stays gone.
LEMMA CommitRow ==
  ASSUME IInv, NEW t \in Txs, Commit(t)
  PROVE  /\ row = "gone" => row' = "gone"
         /\ writer # t => row' = row
BY CommitShape, Apart DEF IInv, WriterKnowsTheRow, TypeOK, Txs

\* The row inserted is not one that is deleted.
LEMMA CommitAdds ==
  ASSUME IInv, NEW t \in Txs, pc[t] = "commit"
  PROVE  /\ added[t] \cap removed[t] = {}
         /\ added[t] \subseteq Rows
         /\ \A r \in added[t] : r[2] = t
BY DEF IInv, TypeOK, PendingHaveTheKey, WrittenByEnded

LEMMA CommitStep ==
  ASSUME IInv, NEW t \in Txs, Commit(t)
  PROVE  IInv'
<1>1. TypeOK'
  BY CommitShape, Apart DEF IInv, TypeOK, Steps
<1>2. WrittenByEnded'
  BY CommitShape, CommitAdds DEF IInv, TypeOK, WrittenByEnded, Rows
<1>3. KeysAreUnique'
  BY CommitShape, CommitAdds DEF IInv, KeysAreUnique, PendingHaveTheKey, Rows
<1>4. PendingHaveTheKey'
  BY CommitShape DEF IInv, TypeOK, PendingHaveTheKey
<1>0. ASSUME NEW u \in Txs, u # t
      PROVE  /\ pc'[u] = pc[u] /\ added'[u] = added[u] /\ removed'[u] = removed[u]
             /\ writer = u => writer' = u
             /\ u \in published' <=> u \in published
  BY <1>0, CommitShape DEF IInv, TypeOK
<1>t. pc'[t] = "done" /\ added'[t] = {} /\ removed'[t] = {} /\ t \notin published'
  BY CommitShape DEF IInv, TypeOK
<1>5. CompletesAt'
  <2> SUFFICES ASSUME NEW c \in Completes
               PROVE  /\ pc'[c] \in {"begin", "file", "asset", "status", "publish", "commit",
                                     "race", "aborted", "done"}
                      /\ removed'[c] = {}
                      /\ added'[c] =
                           IF pc'[c] \in {"asset", "status", "publish", "commit", "aborted"}
                             THEN {<<"original", c>>} ELSE {}
                      /\ pc'[c] = "publish" => writer' = c
                      /\ c \in published' => pc'[c] = "commit" /\ writer' = c
    BY DEF CompletesAt
  <2>1. CASE c = t
    BY <2>1, <1>t
  <2>2. CASE c # t
    BY <2>2, <1>0 DEF IInv, CompletesAt, Txs
  <2> QED
    BY <2>1, <2>2
<1>6. DeletesAt'
  BY CommitShape, CommitRow, Apart DEF IInv, TypeOK, DeletesAt, Txs
<1>7. TicksAt'
  BY CommitShape, Apart DEF IInv, TypeOK, TicksAt, Txs
<1>8. FinishesAt'
  <2> SUFFICES ASSUME NEW f \in Finishes
               PROVE  /\ pc'[f] \in {"begin", "replace", "results", "commit", "aborted", "done"}
                      /\ pc'[f] \notin {"begin", "done"} => writer' = f
                      /\ \A r \in removed'[f] : r[1] = "hls"
                      /\ added'[f] = IF pc'[f] = "commit" THEN {<<"hls", f>>} ELSE {}
    BY DEF FinishesAt
  <2>1. CASE f = t
    BY <2>1, <1>t
  <2>2. CASE f # t
    BY <2>2, <1>0 DEF IInv, FinishesAt, Txs
  <2> QED
    BY <2>1, <2>2
<1>9. WriterKnowsTheRow'
  BY CommitShape, Apart DEF IInv, TypeOK, WriterKnowsTheRow, Txs
<1>10. FilesAreAssets'
  BY CommitShape, CommitRow DEF IInv, FilesAreAssets
<1>11. TaskWithStatus'
  BY CommitShape, CommitKinds DEF IInv, TaskWithStatus
<1>12. OneTask'
  <2> SUFFICES ASSUME outbox' # {}
               PROVE  \E c \in Completes :
                        /\ outbox' = {c}
                        /\ row' # "gone" =>
                             {x \in assets' : x[1] = "original"} = {<<"original", c>>}
    BY DEF OneTask, AssetsOf
  <2>0. row' # "gone" => /\ row # "gone" /\ files = assets /\ files' = assets'
                         /\ files \subseteq Rows
    BY CommitRow, <1>10 DEF FilesAreAssets, IInv, TypeOK
  <2>1. ASSUME t \in Completes, <<"original", t>> \in added[t], removed[t] = {}, row' # "gone"
        PROVE  {x \in assets : x[1] = "original"} = {}
    BY <2>0, <2>1 DEF IInv, PendingHaveTheKey
  <2>2. CASE t \in Completes /\ writer = t
    <3>1. /\ row = "uploading" /\ row' = "queued" /\ t \in published
          /\ added[t] = {<<"original", t>>} /\ removed[t] = {}
      BY <2>2, CommitKinds, CommitShape, Apart
    <3>2. outbox' = {t}
      BY <3>1, CommitShape DEF IInv, TaskWithStatus
    <3>3. {x \in assets' : x[1] = "original"} = {<<"original", t>>}
      BY <2>0, <2>1, <2>2, <3>1, CommitShape
    <3> QED
      BY <2>2, <3>2, <3>3
  <2>3. ASSUME t \notin published
        PROVE  outbox' = outbox
    BY <2>3, CommitShape
  <2>4. CASE t \in Completes /\ writer # t
    <3>1. /\ <<"original", t>> \in added[t] /\ removed[t] = {} /\ row' = row
          /\ outbox' = outbox
      BY <2>3, <2>4, CommitKinds, CommitShape, CommitRow, Apart
    <3>2. PICK c \in Completes :
            /\ outbox = {c}
            /\ row # "gone" => {x \in assets : x[1] = "original"} = {<<"original", c>>}
      BY <3>1 DEF IInv, OneTask, AssetsOf
    \* A video that is there has its original, and the key was free: this cannot be.
    <3>3. row' = "gone"
      BY <2>1, <2>4, <3>1, <3>2
    <3> QED
      BY <3>1, <3>2, <3>3
  <2>5. CASE t \notin Completes
    <3>1. outbox' = outbox
      BY <2>3, <2>5, CommitKinds, CommitShape
    <3>2. row' # "gone" =>
            {x \in assets' : x[1] = "original"} = {x \in assets : x[1] = "original"}
      <4> SUFFICES ASSUME row' # "gone"
                   PROVE  {x \in assets' : x[1] = "original"}
                            = {x \in assets : x[1] = "original"}
        OBVIOUS
      <4>1. \A r \in added[t] \cup removed[t] : r[1] = "hls"
        BY <2>5, CommitKinds, CommitShape
      <4>2. assets' = (assets \cup added[t]) \ removed[t]
        BY CommitShape
      <4> QED
        BY <4>1, <4>2
    <3>3. row' # "gone" => row # "gone"
      BY CommitRow
    <3> QED
      BY <3>1, <3>2, <3>3 DEF IInv, OneTask, AssetsOf
  <2> QED
    BY <2>2, <2>4, <2>5
<1>13. OneResult'
  <2> SUFFICES ASSUME row' = "ready"
               PROVE  \E r \in Rows : {x \in assets' : x[1] = "hls"} = {r}
    BY DEF OneResult, AssetsOf
  <2>0. /\ row' # "gone" /\ row # "gone"
        /\ files = assets /\ files' = assets' /\ files \subseteq Rows
    BY CommitRow, <1>10 DEF FilesAreAssets, IInv, TypeOK
  <2>1. CASE t \in Finishes
    <3>1. added[t] = {<<"hls", t>>} /\ <<"hls", t>> \notin removed[t]
      BY <2>1, CommitKinds, CommitAdds, CommitShape, Apart
    <3>2. \A s \in files : s[1] = "hls" => s \in removed[t]
      BY <3>1 DEF IInv, PendingHaveTheKey
    <3>3. {x \in assets' : x[1] = "hls"} = {<<"hls", t>>}
      BY <2>0, <3>1, <3>2, CommitShape
    <3>4. <<"hls", t>> \in Rows
      BY DEF Rows, Kinds
    <3> QED
      BY <3>3, <3>4
  <2>2. CASE t \notin Finishes
    <3>1. /\ row = "ready" /\ removed[t] = {}
          /\ \A r \in added[t] : r[1] = "original"
      BY <2>0, <2>2, CommitKinds, CommitShape
    <3>2. {x \in assets' : x[1] = "hls"} = {x \in assets : x[1] = "hls"}
      BY <2>0, <3>1, CommitShape
    <3> QED
      BY <3>1, <3>2 DEF IInv, OneResult, AssetsOf
  <2> QED
    BY <2>1, <2>2
<1> QED
  BY <1>1, <1>2, <1>3, <1>4, <1>5, <1>6, <1>7, <1>8, <1>9, <1>10, <1>11, <1>12, <1>13
     DEF IInv

-----------------------------------------------------------------------------
(* The theorems *)

LEMMA StutterIInv ==
  ASSUME IInv, UNCHANGED vars
  PROVE  IInv'
<1>1. UNCHANGED <<row, files, assets, outbox, writer, newRow, keyShare, pc, seen, added,
                removed, published, reply>>
  BY DEF vars
<1>2. TypeOK'
  BY <1>1 DEF IInv, TypeOK
<1>3. (WrittenByEnded /\ KeysAreUnique /\ PendingHaveTheKey)'
  BY <1>1 DEF IInv, WrittenByEnded, KeysAreUnique, PendingHaveTheKey
<1>4. CompletesAt'
  BY <1>1 DEF IInv, CompletesAt
<1>5. (DeletesAt /\ TicksAt /\ FinishesAt /\ WriterKnowsTheRow)'
  BY <1>1 DEF IInv, DeletesAt, TicksAt, FinishesAt, WriterKnowsTheRow
<1>6. (OneTask /\ TaskWithStatus /\ FilesAreAssets /\ OneResult)'
  BY <1>1 DEF IInv, OneTask, TaskWithStatus, FilesAreAssets, OneResult, AssetsOf
<1> QED
  BY <1>2, <1>3, <1>4, <1>5, <1>6 DEF IInv

LEMMA StatementStep ==
  ASSUME IInv, NEW t \in Txs, Statement(t)
  PROVE  IInv'
<1>1. CASE t \in Completes /\ Complete(t)
  BY <1>1, CompleteBeginStep, CompleteFileStep, CompleteAssetStep, CompleteStatusStep,
     CompletePublishStep, RollbackStep DEF Complete, CompleteRace, Replies
<1>2. CASE t \in Deletes /\ DeleteTx(t)
  BY <1>2, DeleteBeginStep, DeleteSelectStep, DeleteFilesStep, DeleteVideoStep DEF
     DeleteTx
<1>3. CASE t \in Ticks /\ Tick(t)
  BY <1>3, TickUploadingStep, TickProcessingStep DEF Tick
<1>4. CASE t \in Finishes /\ Finish(t)
  BY <1>4, FinishStatusStep, FinishReplaceStep, FinishResultsStep DEF Finish
<1>5. CASE Commit(t)
  BY <1>5, CommitStep
<1>6. CASE Fail(t)
  BY <1>6, RollbackStep DEF Fail, Replies
<1> QED
  BY <1>1, <1>2, <1>3, <1>4, <1>5, <1>6 DEF Statement

LEMMA StepIInv == IInv /\ [Next]_vars => IInv'
<1> SUFFICES ASSUME IInv, [Next]_vars PROVE IInv'
  OBVIOUS
<1>1. CASE UNCHANGED vars
  BY <1>1, StutterIInv
<1>2. ASSUME NEW t \in Txs, Statement(t) PROVE IInv'
  BY <1>2, StatementStep
<1>3. ASSUME NEW t \in Txs, Crash(t) PROVE IInv'
  BY <1>3, RollbackStep DEF Crash, Replies
<1> QED
  BY <1>1, <1>2, <1>3 DEF Next

\* The invariant holds in every reachable state, for any number of transactions.
THEOREM Invariance == Spec => []IInv
BY InitIInv, StepIInv, PTL DEF Spec

\* Tables and transactions keep their shape, and a transaction that has ended has
\* neither a lock nor an uncommitted row left.
THEOREM UploadTypeCorrect == Spec => []TypeOK
<1>1. IInv => TypeOK
  BY DEF IInv
<1> QED
  BY <1>1, Invariance, PTL

\* No half of an asset is left in the tables of a video that is there, and a ready
\* one has its results once.
THEOREM NeverHalf == Spec => []LiveVideoIsWhole
<1>1. IInv => LiveVideoIsWhole
  BY FS_Singleton DEF IInv, FilesAreAssets, OneResult, AssetsOf, LiveVideoIsWhole
<1> QED
  BY <1>1, Invariance, PTL
-----------------------------------------------------------------------------
(* Transactions happen at once: AtomicUpload *)

\* What a request has been answered when it begins, and when it is to commit.
RepliesAt ==
  \A t \in Txs :
    /\ pc[t] \in {"begin", "processing"} => reply[t] = "none"
    /\ pc[t] = "commit" => reply[t] = IF t \in Ticks THEN "none"
                                      ELSE IF t \in Completes \ published THEN "current"
                                      ELSE "accepted"

\* FOR KEY SHARE: from its asset on, a CompleteUpload keeps the video from going.
KeepsVideo ==
  /\ \A c \in Completes : pc[c] \in {"status", "publish", "commit"} => c \in keyShare
  /\ row = "gone" \/ (writer # NoTx /\ newRow = "gone") => keyShare = {}

\* A CompleteUpload that commits no task has come too late.
LateIsTooLate ==
  \A c \in Completes : pc[c] = "commit" /\ c \notin published => row # "uploading"

GoneIsEmpty == row = "gone" => assets = {}

ResultsAreReady == \A r \in assets : r[1] = "hls" => row = "ready"

\* A task in the outbox is the word of its request.
TasksAreAnswered ==
  \A c \in Completes : c \in outbox <=> pc[c] = "done" /\ reply[c] = "accepted"

TInv ==
  /\ IInv
  /\ RepliesAt
  /\ KeepsVideo
  /\ LateIsTooLate
  /\ GoneIsEmpty
  /\ ResultsAreReady
  /\ TasksAreAnswered

\* What justifies an answer of a transaction that has written nothing.
MayRefuse(t, a) ==
  \/ a \in {"error", "lost"}
  \/ a = "missing" /\ row = "gone"
  \/ a = "failed" /\ row = "failed"
  \/ a = "current" /\ \/ t \in Completes /\ row \in {"queued", "ready"}
                      \/ t \in Finishes /\ row # "queued"

\* A step of t that commits nothing: on to s, answered a.
GoesOn(t, s, a) ==
  /\ UNCHANGED <<row, assets, outbox>>
  /\ pc[t] # "done" /\ s # "begin" /\ a \in Replies
  /\ pc' = [pc EXCEPT ![t] = s]
  /\ reply' = [reply EXCEPT ![t] = a]
  /\ \A u \in Txs \ {t} : u \in published' <=> u \in published
  /\ s = "processing" => a = "none"
  /\ s = "commit" =>
       /\ a = IF t \in Ticks THEN "none"
              ELSE IF t \in Completes \ published' THEN "current" ELSE "accepted"
       /\ t \in Completes \ published' => row # "uploading"
  /\ s = "done" => MayRefuse(t, a)
  /\ KeepsVideo'

LEMMA SameReply ==
  ASSUME TypeOK, NEW t \in Txs
  PROVE  reply[t] \in Replies /\ reply = [reply EXCEPT ![t] = reply[t]]
BY DEF TypeOK

LEMMA RollbackGoesOn ==
  ASSUME TInv, NEW t \in Txs, NEW a \in {"error", "lost"}, pc[t] # "done", Rollback(t, a)
  PROVE  GoesOn(t, "done", a)
<1>1. /\ UNCHANGED <<row, assets, outbox>>
      /\ pc' = [pc EXCEPT ![t] = "done"] /\ reply' = [reply EXCEPT ![t] = a]
      /\ published' = published \ {t} /\ keyShare' = keyShare \ {t}
      /\ writer' = IF writer = t THEN NoTx ELSE writer
      /\ newRow' = IF writer = t THEN row ELSE newRow
  BY DEF Rollback, Release, Goto, Answer, tables
<1>2. KeepsVideo'
  BY <1>1 DEF TInv, IInv, TypeOK, KeepsVideo, Txs
<1> QED
  BY <1>1, <1>2 DEF GoesOn, MayRefuse, Replies

LEMMA EndWithGoesOn ==
  ASSUME TInv, NEW t \in Txs, NEW a \in Replies, pc[t] = "begin", EndWith(t, a), MayRefuse(t, a)
  PROVE  GoesOn(t, "done", a)
<1>1. KeepsVideo'
  BY DEF EndWith, Goto, tables, locks, TInv, IInv, TypeOK, KeepsVideo, Txs
<1> QED
  BY <1>1 DEF EndWith, Goto, Answer, tables, locks, local, GoesOn

LEMMA CompleteGoesOn ==
  ASSUME TInv, NEW t \in Completes, Complete(t)
  PROVE  \E s \in Steps, a \in Replies : GoesOn(t, s, a)
<1>0. /\ t \in Txs /\ TypeOK /\ KeepsVideo /\ reply[t] \in Replies
      /\ reply = [reply EXCEPT ![t] = reply[t]]
  BY SameReply DEF TInv, IInv, Txs
<1>1. CASE CompleteBegin(t)
  <2>1. ASSUME row = "uploading", Goto(t, "file"), UNCHANGED <<reply, tables, locks, local>>
        PROVE  GoesOn(t, "file", reply[t])
    <3>1. KeepsVideo'
      BY <1>0, <1>1, <2>1 DEF Goto, tables, locks, TypeOK, KeepsVideo, Txs
    <3> QED
      BY <1>0, <1>1, <2>1, <3>1 DEF CompleteBegin, Goto, tables, local, GoesOn
  <2>2. ASSUME NEW a \in {"current", "failed", "missing"}, MayRefuse(t, a), EndWith(t, a)
        PROVE  GoesOn(t, "done", a)
    BY <1>0, <1>1, <2>2, EndWithGoesOn DEF CompleteBegin, Replies
  <2> QED
    BY <1>0, <1>1, <2>1, <2>2 DEF CompleteBegin, MayRefuse, Steps, Replies
<1>2. CASE CompleteFile(t)
  <2>1. PICK s \in {"asset", "race"} : pc' = [pc EXCEPT ![t] = s]
    BY <1>2 DEF CompleteFile, InsertFile, Goto
  <2>2. pc[t] = "file" /\ UNCHANGED <<tables, locks, published, reply>>
    BY <1>2 DEF CompleteFile
  <2>3. KeepsVideo'
    BY <1>0, <2>1, <2>2 DEF tables, locks, TypeOK, KeepsVideo, Txs
  <2>4. GoesOn(t, s, reply[t])
    BY <1>0, <2>1, <2>2, <2>3 DEF tables, GoesOn
  <2> QED
    BY <1>0, <2>4 DEF Steps
<1>3. CASE CompleteRace(t)
  BY <1>0, <1>3, RollbackGoesOn DEF CompleteRace, Steps, Replies
<1>4. CASE CompleteAsset(t)
  <2>1. PICK s \in {"aborted", "status"} :
          /\ pc' = [pc EXCEPT ![t] = s]
          /\ s = "status" => row # "gone" /\ keyShare' = keyShare \cup {t}
          /\ s # "status" => keyShare' = keyShare
    BY <1>4 DEF CompleteAsset, Goto
  <2>2. pc[t] = "asset" /\ CanRefer(t) /\ UNCHANGED <<tables, writer, newRow, published, reply>>
    BY <1>4 DEF CompleteAsset, local
  <2>3. writer # t
    BY <2>2, Apart, <1>0 DEF TInv, IInv, WriterKnowsTheRow
  <2>4. KeepsVideo'
    BY <1>0, <2>1, <2>2, <2>3 DEF CanRefer, tables, TypeOK, KeepsVideo, Txs
  <2>5. GoesOn(t, s, reply[t])
    BY <1>0, <2>1, <2>2, <2>4 DEF tables, GoesOn
  <2> QED
    BY <1>0, <2>5 DEF Steps
<1>5. CASE CompleteStatus(t)
  <2>1. pc[t] = "status" /\ CanUpdate(t) /\ UNCHANGED <<tables, keyShare, published>>
        /\ t \notin published
    BY <1>5 DEF CompleteStatus, local, TInv, IInv, CompletesAt
  <2>2. CASE row = "uploading"
    <3>1. /\ pc' = [pc EXCEPT ![t] = "publish"] /\ reply' = reply
          /\ newRow' = "queued"
      BY <1>5, <2>2 DEF CompleteStatus, WriteRow, Goto
    <3>2. KeepsVideo'
      BY <1>0, <2>1, <2>2, <3>1 DEF tables, TypeOK, KeepsVideo, Txs
    <3>3. GoesOn(t, "publish", reply[t])
      BY <1>0, <2>1, <3>1, <3>2 DEF tables, GoesOn
    <3> QED
      BY <1>0, <3>3 DEF Steps
  <2>3. CASE row # "uploading"
    <3>1. /\ pc' = [pc EXCEPT ![t] = "commit"] /\ reply' = [reply EXCEPT ![t] = "current"]
          /\ UNCHANGED <<writer, newRow>>
      BY <1>5, <2>3 DEF CompleteStatus, Goto, Answer
    <3>2. KeepsVideo'
      BY <1>0, <2>1, <3>1 DEF tables, TypeOK, KeepsVideo, Txs
    <3>3. GoesOn(t, "commit", "current")
      BY <1>0, <2>1, <2>3, <3>1, <3>2, Apart DEF tables, GoesOn, Replies
    <3> QED
      BY <3>3 DEF Steps, Replies
  <2> QED
    BY <2>2, <2>3
<1>6. CASE CompletePublish(t)
  <2>1. /\ pc[t] = "publish" /\ UNCHANGED <<tables, locks>>
        /\ published' = published \cup {t}
        /\ pc' = [pc EXCEPT ![t] = "commit"] /\ reply' = [reply EXCEPT ![t] = "accepted"]
    BY <1>6 DEF CompletePublish, Goto, Answer
  <2>2. KeepsVideo'
    BY <1>0, <2>1 DEF tables, locks, TypeOK, KeepsVideo, Txs
  <2>3. GoesOn(t, "commit", "accepted")
    BY <1>0, <2>1, <2>2, Apart DEF tables, GoesOn, Replies
  <2> QED
    BY <2>3 DEF Steps, Replies
<1> QED
  BY <1>1, <1>2, <1>3, <1>4, <1>5, <1>6 DEF Complete
LEMMA DeleteGoesOn ==
  ASSUME TInv, NEW t \in Deletes, DeleteTx(t)
  PROVE  \E s \in Steps, a \in Replies : GoesOn(t, s, a)
<1>0. /\ t \in Txs /\ TypeOK /\ KeepsVideo /\ reply[t] \in Replies
      /\ reply = [reply EXCEPT ![t] = reply[t]]
      /\ t \notin Completes /\ t \notin Ticks
  BY SameReply, Apart DEF TInv, IInv, Txs
<1>1. CASE DeleteBegin(t)
  <2>1. ASSUME row # "gone", Goto(t, "select"), UNCHANGED <<reply, tables, locks, local>>
        PROVE  GoesOn(t, "select", reply[t])
    <3>1. KeepsVideo'
      BY <1>0, <2>1 DEF Goto, tables, locks, TypeOK, KeepsVideo, Txs
    <3> QED
      BY <1>0, <1>1, <2>1, <3>1 DEF DeleteBegin, Goto, tables, local, GoesOn
  <2>2. ASSUME row = "gone", EndWith(t, "missing")
        PROVE  GoesOn(t, "done", "missing")
    BY <1>0, <1>1, <2>2, EndWithGoesOn DEF DeleteBegin, MayRefuse, Replies
  <2> QED
    BY <1>0, <1>1, <2>1, <2>2 DEF DeleteBegin, Steps, Replies
<1>2. CASE DeleteSelect(t) \/ DeleteFiles(t)
  <2>1. PICK s \in {"files", "video"} : pc' = [pc EXCEPT ![t] = s]
    BY <1>2 DEF DeleteSelect, DeleteFiles, Goto
  <2>2. pc[t] \in {"select", "files"} /\ UNCHANGED <<tables, locks, published, reply>>
    BY <1>2 DEF DeleteSelect, DeleteFiles
  <2>3. KeepsVideo'
    BY <1>0, <2>1, <2>2 DEF tables, locks, TypeOK, KeepsVideo, Txs
  <2>4. GoesOn(t, s, reply[t])
    BY <1>0, <2>1, <2>2, <2>3 DEF tables, GoesOn
  <2> QED
    BY <1>0, <2>4 DEF Steps
<1>3. CASE DeleteVideo(t)
  <2>1. /\ pc[t] = "video" /\ CanDelete(t) /\ UNCHANGED <<tables, keyShare, published>>
        /\ pc' = [pc EXCEPT ![t] = "commit"] /\ reply' = [reply EXCEPT ![t] = "accepted"]
    BY <1>3 DEF DeleteVideo, Goto, Answer, local
  <2>2. keyShare = {}
    BY <1>0, <2>1 DEF CanDelete, TypeOK
  <2>3. KeepsVideo'
    BY <1>0, <2>1, <2>2 DEF tables, TypeOK, KeepsVideo, Txs
  <2>4. GoesOn(t, "commit", "accepted")
    BY <1>0, <2>1, <2>3 DEF tables, GoesOn, Replies
  <2> QED
    BY <2>4 DEF Steps, Replies
<1> QED
  BY <1>1, <1>2, <1>3 DEF DeleteTx

LEMMA TickGoesOn ==
  ASSUME TInv, NEW t \in Ticks, Tick(t)
  PROVE  \E s \in Steps, a \in Replies : GoesOn(t, s, a)
<1>0. /\ t \in Txs /\ TypeOK /\ KeepsVideo /\ t \notin Completes
      /\ pc[t] \in {"begin", "processing"}
  BY Apart DEF TInv, IInv, Txs, Tick, TickUploading, TickProcessing
<1>1. reply[t] = "none" /\ reply = [reply EXCEPT ![t] = "none"]
  BY <1>0, SameReply DEF TInv, RepliesAt
<1>2. PICK s \in {"processing", "commit"} : pc' = [pc EXCEPT ![t] = s]
  BY DEF Tick, TickUploading, TickProcessing, Goto
<1>3. /\ UNCHANGED <<reply, tables, keyShare, local>>
      /\ \/ row \in {"uploading", "queued"} /\ newRow' = "failed"
         \/ UNCHANGED <<writer, newRow>>
  BY <1>0, Apart DEF Tick, TickUploading, TickProcessing, UpdateTimedOut, RowSeen, WriteRow,
     TInv, IInv, TypeOK, WriterKnowsTheRow
<1>4. KeepsVideo'
  BY <1>0, <1>2, <1>3 DEF tables, TypeOK, KeepsVideo, Txs
<1>5. GoesOn(t, s, "none")
  BY <1>0, <1>1, <1>2, <1>3, <1>4 DEF tables, local, GoesOn, Replies
<1> QED
  BY <1>5 DEF Steps, Replies

LEMMA FinishGoesOn ==
  ASSUME TInv, NEW t \in Finishes, Finish(t)
  PROVE  \E s \in Steps, a \in Replies : GoesOn(t, s, a)
<1>0. /\ t \in Txs /\ TypeOK /\ KeepsVideo /\ reply[t] \in Replies
      /\ reply = [reply EXCEPT ![t] = reply[t]] /\ t \notin Completes /\ t \notin Ticks
  BY SameReply, Apart DEF TInv, IInv, Txs
<1>1. CASE FinishStatus(t)
  <2>1. CASE row = "queued"
    <3>1. /\ pc' = [pc EXCEPT ![t] = "replace"] /\ newRow' = "ready" /\ pc[t] = "begin"
          /\ UNCHANGED <<reply, tables, keyShare, local>>
      BY <1>1, <2>1 DEF FinishStatus, WriteRow, Goto
    <3>2. KeepsVideo'
      BY <1>0, <2>1, <3>1 DEF tables, TypeOK, KeepsVideo, Txs
    <3>3. GoesOn(t, "replace", reply[t])
      BY <1>0, <3>1, <3>2 DEF tables, local, GoesOn
    <3> QED
      BY <1>0, <3>3 DEF Steps
  <2>2. CASE row # "queued"
    BY <1>0, <1>1, <2>2, EndWithGoesOn DEF FinishStatus, MayRefuse, Steps, Replies
  <2> QED
    BY <2>1, <2>2
<1>2. CASE FinishReplace(t)
  <2>1. /\ pc[t] = "replace" /\ pc' = [pc EXCEPT ![t] = "results"]
        /\ UNCHANGED <<tables, locks, published, reply>>
    BY <1>2 DEF FinishReplace, Goto
  <2>2. KeepsVideo'
    BY <1>0, <2>1 DEF tables, locks, TypeOK, KeepsVideo, Txs
  <2>3. GoesOn(t, "results", reply[t])
    BY <1>0, <2>1, <2>2 DEF tables, GoesOn
  <2> QED
    BY <1>0, <2>3 DEF Steps
<1>3. CASE FinishResults(t)
  <2>1. PICK s \in {"commit", "aborted"} : pc' = [pc EXCEPT ![t] = s]
    BY <1>3 DEF FinishResults, InsertFile, Goto
  <2>2. /\ pc[t] = "results" /\ UNCHANGED <<tables, locks, published>>
        /\ reply' = [reply EXCEPT ![t] = "accepted"]
    BY <1>3 DEF FinishResults, Answer
  <2>3. KeepsVideo'
    BY <1>0, <2>1, <2>2 DEF tables, locks, TypeOK, KeepsVideo, Txs
  <2>4. GoesOn(t, s, "accepted")
    BY <1>0, <2>1, <2>2, <2>3 DEF tables, GoesOn, Replies
  <2> QED
    BY <2>4 DEF Steps, Replies
<1> QED
  BY <1>1, <1>2, <1>3 DEF Finish

\* Every step is a commit, or commits nothing.
LEMMA StepsGoOn ==
  ASSUME TInv, NEW t \in Txs, Statement(t) \/ Crash(t), ~ Commit(t)
  PROVE  \E s \in Steps, a \in Replies : GoesOn(t, s, a)
<1>1. CASE Crash(t)
  BY <1>1, RollbackGoesOn DEF Crash, Steps, Replies
<1>2. CASE Fail(t)
  BY <1>2, RollbackGoesOn DEF Fail, Steps, Replies
<1> QED
  BY <1>1, <1>2, CompleteGoesOn, DeleteGoesOn, TickGoesOn, FinishGoesOn DEF Statement

LEMMA GoesOnKeeps ==
  ASSUME TInv, IInv', NEW t \in Txs, NEW s \in Steps, NEW a \in Replies, GoesOn(t, s, a)
  PROVE  TInv'
<1>0. \A u \in Txs \ {t} : pc'[u] = pc[u] /\ reply'[u] = reply[u]
  BY DEF GoesOn, TInv, IInv, TypeOK
<1>1. pc'[t] = s /\ reply'[t] = a
  BY DEF GoesOn, TInv, IInv, TypeOK
<1>2. RepliesAt'
  BY <1>0, <1>1 DEF GoesOn, TInv, RepliesAt
<1>3. LateIsTooLate'
  BY <1>0, <1>1 DEF GoesOn, TInv, LateIsTooLate, Txs
<1>4. GoneIsEmpty' /\ ResultsAreReady'
  BY DEF GoesOn, TInv, GoneIsEmpty, ResultsAreReady
<1>5. TasksAreAnswered'
  BY <1>0, <1>1 DEF GoesOn, MayRefuse, TInv, TasksAreAnswered, Txs
<1> QED
  BY <1>2, <1>3, <1>4, <1>5 DEF GoesOn, TInv

\* The answers that have been given.
Answered == [t \in Txs |-> IF pc[t] = "done" THEN reply[t] ELSE "none"]

LEMMA AnsweredStays ==
  ASSUME TypeOK, NEW t \in Txs, NEW s \in Steps, NEW a \in Replies, pc[t] # "done", s # "done",
         pc' = [pc EXCEPT ![t] = s], reply' = [reply EXCEPT ![t] = a]
  PROVE  Answered' = Answered
<1>1. \A u \in Txs : Answered'[u] = Answered[u]
  BY DEF Answered, TypeOK
<1> QED
  BY <1>1 DEF Answered

LEMMA AnsweredOnce ==
  ASSUME TypeOK, NEW t \in Txs, NEW a \in Replies, pc[t] # "done",
         pc' = [pc EXCEPT ![t] = "done"], reply' = [reply EXCEPT ![t] = a]
  PROVE  Answered[t] = "none" /\ Answered' = [Answered EXCEPT ![t] = a]
<1>1. Answered[t] = "none"
  BY DEF Answered
<1>2. \A u \in Txs : Answered'[u] = IF u = t THEN a ELSE Answered[u]
  BY DEF Answered, TypeOK
<1> QED
  BY <1>1, <1>2 DEF Answered

LEMMA AtomicTxs == Atomic!Txs = Txs
BY DEF Atomic!Txs, Txs

\* What commits nothing is a refusal, or not seen at all.
LEMMA GoesOnMaps ==
  ASSUME TInv, NEW t \in Txs, NEW s \in Steps, NEW a \in Replies, GoesOn(t, s, a)
  PROVE  Atomic!Next \/ UNCHANGED Atomic!vars
<1>0. TypeOK
  BY DEF TInv, IInv
<1>1. CASE s # "done"
  <2>1. Answered' = Answered
    BY <1>0, <1>1, AnsweredStays DEF GoesOn
  <2> QED
    BY <2>1 DEF GoesOn, Atomic!vars, Answered
<1>2. CASE s = "done"
  <2>1. Answered[t] = "none" /\ Answered' = [Answered EXCEPT ![t] = a]
    BY <1>0, <1>2, AnsweredOnce DEF GoesOn
  <2>2. Atomic!Answer(t, a)
    BY <2>1 DEF Atomic!Answer, Answered
  <2>3. MayRefuse(t, a) /\ UNCHANGED <<row, assets, outbox>>
    BY <1>2 DEF GoesOn
  <2>4. Atomic!Refuse(t, a)
    BY <2>2, <2>3 DEF MayRefuse, Atomic!Refuse, Atomic!Settled
  <2>5. a \in {"error", "lost", "missing", "failed", "current"}
    BY <2>3 DEF MayRefuse
  <2> QED
    BY <2>4, <2>5, AtomicTxs DEF Atomic!Next
<1> QED
  BY <1>1, <1>2
\* An upload that is not settled has nothing registered, and a queued one, or one
\* given up, no results.
LEMMA NothingYet ==
  ASSUME TInv
  PROVE  /\ assets \subseteq Rows
         /\ row # "gone" => files = assets
         /\ row # "ready" => \A r \in assets : r[1] = "original"
BY DEF TInv, IInv, TypeOK, ResultsAreReady, FilesAreAssets, Rows, Kinds

\* Whoever registers an original is the first to.
LEMMA FirstOriginal ==
  ASSUME TInv, NEW t \in Txs, <<"original", t>> \in added[t], removed[t] = {}, row # "gone"
  PROVE  \A r \in assets : r[1] # "original"
<1> SUFFICES ASSUME NEW r \in assets, r[1] = "original" PROVE FALSE
  OBVIOUS
<1>1. r \in files
  BY NothingYet
<1>2. <<"original", t>>[1] = r[1]
  OBVIOUS
<1> QED
  BY <1>1, <1>2 DEF TInv, IInv, PendingHaveTheKey

LEMMA CommitAnswers ==
  ASSUME TInv, NEW t \in Txs, Commit(t)
  PROVE  LET a == IF t \in Ticks THEN "none"
                  ELSE IF t \in Completes \ published THEN "current" ELSE "accepted"
         IN  Answered[t] = "none" /\ Answered' = [Answered EXCEPT ![t] = a]
<1> DEFINE a == IF t \in Ticks THEN "none"
                ELSE IF t \in Completes \ published THEN "current" ELSE "accepted"
<1>1. pc[t] = "commit" /\ pc' = [pc EXCEPT ![t] = "done"] /\ reply' = reply
  BY CommitShape DEF TInv
<1>2. reply[t] = a
  BY <1>1 DEF TInv, RepliesAt
<1>3. reply' = [reply EXCEPT ![t] = a] /\ a \in Replies
  BY <1>1, <1>2, SameReply DEF TInv, IInv, Replies
<1> QED
  BY <1>1, <1>3, AnsweredOnce DEF TInv, IInv

\* A commit is the step of AtomicUpload that its transaction stands for.
LEMMA CommitMaps ==
  ASSUME TInv, NEW t \in Txs, Commit(t)
  PROVE  \/ /\ t \in Completes /\ row = "uploading" /\ row' = "queued"
            /\ assets' = {<<"original", t>>} /\ Atomic!Accept(t)
         \/ /\ t \in Completes /\ row = "failed" /\ row' = "failed"
            /\ assets' = {<<"original", t>>} /\ Atomic!Register(t)
         \/ /\ t \in Deletes /\ row' = "gone" /\ assets' = {} /\ Atomic!Delete(t)
         \/ /\ row \in {"uploading", "queued"} /\ row' = "failed" /\ assets' = assets
            /\ Atomic!GiveUp
         \/ row' = row /\ assets' = assets /\ UNCHANGED Atomic!vars
         \/ t \in Finishes /\ row' = "ready" /\ Atomic!Publish(t)
<1> DEFINE a == IF t \in Ticks THEN "none"
                ELSE IF t \in Completes \ published THEN "current" ELSE "accepted"
<1>0. IInv /\ TypeOK /\ pc[t] = "commit"
  BY CommitShape DEF TInv, IInv
<1>1. /\ row' = IF writer = t THEN newRow ELSE row
      /\ assets' = IF row' = "gone" THEN {} ELSE (assets \cup added[t]) \ removed[t]
      /\ outbox' = outbox \cup (published \cap {t})
  BY <1>0, CommitShape
<1>2. Answered[t] = "none" /\ Answered' = [Answered EXCEPT ![t] = a]
  BY CommitAnswers
<1>3. ASSUME NEW b, a = b PROVE Atomic!Answer(t, b)
  BY <1>2, <1>3 DEF Atomic!Answer, Answered
<1> HIDE DEF a
<1>4. CASE t \in Completes /\ writer = t
  <2>1. /\ row = "uploading" /\ newRow = "queued" /\ t \in published
        /\ added[t] = {<<"original", t>>} /\ removed[t] = {}
    BY <1>0, <1>4, CommitKinds, Apart
  <2>2. assets = {} /\ outbox = {}
    BY <2>1, NothingYet, FirstOriginal DEF TInv, IInv, TaskWithStatus
  <2>3. row' = "queued" /\ assets' = {<<"original", t>>} /\ outbox' = {t}
    BY <1>1, <1>4, <2>1, <2>2
  <2>4. Atomic!Answer(t, "accepted")
    BY <1>3, <1>4, <2>1, Apart DEF a
  <2> QED
    BY <1>4, <2>1, <2>3, <2>4 DEF Atomic!Accept
<1>5. CASE t \in Completes /\ writer # t
  <2>1. t \notin published /\ added[t] = {<<"original", t>>} /\ removed[t] = {}
    BY <1>0, <1>5, CommitKinds, Apart
  <2>2. row # "uploading" /\ row # "gone"
    BY <1>0, <1>5, <2>1 DEF TInv, LateIsTooLate, KeepsVideo
  <2>3. \A r \in assets : r[1] # "original"
    BY <2>1, <2>2, FirstOriginal
  <2>4. row \notin {"queued", "ready"}
    BY <2>2, <2>3 DEF TInv, IInv, OneTask, TaskWithStatus, AssetsOf
  <2>5. row = "failed"
    BY <1>0, <2>2, <2>4 DEF TypeOK, Statuses
  <2>6. assets = {}
    BY <2>3, <2>5, NothingYet
  <2>7. row' = "failed" /\ assets' = {<<"original", t>>} /\ outbox' = outbox
    <3>1. row' = "failed" /\ published \cap {t} = {}
      BY <1>1, <1>5, <2>1, <2>5
    <3> QED
      BY <1>1, <2>1, <2>6, <3>1
  <2>8. Atomic!Answer(t, "current")
    BY <1>3, <1>5, <2>1, Apart DEF a
  <2> QED
    BY <1>5, <2>5, <2>6, <2>7, <2>8 DEF Atomic!Register
<1>6. CASE t \in Deletes
  <2>1. t \notin published /\ ((writer = t /\ newRow = "gone") \/ (writer # t /\ row = "gone"))
    BY <1>0, <1>6, CommitKinds, Apart
  <2>2. row' = "gone" /\ assets' = {} /\ outbox' = outbox
    <3>1. row' = "gone" /\ published \cap {t} = {}
      BY <1>1, <2>1
    <3> QED
      BY <1>1, <3>1
  <2>3. Atomic!Answer(t, "accepted")
    BY <1>3, <1>6, Apart DEF a
  <2> QED
    BY <1>6, <2>2, <2>3 DEF Atomic!Delete
<1>7. CASE t \in Ticks
  <2>1. /\ t \notin published /\ added[t] = {} /\ removed[t] = {}
        /\ writer = t => row \in {"uploading", "queued"} /\ newRow = "failed"
    BY <1>0, <1>7, CommitKinds, Apart
  <2>2. outbox' = outbox /\ (row' # "gone" => assets' = assets)
    <3>1. published \cap {t} = {}
      BY <2>1
    <3> QED
      BY <1>1, <2>1, <3>1
  <2>3. Answered' = Answered
    BY <1>2, <1>7 DEF a, Answered
  <2>4. CASE writer = t
    <3>1. row' = "failed" /\ assets' = assets
      BY <1>1, <2>1, <2>2, <2>4
    <3> QED
      BY <2>1, <2>2, <2>3, <2>4, <3>1 DEF Atomic!GiveUp, Answered
  <2>5. CASE writer # t
    <3>1. row' = row
      BY <1>1, <2>5
    <3>2. assets' = assets
      BY <1>1, <2>2, <3>1 DEF TInv, GoneIsEmpty
    <3> QED
      BY <2>2, <2>3, <3>1, <3>2 DEF Atomic!vars, Answered
  <2> QED
    BY <2>4, <2>5
<1>8. CASE t \in Finishes
  <2>1. /\ writer = t /\ row = "queued" /\ newRow = "ready" /\ t \notin published
        /\ added[t] = {<<"hls", t>>} /\ \A r \in removed[t] : r[1] = "hls"
    BY <1>0, <1>8, CommitKinds, Apart
  <2>2. <<"hls", t>> \notin removed[t]
    BY <1>0, <2>1, CommitAdds
  <2>3. removed[t] \cap assets = {}
    BY <2>1, NothingYet
  <2>4. row' = "ready" /\ assets' = assets \cup {<<"hls", t>>} /\ outbox' = outbox
    <3>1. row' = "ready" /\ published \cap {t} = {}
      BY <1>1, <2>1
    <3> QED
      BY <1>1, <2>1, <2>2, <2>3, <3>1
  <2>5. Atomic!Answer(t, "accepted")
    BY <1>3, <1>8, Apart DEF a
  <2> QED
    BY <1>8, <2>1, <2>4, <2>5 DEF Atomic!Publish
<1> QED
  BY <1>4, <1>5, <1>6, <1>7, <1>8 DEF Txs

LEMMA CommitKeeps ==
  ASSUME TInv, NEW t \in Txs, Commit(t)
  PROVE  TInv'
<1>1. IInv' /\ TypeOK
  BY CommitStep DEF TInv, IInv
<1>2. /\ published' = published \ {t} /\ keyShare' = keyShare \ {t}
      /\ writer' = IF writer = t THEN NoTx ELSE writer
      /\ newRow' = IF writer = t THEN row' ELSE newRow
      /\ pc' = [pc EXCEPT ![t] = "done"] /\ reply' = reply
      /\ row' = IF writer = t THEN newRow ELSE row
  BY <1>1, CommitShape DEF TInv
<1>3. RepliesAt'
  BY <1>1, <1>2 DEF TInv, TypeOK, RepliesAt
<1>4. KeepsVideo'
  BY <1>1, <1>2, Apart DEF TInv, TypeOK, KeepsVideo, Txs
<1>5. LateIsTooLate'
  <2>1. row # "uploading" => row' # "uploading"
    BY CommitMaps
  <2> QED
    BY <1>1, <1>2, <2>1 DEF TInv, TypeOK, LateIsTooLate, Txs
<1>6. GoneIsEmpty'
  BY <1>1, CommitShape DEF TInv, GoneIsEmpty
<1>7. ResultsAreReady'
  BY CommitMaps DEF TInv, ResultsAreReady
<1>8. TasksAreAnswered'
  <2>1. outbox' = outbox \cup (published \cap {t}) /\ pc[t] = "commit"
    BY CommitShape DEF TInv
  <2>2. t \in Completes => (reply[t] = "accepted" <=> t \in published)
    BY <2>1, Apart DEF TInv, RepliesAt
  <2> QED
    BY <1>1, <1>2, <2>1, <2>2 DEF TInv, TypeOK, TasksAreAnswered, Txs
<1> QED
  BY <1>1, <1>3, <1>4, <1>5, <1>6, <1>7, <1>8 DEF TInv

LEMMA AtomicStep == TInv /\ [Next]_vars => TInv' /\ (Atomic!Next \/ UNCHANGED Atomic!vars)
<1> SUFFICES ASSUME TInv, [Next]_vars PROVE TInv' /\ (Atomic!Next \/ UNCHANGED Atomic!vars)
  OBVIOUS
<1>1. IInv'
  BY StepIInv DEF TInv
<1>2. ASSUME NEW t \in Txs, Statement(t) \/ Crash(t), ~ Commit(t)
      PROVE  TInv' /\ (Atomic!Next \/ UNCHANGED Atomic!vars)
  BY <1>1, <1>2, StepsGoOn, GoesOnKeeps, GoesOnMaps
<1>3. ASSUME NEW t \in Txs, Commit(t)
      PROVE  TInv' /\ (Atomic!Next \/ UNCHANGED Atomic!vars)
  <2>1. Atomic!Next \/ UNCHANGED Atomic!vars
    BY <1>3, CommitMaps DEF Atomic!Next
  <2> QED
    BY <1>3, <2>1, CommitKeeps
<1>4. CASE UNCHANGED vars
  <2>1. UNCHANGED <<row, assets, outbox, writer, newRow, keyShare, pc, published, reply>>
    BY <1>4 DEF vars
  <2>2. UNCHANGED Atomic!vars
    BY <2>1 DEF Atomic!vars
  <2>3. RepliesAt' /\ KeepsVideo' /\ LateIsTooLate' /\ GoneIsEmpty' /\ ResultsAreReady'
        /\ TasksAreAnswered'
    BY <2>1 DEF TInv, RepliesAt, KeepsVideo, LateIsTooLate, GoneIsEmpty, ResultsAreReady,
       TasksAreAnswered
  <2> QED
    BY <1>1, <2>2, <2>3 DEF TInv
<1> QED
  BY <1>2, <1>3, <1>4 DEF Next

LEMMA InitTInv == Init => TInv
<1> SUFFICES ASSUME Init PROVE TInv
  OBVIOUS
<1>1. /\ RepliesAt /\ KeepsVideo /\ LateIsTooLate /\ GoneIsEmpty /\ ResultsAreReady
      /\ TasksAreAnswered
  BY TxAssumption
     DEF Init, RepliesAt, KeepsVideo, LateIsTooLate, GoneIsEmpty, ResultsAreReady,
     TasksAreAnswered, Txs
<1> QED
  BY <1>1, InitIInv DEF TInv

\* Statements of any number of requests, ticks and deliveries, with their locks,
\* broken constraints and crashes, are seen as requests that happen at once.
THEOREM UploadIsAtomic == Spec => ImplementsAtomic
<1>1. Init => Atomic!Init
  BY AtomicTxs DEF Init, Atomic!Init
<1> QED
  BY <1>1, InitTInv, AtomicStep, PTL DEF Spec, ImplementsAtomic, Atomic!Spec

\* Whatever requests, ticks, deletions and results meet, an upload is accepted once:
\* there is one task, of the one request that was answered so, with its original,
\* and the status is never ahead of them.
THEOREM AcceptedOnce == Spec => []AcceptedAsAWhole
<1>1. TInv => AcceptedAsAWhole
  BY DEF TInv, IInv, OneTask, TaskWithStatus, TasksAreAnswered, AssetsOf, AcceptedAsAWhole
<1> QED
  BY <1>1, InitTInv, AtomicStep, PTL DEF Spec

-----------------------------------------------------------------------------
(* Nobody waits for ever: the locks are taken in an order *)

\* No other transaction has deleted one of these files and not committed.
MayDelete(t, rows) == \A u \in Txs \ {t} : removed[u] \cap rows = {}

\* The next statement of t waits for nobody.
CanGoOn(t) ==
  /\ pc[t] = "file" => ~ KeyIsContended(t, "original")
  /\ pc[t] = "asset" => CanRefer(t)
  /\ pc[t] = "status" => CanUpdate(t)
  /\ pc[t] = "files" => MayDelete(t, seen[t])
  /\ pc[t] = "video" => CanDelete(t)
  /\ pc[t] = "processing" => (row = "queued" => CanUpdate(t))
  /\ pc[t] = "replace" => MayDelete(t, AssetsOf("hls"))
  /\ pc[t] = "results" => ~ KeyIsContended(t, "hls")

Running == {t \in Txs : pc[t] \notin {"begin", "done"}}

SomebodyGoesOn == Running # {} => \E t \in Running : CanGoOn(t)

\* Where a transaction can hold what another one waits for.
LocksAt ==
  /\ \A c \in keyShare : pc[c] \in {"status", "publish", "commit"}
  /\ \A d \in Deletes : removed[d] # {} => pc[d] \in {"video", "commit"}
  /\ \A f \in Finishes : removed[f] = {}

\* Results are selected and deleted only when there can be no more of them.
ResultsCameBefore ==
  \A t \in Txs : \A r \in seen[t] \cup removed[t] : r[1] = "hls" => row \in {"ready", "gone"}

NInv == TInv /\ LocksAt /\ ResultsCameBefore

\* Who has taken the lock of the video's row waits for nobody.
LEMMA WriterGoesOn ==
  ASSUME NInv, writer # NoTx
  PROVE  writer \in Running /\ CanGoOn(writer)
<1> DEFINE w == writer
<1>1. w \in Running
  BY DEF NInv, TInv, IInv, TypeOK, Running
<1>2. CASE w \notin Finishes
  BY <1>1, <1>2, Apart
     DEF NInv, TInv, IInv, TypeOK, TicksAt, WriterKnowsTheRow, Running, CanGoOn, CanUpdate,
     Txs
<1>3. CASE w \in Finishes
  <2>1. pc[w] \in {"replace", "results", "commit", "aborted"} /\ row = "queued"
    BY <1>1, <1>3, Apart DEF NInv, TInv, IInv, FinishesAt, WriterKnowsTheRow, Running
  <2>2. AssetsOf("hls") = {}
    BY <2>1 DEF NInv, TInv, ResultsAreReady, AssetsOf
  <2>3. ASSUME NEW u \in Txs \ {w}, NEW r \in added[u], r[1] = "hls" PROVE FALSE
    <3>1. CASE u \in Completes
      <4>1. added[u] \subseteq {<<"original", u>>}
        BY <3>1 DEF NInv, TInv, IInv, CompletesAt
      <4> QED
        BY <2>3, <4>1
    <3>2. CASE u \in Deletes \cup Ticks
      BY <2>3, <3>2 DEF NInv, TInv, IInv, DeletesAt, TicksAt
    <3>3. CASE u \in Finishes
      BY <2>3, <3>3 DEF NInv, TInv, IInv, FinishesAt
    <3> QED
      BY <3>1, <3>2, <3>3 DEF Txs
  <2>4. ASSUME NEW u \in Txs, NEW r \in removed[u], r[1] = "hls" PROVE FALSE
    BY <2>1, <2>4 DEF NInv, ResultsCameBefore
  <2>5. ~ KeyIsContended(w, "hls")
    BY <2>3, <2>4 DEF KeyIsContended
  <2>6. MayDelete(w, AssetsOf("hls"))
    BY <2>2 DEF MayDelete
  <2> QED
    BY <1>1, <2>1, <2>5, <2>6 DEF CanGoOn
<1> QED
  BY <1>1, <1>2, <1>3

\* While nobody has it, a CompleteUpload with the foreign key waits for nobody, a
\* Delete that has deleted files waits only for such an upload, and the others
\* only for what these two hold.
LEMMA FreeRowGoesOn ==
  ASSUME NInv, writer = NoTx, Running # {}
  PROVE  \E t \in Running : CanGoOn(t)
<1>1. PICK t \in Running : TRUE
  OBVIOUS
<1>2. \A u \in Running : pc[u] \in Steps \ {"begin", "done"} /\ u \in Txs
  BY DEF NInv, TInv, IInv, TypeOK, Running
<1>3. \A u \in Running : pc[u] \notin {"replace", "results"}
  BY <1>2, Apart
     DEF NInv, TInv, IInv, CompletesAt, DeletesAt, TicksAt, FinishesAt, Running, Txs
<1>4. CASE \E u \in Running : pc[u] \notin {"file", "files", "video"}
  BY <1>3, <1>4 DEF CanGoOn, CanRefer, CanUpdate
<1>5. CASE \A u \in Running : pc[u] \in {"file", "files", "video"}
  <2>1. keyShare = {}
    BY <1>5 DEF NInv, TInv, IInv, TypeOK, LocksAt, Running, Txs
  <2>2. CASE \E u \in Running : pc[u] = "video"
    BY <2>1, <2>2 DEF CanGoOn, CanDelete, CanUpdate
  <2>3. CASE \A u \in Running : pc[u] \in {"file", "files"}
    <3>1. \A u \in Txs : removed[u] = {}
      BY <2>3 DEF NInv, TInv, IInv, TypeOK, CompletesAt, TicksAt, LocksAt, Running, Txs
    <3>2. \A u \in Txs : added[u] = {}
      BY <2>3, Apart
         DEF NInv, TInv, IInv, CompletesAt, DeletesAt, TicksAt, FinishesAt, TypeOK, Running, Txs
    <3> QED
      BY <1>1, <2>3, <3>1, <3>2 DEF CanGoOn, KeyIsContended, MayDelete
  <2> QED
    BY <1>5, <2>2, <2>3
<1> QED
  BY <1>4, <1>5

\* A transaction that ends lets go of all it had.
LEMMA EndKeepsOrder ==
  ASSUME NInv, NEW t \in Txs, row \in {"ready", "gone"} => row' \in {"ready", "gone"},
         keyShare' = keyShare \ {t}, removed' = [removed EXCEPT ![t] = {}],
         seen' = [seen EXCEPT ![t] = {}], pc' = [pc EXCEPT ![t] = "done"]
  PROVE  LocksAt' /\ ResultsCameBefore'
<1>1. TypeOK
  BY DEF NInv, TInv, IInv
<1>2. \A u \in Txs \ {t} : removed'[u] = removed[u] /\ seen'[u] = seen[u] /\ pc'[u] = pc[u]
  BY <1>1 DEF TypeOK
<1>3. removed'[t] = {} /\ seen'[t] = {}
  BY <1>1 DEF TypeOK
<1>4. LocksAt'
  BY <1>1, <1>2, <1>3 DEF NInv, LocksAt, TypeOK, Txs
<1>5. ResultsCameBefore'
  BY <1>2, <1>3 DEF NInv, ResultsCameBefore
<1> QED
  BY <1>4, <1>5

\* A step to s that takes no lock.
LEMMA QuietKeepsOrder ==
  ASSUME NInv, NEW t \in Txs, NEW s \in Steps, UNCHANGED <<row, keyShare, removed, seen>>,
         pc' = [pc EXCEPT ![t] = s],
         t \in keyShare => s \in {"status", "publish", "commit"},
         t \in Deletes => removed[t] = {} \/ s = "commit"
  PROVE  LocksAt' /\ ResultsCameBefore'
<1>1. TypeOK
  BY DEF NInv, TInv, IInv
<1>2. LocksAt'
  BY <1>1 DEF NInv, LocksAt, TypeOK, Txs
<1>3. ResultsCameBefore'
  BY DEF NInv, ResultsCameBefore
<1> QED
  BY <1>2, <1>3

LEMMA CompleteKeepsOrder ==
  ASSUME NInv, NEW t \in Completes, Complete(t)
  PROVE  LocksAt' /\ ResultsCameBefore'
<1>1. /\ TypeOK /\ t \in Txs /\ t \notin Deletes /\ t \notin Finishes
      /\ t \in keyShare => pc[t] \in {"status", "publish", "commit"}
  BY Apart DEF NInv, TInv, IInv, LocksAt, Txs
<1>2. CASE CompleteBegin(t)
  BY <1>1, <1>2, QuietKeepsOrder
     DEF CompleteBegin, EndWith, Goto, tables, locks, local, Steps
<1>3. CASE CompleteFile(t)
  BY <1>1, <1>3, QuietKeepsOrder DEF CompleteFile, InsertFile, Goto, tables, locks, Steps
<1>4. CASE CompleteRace(t)
  BY <1>1, <1>4, EndKeepsOrder DEF CompleteRace, Rollback, Release, Goto, tables
<1>5. CASE CompleteAsset(t)
  <2>1. UNCHANGED <<row, removed, seen>> /\ pc[t] = "asset"
    BY <1>5 DEF CompleteAsset, tables, local
  <2>2. CASE row = "gone"
    BY <1>1, <1>5, <2>1, <2>2, QuietKeepsOrder DEF CompleteAsset, Goto, Steps
  <2>3. CASE row # "gone"
    <3>1. pc' = [pc EXCEPT ![t] = "status"] /\ keyShare' = keyShare \cup {t}
      BY <1>5, <2>3 DEF CompleteAsset, Goto
    <3>2. LocksAt'
      BY <1>1, <2>1, <3>1 DEF NInv, LocksAt, TypeOK, Txs
    <3>3. ResultsCameBefore'
      BY <2>1 DEF NInv, ResultsCameBefore
    <3> QED
      BY <3>2, <3>3
  <2> QED
    BY <2>2, <2>3
<1>6. CASE CompleteStatus(t)
  BY <1>1, <1>6, QuietKeepsOrder DEF CompleteStatus, Goto, tables, local, Steps
<1>7. CASE CompletePublish(t)
  BY <1>1, <1>7, QuietKeepsOrder DEF CompletePublish, Goto, tables, locks, Steps
<1> QED
  BY <1>2, <1>3, <1>4, <1>5, <1>6, <1>7 DEF Complete

LEMMA DeleteKeepsOrder ==
  ASSUME NInv, NEW t \in Deletes, DeleteTx(t)
  PROVE  LocksAt' /\ ResultsCameBefore'
<1>1. /\ TypeOK /\ t \in Txs /\ t \notin keyShare /\ t \notin Finishes
      /\ removed[t] # {} => pc[t] \in {"video", "commit"}
  BY Apart DEF NInv, TInv, IInv, TypeOK, LocksAt, Txs
<1>2. CASE DeleteBegin(t)
  BY <1>1, <1>2, QuietKeepsOrder DEF DeleteBegin, EndWith, Goto, tables, locks, local, Steps
<1>3. CASE DeleteSelect(t)
  <2>1. /\ UNCHANGED <<row, assets, keyShare, removed>> /\ pc[t] = "select"
        /\ pc' = [pc EXCEPT ![t] = "files"] /\ seen' = [seen EXCEPT ![t] = assets]
    BY <1>3 DEF DeleteSelect, Goto, tables, locks
  <2>2. LocksAt'
    BY <1>1, <2>1 DEF NInv, LocksAt, TypeOK, Txs
  <2>3. \A u \in Txs \ {t} : seen'[u] = seen[u]
    BY <1>1, <2>1 DEF TypeOK
  <2>4. seen'[t] = assets
    BY <1>1, <2>1 DEF TypeOK
  <2>5. ResultsCameBefore'
    BY <2>1, <2>3, <2>4 DEF NInv, TInv, ResultsAreReady, ResultsCameBefore
  <2> QED
    BY <2>2, <2>5
<1>4. CASE DeleteFiles(t)
  <2>1. /\ UNCHANGED <<row, keyShare, seen>> /\ pc[t] = "files"
        /\ pc' = [pc EXCEPT ![t] = "video"]
        /\ removed' = [removed EXCEPT ![t] = seen[t] \cap files]
    BY <1>4 DEF DeleteFiles, Goto, tables, locks
  <2>2. \A u \in Txs \ {t} : removed'[u] = removed[u] /\ pc'[u] = pc[u]
    BY <1>1, <2>1 DEF TypeOK
  <2>3. removed'[t] \subseteq seen[t] /\ pc'[t] = "video"
    BY <1>1, <2>1 DEF TypeOK
  <2>4. LocksAt'
    BY <1>1, <2>1, <2>2, <2>3 DEF NInv, LocksAt, TypeOK, Txs
  <2>5. ResultsCameBefore'
    BY <2>1, <2>2, <2>3 DEF NInv, ResultsCameBefore
  <2> QED
    BY <2>4, <2>5
<1>5. CASE DeleteVideo(t)
  BY <1>1, <1>5, QuietKeepsOrder DEF DeleteVideo, Goto, tables, local, Steps
<1> QED
  BY <1>2, <1>3, <1>4, <1>5 DEF DeleteTx

LEMMA FinishKeepsOrder ==
  ASSUME NInv, NEW t \in Finishes, Finish(t)
  PROVE  LocksAt' /\ ResultsCameBefore'
<1>1. /\ TypeOK /\ t \in Txs /\ t \notin keyShare /\ t \notin Deletes
      /\ removed[t] = {}
  BY Apart DEF NInv, TInv, IInv, TypeOK, LocksAt, Txs
<1>2. CASE FinishStatus(t)
  BY <1>1, <1>2, QuietKeepsOrder DEF FinishStatus, EndWith, Goto, tables, locks, local, Steps
<1>3. CASE FinishReplace(t)
  <2>1. row = "queued"
    BY <1>1, <1>3, Apart
       DEF FinishReplace, NInv, TInv, IInv, FinishesAt, WriterKnowsTheRow
  <2>2. {r \in assets : r[1] = "hls"} = {}
    BY <2>1 DEF NInv, TInv, ResultsAreReady
  <2>3. removed' = [removed EXCEPT ![t] = {}]
    BY <1>3, <2>2 DEF FinishReplace
  <2>4. removed' = removed
    BY <1>1, <2>3 DEF TypeOK
  <2> QED
    BY <1>1, <1>3, <2>4, QuietKeepsOrder DEF FinishReplace, Goto, tables, locks, Steps
<1>4. CASE FinishResults(t)
  BY <1>1, <1>4, QuietKeepsOrder DEF FinishResults, InsertFile, Goto, tables, locks, Steps
<1> QED
  BY <1>2, <1>3, <1>4 DEF Finish

LEMMA NInvStep == NInv /\ [Next]_vars => NInv'
<1> SUFFICES ASSUME NInv, [Next]_vars PROVE NInv'
  OBVIOUS
<1>1. TInv'
  BY AtomicStep DEF NInv
<1>2. ASSUME NEW t \in Txs, NEW a \in Replies, Rollback(t, a) PROVE NInv'
  BY <1>1, <1>2, EndKeepsOrder DEF Rollback, Release, Goto, tables, NInv
<1>3. ASSUME NEW t \in Txs, Commit(t) PROVE NInv'
  <2>1. row \in {"ready", "gone"} => row' \in {"ready", "gone"}
    BY <1>3, CommitShape, CommitKinds DEF NInv, TInv
  <2> QED
    BY <1>1, <1>3, <2>1, CommitShape, EndKeepsOrder DEF NInv, TInv
<1>4. ASSUME NEW t \in Ticks, Tick(t) PROVE NInv'
  <2>1. t \in Txs /\ t \notin keyShare /\ t \notin Deletes
    BY Apart DEF NInv, TInv, IInv, TypeOK, Txs
  <2> QED
    BY <1>1, <1>4, <2>1, QuietKeepsOrder
       DEF Tick, TickUploading, TickProcessing, Goto, tables, local, Steps, NInv
<1>5. CASE UNCHANGED vars
  BY <1>1, <1>5 DEF vars, NInv, LocksAt, ResultsCameBefore
<1> QED
  BY <1>1, <1>2, <1>3, <1>4, <1>5, CompleteKeepsOrder, DeleteKeepsOrder, FinishKeepsOrder
     DEF Next, Statement, Fail, Crash, Replies, NInv

\* However many requests, ticks and deliveries meet, and whatever each of them has
\* locked, one of those that have begun can go on: no deadlock, on none of the
\* orders in which files, assets, outbox and video are written.
THEOREM NoDeadlock == Spec => []SomebodyGoesOn
<1>1. Init => NInv
  <2> SUFFICES ASSUME Init PROVE NInv
    OBVIOUS
  <2>1. TInv
    BY InitTInv
  <2> QED
    BY <2>1 DEF Init, NInv, LocksAt, ResultsCameBefore, Txs
<1>2. NInv => SomebodyGoesOn
  BY WriterGoesOn, FreeRowGoesOn DEF SomebodyGoesOn
<1> QED
  BY <1>1, <1>2, NInvStep, PTL DEF Spec
=============================================================================
