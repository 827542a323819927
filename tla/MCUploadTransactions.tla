------------------------ MODULE MCUploadTransactions ------------------------
(* Instances of UploadTransactions for TLC; the values are in the .cfg files. *)
EXTENDS UploadTransactions, TLC

\* Of each kind of request as many as can disagree with each other about the video.
=============================================================================
