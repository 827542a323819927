--------------------------- MODULE MCVideoPipeline ---------------------------
(* Instances of VideoPipeline for TLC; the values are in the .cfg files. *)
EXTENDS VideoPipeline, TLC

\* The clients are interchangeable.
ClientSymmetry == Permutations(Clients)

\* So are the videos, as long as no property is about time to come.
VideoSymmetry == Permutations(Videos)

\* The lanes are about the videos that still have a queue to wait in: a settled
\* one changes nothing for the others, and the run goes no further with it.
NoneSettled == \A v \in Videos : status[v] \in Unsettled \cup {"none"}
=============================================================================
