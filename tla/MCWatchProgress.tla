--------------------------- MODULE MCWatchProgress ---------------------------
EXTENDS WatchProgress, TLC

\* Heartbeats in flight are alike, users and sessions are not told apart.
WatchSymmetry == Permutations(Requests) \cup Permutations(Sessions) \cup Permutations(Users)
=============================================================================
