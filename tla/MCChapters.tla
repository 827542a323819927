------------------------------ MODULE MCChapters ------------------------------
EXTENDS Chapters, TLC

\* The rows of chapters are alike, and so are the requests in flight.
ChapterSymmetry == Permutations(Ids) \cup Permutations(Clients)
=============================================================================
