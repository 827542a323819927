---------------------------- MODULE MCAssignments ----------------------------
EXTENDS Assignments, TLC

\* Requests in flight are alike, and so are assignments.
ClientSymmetry == Permutations(Clients) \cup Permutations(Assignments)

\* And so are users when none of them oversees all groups.
UserSymmetry == Permutations(Clients) \cup Permutations(Users)
=============================================================================
