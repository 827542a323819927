------------------------------ MODULE MCDirectory ------------------------------
EXTENDS Directory, TLC

\* One address, whose rows are the most that a check could miss.
OneEmail == [u \in Users |-> CHOOSE email \in Emails : TRUE]

\* The links are for the rows in turn.
LinksInTurn == CHOOSE f \in [Links -> Users] :
  Users = {f[t] : t \in Links}

\* The roles of managers are alike, and so are the requests in flight.
DirectorySymmetry == Permutations(Roles) \cup Permutations(Clients)
=============================================================================
