--------------------------- MODULE MCMasterServer ---------------------------
(* Instances of MasterServer for TLC. *)
EXTENDS MasterServer, TLC

CONSTANTS r1, r2, self, s1

TwoRequests == {r1, r2}
\* Requests differ only in what their clients choose to ask.
Symmetry == Permutations(Request)
TwoServers == {self, s1}
\* Every server is a master and every list is the whole list.
OneGame == {Master}
=============================================================================
