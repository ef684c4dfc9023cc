-------------------------- MODULE MCServerConnect --------------------------
(* Instances of ServerConnect for TLC. *)
EXTENDS ServerConnect, TLC

CONSTANTS c1, c2, c3, h1, h2

TwoClients == {c1, c2}
ThreeClients == {c1, c2, c3}
OneSlot == {0}
TwoSlots == {0, 1}
TwoHosts == {h1, h2}
\* The first two clients come from one address.
SharedHost == [c \in Client |-> IF c \in {c1, c2} THEN h1 ELSE h2]
\* Clients of one address policy are interchangeable when all may be lost.
Symmetry == Permutations(Client)

Nobody == {}
OnlyC1 == {c1}
=============================================================================
