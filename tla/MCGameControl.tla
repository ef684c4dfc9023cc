--------------------------- MODULE MCGameControl ---------------------------
(* Instances of GameControl for TLC. *)
EXTENDS GameControl, TLC

CONSTANTS p1, p2, p3, p4, p5, p6, p7, p8, p9, p10

TwoPlayers == {p1, p2}
TenPlayers == {p1, p2, p3, p4, p5, p6, p7, p8, p9, p10}
AllModes == {"teams", "dedicated", "loopback"}
OnlyTeams == {"teams"}

Split(S) == [t \in Teams |-> Cardinality({p \in S : team[p] = t})]

\* In a game of teams the slots are interchangeable, so two states with as many
\* slots of every kind are one.  A slot is active, vacated since the last drain or
\* neither, and never two of these, since it is taken again only after the drain.
View == <<mode, cycle, profiles, ballot, alive, calls,
          Cardinality(active), Split(active), Cardinality(left), Split(left),
          Split(Players),
          IF connecting = NoPlayer THEN << >>
                                   ELSE <<connecting \in left, team[connecting]>> >>
=============================================================================
