---------------------------- MODULE JoinService ----------------------------
(***************************************************************************)
(* What the netPanzer server promises to those who want to play: they are  *)
(* let in one at a time, in the order they asked, and never more of them   *)
(* than there are player slots.                                            *)
(***************************************************************************)
EXTENDS Naturals, FiniteSets, Sequences

CONSTANTS Client, NoClient, Capacity

VARIABLES waiting, serving, seated
vars == <<waiting, serving, seated>>

\* The queue w after the one at place i has left it.
LeftAt(w, i) == SubSeq(w, 1, i - 1) \o SubSeq(w, i + 1, Len(w))

Init == waiting = << >> /\ serving = NoClient /\ seated = {}

Waits(c) == \E i \in 1..Len(waiting) : waiting[i] = c

Join(c) ==
  /\ ~Waits(c) /\ serving # c /\ c \notin seated
  /\ waiting' = Append(waiting, c)
  /\ UNCHANGED <<serving, seated>>

\* First come, first served; one of the others may be found gone meanwhile.
Serve ==
  /\ serving = NoClient /\ waiting # << >>
  /\ serving' = Head(waiting)
  /\ \/ waiting' = Tail(waiting)
     \/ \E i \in 1..Len(Tail(waiting)) : waiting' = LeftAt(Tail(waiting), i)
  /\ UNCHANGED seated

Admit ==
  /\ serving # NoClient
  /\ Cardinality(seated) < Capacity
  /\ seated' = seated \cup {serving}
  /\ serving' = NoClient
  /\ UNCHANGED waiting

Abort ==
  /\ serving # NoClient
  /\ serving' = NoClient
  /\ UNCHANGED <<waiting, seated>>

GiveUp ==
  \E i \in 1..Len(waiting) :
    /\ waiting' = LeftAt(waiting, i)
    /\ UNCHANGED <<serving, seated>>

Quit(c) ==
  /\ c \in seated
  /\ seated' = seated \ {c}
  /\ UNCHANGED <<waiting, serving>>

Next == \/ \E c \in Client : Join(c) \/ Quit(c)
        \/ Serve \/ Admit \/ Abort \/ GiveUp

Spec == Init /\ [][Next]_vars
=============================================================================
