------------------------------ MODULE Channel ------------------------------
(***************************************************************************)
(* What the link to a server promises its client: messages are handled in  *)
(* the order they were sent, whole and at most once.  A message is coming, *)
(* then arrived, then routed.  What is coming may be cut off from its end  *)
(* when the connection goes; what has arrived waits for the next drain,    *)
(* and is lost only LapSize messages at a time, the oldest first.          *)
(***************************************************************************)
EXTENDS Naturals, Sequences

CONSTANTS Messages, LapSize

VARIABLES coming, arrived, routed

vars == <<coming, arrived, routed>>

Init == coming = <<>> /\ arrived = <<>> /\ routed = <<>>

After(s, k) == SubSeq(s, k + 1, Len(s))

\* A lap loses LapSize messages and leaves the ones behind them.
Unlapped(s) == After(s, (Len(s) \div LapSize) * LapSize)

Send(m) == /\ coming' = Append(coming, m)
           /\ UNCHANGED <<arrived, routed>>

Arrive(k) == /\ arrived' = Unlapped(arrived \o SubSeq(coming, 1, k))
             /\ coming' = After(coming, k)
             /\ UNCHANGED routed

\* A message the client posts to itself when it has no connection.
Post(m) == /\ coming = <<>>
           /\ arrived' = Unlapped(Append(arrived, m))
           /\ UNCHANGED <<coming, routed>>

Cut(k) == /\ coming' = SubSeq(coming, 1, k)
          /\ UNCHANGED <<arrived, routed>>

Route == /\ routed' = arrived
         /\ arrived' = <<>>
         /\ UNCHANGED coming

Clear == /\ coming = <<>>
         /\ arrived' = <<>>
         /\ UNCHANGED <<coming, routed>>

Next == \/ \E m \in Messages : Send(m) \/ Post(m)
        \/ \E k \in 0..Len(coming) : Arrive(k) \/ Cut(k)
        \/ Route \/ Clear

Spec == Init /\ [][Next]_vars
=============================================================================
