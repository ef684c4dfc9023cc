-------------------------- MODULE ServerDirectory --------------------------
(***************************************************************************)
(* What a master server promises: it knows when it last heard from each    *)
(* server, and forgets one only when it signs off or stays silent for the  *)
(* whole alive time-out.                                                   *)
(***************************************************************************)
EXTENDS Naturals

CONSTANTS Server, AliveTimeout, MaxTime, Never

VARIABLES
  clock,
  heard     \* when a server was last heard of, or Never

Init == clock = 0 /\ heard = [s \in Server |-> Never]

Tick == clock < MaxTime /\ clock' = clock + 1 /\ UNCHANGED heard

Hear(s) == heard' = [heard EXCEPT ![s] = clock] /\ UNCHANGED clock

SignOff(s) == heard' = [heard EXCEPT ![s] = Never] /\ UNCHANGED clock

Silent(s) == heard[s] # Never /\ heard[s] + AliveTimeout <= clock

Forget(S) ==
  /\ \A s \in S : Silent(s)
  /\ heard' = [s \in Server |-> IF s \in S THEN Never ELSE heard[s]]
  /\ UNCHANGED clock

Next ==
  \/ Tick
  \/ \E s \in Server : Hear(s) \/ SignOff(s)
  \/ \E S \in SUBSET Server : Forget(S)

Spec == Init /\ [][Next]_<<clock, heard>>
=============================================================================
