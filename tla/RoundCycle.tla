----------------------------- MODULE RoundCycle -----------------------------
(***************************************************************************)
(* What a server promises about its rounds: a round is played, ends, the   *)
(* next map is loaded, and the next round is formed and played.  Players   *)
(* may come at any time but while the map is loaded, and go at any time.   *)
(* An end may be ordered from outside at any moment, and then the cycle    *)
(* starts again from its beginning; no load is ever cut short into a round.*)
(***************************************************************************)
CONSTANTS Players

VARIABLES phase, members

vars == <<phase, members>>

Init == /\ phase \in {"playing", "forming"}
        /\ members \in SUBSET Players

Join(p) == /\ phase # "loading"
           /\ p \notin members
           /\ members' = members \cup {p}
           /\ UNCHANGED phase

Go(p) == /\ p \in members
         /\ members' = members \ {p}
         /\ UNCHANGED phase

End == /\ phase' = "ending"
       /\ UNCHANGED members

Load == /\ phase = "ending"
        /\ phase' = "loading"
        /\ UNCHANGED members

\* A map that cannot be loaded leaves the old round in place.
LoadFails == /\ phase = "ending"
             /\ phase' = "playing"
             /\ UNCHANGED members

Form == /\ phase = "loading"
        /\ phase' \in {"forming", "playing"}
        /\ UNCHANGED members

Start == /\ phase = "forming"
         /\ phase' \in {"playing", "ending"}
         /\ UNCHANGED members

Next == \/ \E p \in Players : Join(p) \/ Go(p)
        \/ End \/ Load \/ LoadFails \/ Form \/ Start

Spec == Init /\ [][Next]_vars
=============================================================================
