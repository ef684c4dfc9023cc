---------------------------- MODULE MCTransport ----------------------------
(* Two sizes, far enough apart for an alert to fit where a message does    *)
(* not, and a ring of three packets.                                       *)
EXTENDS Transport

TwoSizes == {1, 4}
=============================================================================
