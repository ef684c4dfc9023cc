-------------------------- MODULE MCPathScheduler --------------------------
EXTENDS PathScheduler

CONSTANTS u1, u2

TwoUnits == {u1, u2}
=============================================================================
