---------------------------- MODULE MCCheckpoint ----------------------------
EXTENDS Checkpoint

CONSTANTS p1, p2, p3, i1

AllProcs  == {p1, p2, p3}
TwoProcs  == {p1, p2}
OneItem   == {i1}
TwoLevels == {1, 2}
Anywhere  == (Pc \ {"idle", "dead"}) \cup {"recover"}
\* OneGame says nothing of what follows a clash.
NoClash   == ~clash
=============================================================================
