---------------------------- MODULE MCRunControl ----------------------------
(* Small instances of RunControl for TLC. *)
EXTENDS RunControl, TLC

CONSTANTS r1, r2, t1, w1, w2

OneRun == {r1}
TwoRuns == {r1, r2}
OneThread == {t1}
OneLane == {w1}
TwoLanes == {w1, w2}

\* Every run belongs to the one thread.
SameThread == [r \in Runs |-> t1]

\* Lanes are interchangeable.
LaneSymmetry == Permutations({w1, w2})
=============================================================================
