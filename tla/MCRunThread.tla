------------------------------ MODULE MCRunThread ------------------------------
(* Small instances of RunThread for TLC. *)
EXTENDS RunThread

CONSTANTS m1, m2, m3, t1, w1, w2

TwoMessages == {m1, m2}
ThreeMessages == {m1, m2, m3}
OneThread == {t1}
OneLane == {w1}
TwoLanes == {w1, w2}
SameThread == [m \in Runs |-> t1]

\* Lanes are interchangeable.
LaneSymmetry == Permutations(TwoLanes)

\* What the inputs depend on.  Only the record's own repair reads the record, and of
\* what a reconcile pass has read only the settled run it clears has other effects,
\* so that states with one view have the same future up to the record.
WithoutRegistry ==
  <<storeVars, botVars, laneVars, faults,
    snapshot # None, IF snapshot = None THEN None ELSE snapshot.settled>>
=============================================================================
