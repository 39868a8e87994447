-------------------------- MODULE MCReleaseDeploy --------------------------
(* A small instance of ReleaseDeploy for TLC. *)
EXTENDS ReleaseDeploy, TLC

CONSTANTS a, b, x, t1

TwoReleases == {a, b}
OneRun == {x}
OneThread == {t1}

\* Release ids are interchangeable.
ReleaseSymmetry == Permutations({a, b})
=============================================================================
