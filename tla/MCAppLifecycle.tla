--------------------------- MODULE MCAppLifecycle ---------------------------
(* A small instance of AppLifecycle for TLC. *)
EXTENDS AppLifecycle

CONSTANTS l1, l2

TwoLanes == {l1, l2}
=============================================================================
