---------------------------- MODULE MCPiSessions ----------------------------
(* One thread, its messages and commands as model values.                  *)
EXTENDS PiSessions

CONSTANTS m1, m2, reload

TwoMessages == {m1, m2}
OneCommand == {reload}
NoCommand == {}
=============================================================================
