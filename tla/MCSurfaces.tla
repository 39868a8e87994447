------------------------------ MODULE MCSurfaces ------------------------------
(* Small instances of Surfaces for TLC. *)
EXTENDS Surfaces

TwoResults == {"result1", "result2"}
OneQuiet == {"classified"}
OnePosted == {"indexed"}
=============================================================================
