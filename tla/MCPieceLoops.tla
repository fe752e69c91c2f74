---- MODULE MCPieceLoops ----
(* Instance of PieceLoops for TLC: every call over every bitfield.         *)
EXTENDS PieceLoops
=============================================================================
