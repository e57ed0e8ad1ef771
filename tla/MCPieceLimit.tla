----------------------------- MODULE MCPieceLimit -----------------------------
(* PieceLimit with few workers and a narrow window. *)
EXTENDS PieceLimit
=============================================================================
