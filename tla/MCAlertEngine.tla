--------------------------- MODULE MCAlertEngine ---------------------------
(***************************************************************************)
(* AlertEngine with CPU sums on both sides of each threshold.              *)
(***************************************************************************)
EXTENDS AlertEngine

MCPcts == {75, 76, 90, 91}
=============================================================================
