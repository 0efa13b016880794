----------------------------- MODULE MCXeCapture -----------------------------
(***************************************************************************)
(* XeCapture with two events (both in one stream, or one in each), one     *)
(* restart of either side, one change by hand, and a look-back shorter     *)
(* than the run, so that a restarted process finds events that are older.  *)
(* A DATETIME is a multiple of three units, so that a watermark may be     *)
(* rounded down (1 to 0) and up (2 to 3).                                  *)
(***************************************************************************)
EXTENDS XeCapture
=============================================================================
