--------------------------- MODULE MCCollectCycle ---------------------------
(***************************************************************************)
(* CollectCycle with two instances, one fault, and permissions in every    *)
(* second cycle instead of every 2880th.                                   *)
(***************************************************************************)
EXTENDS CollectCycle

CONSTANTS i1, i2
=============================================================================
