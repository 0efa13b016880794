---------------------------- MODULE MCWorkerPool ----------------------------
(***************************************************************************)
(* WorkerPool with up to five items and limits from zero (COLLECTOR_WORKERS *)
(* is any integer) to more workers than items.                             *)
(***************************************************************************)
EXTENDS WorkerPool

MCSizes == 0..5
MCLimits == -1..6
=============================================================================
