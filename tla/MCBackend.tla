----------------------------- MODULE MCBackend -----------------------------
(***************************************************************************)
(* Backend with two signals (Ctrl-C twice, or SIGTERM after SIGINT), an    *)
(* eager job and a lazy one, and two overlapping requests and job runs.    *)
(***************************************************************************)
EXTENDS Backend

CONSTANTS s1, s2, partitions, aggregator
=============================================================================
