----------------------------- MODULE MCAlgorithms -----------------------------
(***************************************************************************)
(* The collectors' computations that keep no state together: Deltas and    *)
(* BlockingGraph have nothing in common, so a behaviour exercises one of   *)
(* them while the other keeps an idle state.                               *)
(***************************************************************************)
EXTENDS Deltas, BlockingGraph, TLC

CONSTANTS r1, r2

MCTops == [query_stats |-> {1, 2}, procedure_stats |-> {1}]
MCMaxCount == [time |-> 2, runs |-> 2, rest |-> 1]

\* Rows of a DMV are alike; the properties are about single steps.
MCSymmetry == Permutations(Row)

DeltasIdle == /\ kind = "idle" /\ shared = FALSE /\ top = 0 /\ shown = {} /\ count = Fresh
              /\ start = 1 /\ previous = NoSnapshot /\ report = Silence /\ done = Fresh
              /\ broken = {}
GraphIdle == blockedBy = [s \in Spid |-> Nobody] /\ reports = <<>>

Init == (DeltasInit /\ GraphIdle) \/ (DeltasIdle /\ GraphInit)

Next == \/ kind # "idle" /\ DeltasNext /\ UNCHANGED graphVars
        \/ kind = "idle" /\ GraphNext /\ UNCHANGED deltaVars

Spec == Init /\ [][Next]_<<deltaVars, graphVars>>
=============================================================================
