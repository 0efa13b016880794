------------------------------- MODULE MCHistory -------------------------------
(***************************************************************************)
(* The two jobs that make and keep the history.  The aggregator and the    *)
(* partition manager do not share state: a behaviour exercises one of them *)
(* while the other stays in its first state.                               *)
(***************************************************************************)
EXTENDS Rollup, Retention

VARIABLE job  \* the job of this behaviour

const_Tables == <<"wait_stats", "os_cpu">>
const_FirstWindow == {0, 3}
const_FirstDays == {0, 3, 5, 8}

Init == /\ job \in {"aggregator", "partitions"} /\ RollupInit /\ RetentionInit
        /\ job = "aggregator" => table = "raw"
        /\ job = "partitions" => now = Min(FirstWindow)

Next == \/ job = "aggregator" /\ RollupNext /\ UNCHANGED <<job, retentionVars>>
        \/ job = "partitions" /\ RetentionNext /\ UNCHANGED <<job, rollupVars>>

Spec == Init /\ [][Next]_<<job, rollupVars, retentionVars>>
=============================================================================
