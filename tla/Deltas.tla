-------------------------------- MODULE Deltas --------------------------------
(***************************************************************************)
(* The six collectors that turn cumulative counters of a SQL Server into   *)
(* differences between two cycles (collector/collectors: wait-stats,       *)
(* file-io-stats, perf-counters, database-metrics, query-stats,            *)
(* procedure-stats).  Each keeps the previous snapshot of the instance in  *)
(* a map of the process, answers null when there is none to compare with,  *)
(* and drops rows some of whose counters went backwards.                   *)
(*                                                                         *)
(* A row is a row of the DMV, its key is what the snapshot map is indexed  *)
(* by: several rows of the query statistics, one per plan, may have one    *)
(* query_hash (the query of the procedures adds their plans up).  Counters *)
(* differ by what the code does with them, and one stands for each sort    *)
(* (see Counter).  The division by the elapsed seconds is left out.        *)
(***************************************************************************)
EXTENDS Integers, FiniteSetsExt, Functions

CONSTANTS Row,         \* rows of the DMV
          Tops,        \* by kind, numbers of rows the TOP of its query may let through: 50
          MaxCount,    \* bound: where each counter stops
          MaxShrunk,   \* bound: rows already broken when another one shrinks
          MaxStarts    \* bound: starts of the SQL Server

Plans == {"query_stats", "procedure_stats"}
Kind == {"wait_stats", "file_io", "perf_counters", "database_metrics"} \cup Plans

\* "time": what rows are filtered or ordered by, and compared: wait_time_ms, the
\* bytes of a file, cntr_value, total_worker_time; "runs": execution_count; "rest":
\* what is subtracted without a look: waiting tasks and signal time, the numbers and
\* stalls of reads and writes, the writes and rows of a query.
Counter == {"time", "runs", "rest"}
ASSUME DeltaBounds ==
    /\ Tops \in [Plans -> SUBSET Nat] /\ MaxCount \in [Counter -> Nat]
    /\ MaxShrunk \in Nat /\ MaxStarts \in Nat \ {0}

Zero == [c \in Counter |-> 0]
Fresh == [r \in Row |-> Zero]
NoSnapshot == [start |-> 0]

VARIABLES kind,      \* the collector this behaviour is about
          shared,    \* have the rows one key (several plans of one query)
          top,       \* the TOP of its query, if it has one
          shown,     \* the rows in the DMV
          count,     \* the counters of each row
          start,     \* sqlserver_start_time, counted
          previous,  \* previousSnapshots of the instance, or NoSnapshot
          report,    \* what the collector answers in this step, if it does
          done,      \* what each row really counted since the previous snapshot
          broken     \* rows that left or entered the DMV or were cleared since then

deltaVars == <<kind, shared, top, shown, count, start, previous, report, done, broken>>
fixed == <<kind, shared, top>>

Key(r) == IF shared THEN "query_hash" ELSE r
Silence == [said |-> FALSE, delta |-> <<>>]
Null == [said |-> TRUE, delta |-> <<>>]

DeltasInit ==
    /\ kind \in Kind /\ top \in (IF kind \in Plans THEN Tops[kind] ELSE {0})
    /\ shared \in (IF kind = "query_stats" THEN BOOLEAN ELSE {FALSE})
    /\ shown \in SUBSET Row /\ count = Fresh /\ start = 1
    /\ previous = NoSnapshot /\ report = Silence
    /\ done = Fresh /\ broken = {}

-----------------------------------------------------------------------------
(* The SQL Server. *)

Sorts == CASE kind \in Plans -> Counter
           [] kind \in {"wait_stats", "file_io"} -> {"time", "rest"}
           [] OTHER -> {"time"}

Plus(more, v) == [c \in Counter |-> v[c] + more[c]]

\* A row counts; a query or a file that is not in the DMV enters it.
Works(r) ==
    /\ \E more \in [Counter -> {0, 1}] :
          /\ more # Zero /\ \A c \in Counter : more[c] = 1 => c \in Sorts
          /\ kind \in Plans => more["runs"] = 1
          /\ \A c \in Counter : count[r][c] + more[c] <= MaxCount[c] /\ done[r][c] + more[c] <= MaxCount[c]
          /\ count' = [count EXCEPT ![r] = Plus(more, @)]
          /\ done' = [done EXCEPT ![r] = Plus(more, @)]
    /\ shown' = shown \cup {r}
    /\ broken' = broken \cup ({r} \ shown)
    /\ report' = Silence /\ UNCHANGED <<fixed, start, previous>>

\* What may be left of a procedure with several plans when some of them go.
Less(v) == {left \in [Counter -> UNION {0..v[c] : c \in Counter}] :
               left["runs"] < v["runs"] /\ \A c \in Counter : left[c] <= v[c]}

\* DBCC SQLPERF clears the waits, a part of a procedure's plans goes away.
Shrinks(r) ==
    /\ r \in shown /\ Cardinality(broken) <= MaxShrunk
    /\ \E left \in (CASE kind = "wait_stats" -> {Zero}
                      [] kind = "procedure_stats" -> Less(count[r])
                      [] OTHER -> {}) :
          count' = [count EXCEPT ![r] = left]
    /\ broken' = broken \cup {r}
    /\ report' = Silence /\ UNCHANGED <<fixed, shown, start, previous, done>>

\* A plan is evicted, a database or a file is dropped.
Vanishes(r) ==
    /\ r \in shown /\ kind # "wait_stats"
    /\ shown' = shown \ {r} /\ count' = [count EXCEPT ![r] = Zero]
    /\ broken' = broken \cup {r}
    /\ report' = Silence /\ UNCHANGED <<fixed, start, previous, done>>

ServerRestarts ==
    /\ start < MaxStarts /\ start' = start + 1
    /\ count' = Fresh /\ broken' = Row
    /\ shown' = IF kind = "wait_stats" THEN Row ELSE {}
    /\ report' = Silence /\ UNCHANGED <<fixed, previous, done>>

-----------------------------------------------------------------------------
(* The collectors. *)

\* WHERE wait_time_ms > 0
Eligible == {r \in shown : kind = "wait_stats" => count[r]["time"] > 0}

\* The rows a query may return: all, or the TOP rows by total_worker_time, where
\* rows that have as much as the last one may be in or out.
Answers ==
    {A \in SUBSET Eligible :
        /\ kind \in Plans => Cardinality(A) <= top
        /\ \A x \in Eligible \ A :
              /\ kind \in Plans /\ Cardinality(A) = top
              /\ \A a \in A : count[a]["time"] >= count[x]["time"]}

\* Mutant: a later row of a key overwrites the earlier one in the snapshot.
Leads_last(A) ==
    {lead \in [{Key(r) : r \in A} -> A] :
        \A k \in DOMAIN lead :
            /\ Key(lead[k]) = k
            /\ \A x \in A : Key(x) = k => count[lead[k]]["time"] <= count[x]["time"]}

\* The row that is kept of each key: its first one, and rows are ordered by their time.
Leads(A) ==
    {lead \in [{Key(r) : r \in A} -> A] :
        \A k \in DOMAIN lead :
            /\ Key(lead[k]) = k
            /\ \A x \in A : Key(x) = k => count[lead[k]]["time"] >= count[x]["time"]}

Old == IF previous = NoSnapshot THEN <<>> ELSE previous.rows
Comparable == previous.start = start

\* The differences between the current rows and the snapshot's row of their key.
Minus(v, w) == [c \in Counter |-> v[c] - w[c]]
Differences(A) == [r \in {x \in A : Key(x) \in DOMAIN Old} |-> Minus(count[r], Old[Key(r)].count)]

computeDelta(rates) == Restrict(rates, {r \in DOMAIN rates : rates[r]["time"] > 0})

NotBackwards(rates) == Restrict(rates, {r \in DOMAIN rates : rates[r]["time"] >= 0})
computeFileIoDelta(rates) == NotBackwards(rates)
computePerfCounterValues(rates) == NotBackwards(rates)
computeDatabaseMetricValues(rates) == NotBackwards(rates)

\* Mutant: one execution is taken for none.
Executed_twice(rates) ==
    Restrict(rates, {r \in DOMAIN rates : rates[r]["runs"] > 1 /\ rates[r]["time"] >= 0})

Executed(rates) ==
    Restrict(rates, {r \in DOMAIN rates : rates[r]["runs"] > 0 /\ rates[r]["time"] >= 0})
computeQueryStatsDelta(rates) == Executed(rates)
computeProcedureStatsDelta(rates) == Executed(rates)

\* Answer, and keep the current rows for the next cycle, whatever the answer is.
\* Without rows to compare with it is null, or the counters that are no rates.
Collect(A, delta) ==
    /\ \E lead \in Leads(A) :
          previous' = [start |-> start,
                       rows |-> [k \in DOMAIN lead |-> [row |-> lead[k], count |-> count[lead[k]]]]]
    /\ report' = IF Comparable THEN [said |-> TRUE, delta |-> delta] ELSE Null
    /\ done' = Fresh /\ broken' = {}
    /\ UNCHANGED <<fixed, shown, count, start>>

collectWaitStats == kind = "wait_stats" /\ \E A \in Answers : Collect(A, computeDelta(Differences(A)))
collectFileIoStats == kind = "file_io" /\ \E A \in Answers : Collect(A, computeFileIoDelta(Differences(A)))
collectPerfCounters ==
    kind = "perf_counters" /\ \E A \in Answers : Collect(A, computePerfCounterValues(Differences(A)))
collectDatabaseMetrics ==
    kind = "database_metrics" /\ \E A \in Answers : Collect(A, computeDatabaseMetricValues(Differences(A)))
collectQueryStats ==
    kind = "query_stats" /\ \E A \in Answers : Collect(A, computeQueryStatsDelta(Differences(A)))
collectProcedureStats ==
    kind = "procedure_stats" /\ \E A \in Answers : Collect(A, computeProcedureStatsDelta(Differences(A)))

\* The map is the process's.
ForgetSnapshots ==
    /\ previous # NoSnapshot /\ previous' = NoSnapshot
    /\ report' = Silence /\ UNCHANGED <<fixed, shown, count, start, done, broken>>

DeltasNext ==
    \/ \E r \in Row : Works(r) \/ Shrinks(r) \/ Vanishes(r)
    \/ ServerRestarts \/ ForgetSnapshots
    \/ collectWaitStats \/ collectFileIoStats \/ collectPerfCounters
    \/ collectDatabaseMetrics \/ collectQueryStats \/ collectProcedureStats

DeltasSpec == DeltasInit /\ [][DeltasNext]_deltaVars
-----------------------------------------------------------------------------
\* The snapshot has this very row under its key, not another plan of the query.
HasOwn(r) == Key(r) \in DOMAIN Old /\ Old[Key(r)].row = r

AnswerIsWork ==
    \A r \in DOMAIN report'.delta :
        /\ 0 <= report'.delta[r]["time"] /\ report'.delta[r]["time"] <= done[r]["time"]
        /\ kind \in Plans => report'.delta[r]["runs"] >= 0
        /\ HasOwn(r) => \A c \in Counter : report'.delta[r][c] <= done[r][c]
        /\ HasOwn(r) /\ r \notin broken => report'.delta[r] = done[r]

\* What a collector answers is work that was done since the last snapshot.  No row is
\* given more time than it spent, and none is negative, although the snapshot may
\* have another plan of its query; a row that is compared with itself is given no
\* more than it did in any counter (a counter that is not tested may be negative
\* then), and exactly what it did in all of them unless it was reset in between.
DeltasAreWork == [][AnswerIsWork]_deltaVars

Worked(v) == IF kind \in Plans THEN v["runs"] > 0 ELSE v["time"] > 0

\* As many rows as the TOP lets through have spent no less time than r.
CutOff(r) ==
    kind \in Plans /\ \E A \in SUBSET (shown \ {r}) :
        Cardinality(A) = top /\ \A a \in A : count[a]["time"] >= count[r]["time"]

AnswerIsWhole ==
    report'.said /\ Comparable =>
        \A r \in Row \ broken :
            HasOwn(r) /\ Worked(done[r]) => r \in DOMAIN report'.delta \/ CutOff(r)

\* Nothing that could be compared is left out: a row that worked, is itself in the
\* last snapshot, of the same start of the server, and was not reset is in the answer,
\* unless the TOP of the query is used up by rows that have spent more.
WorkIsReported == [][AnswerIsWhole]_deltaVars
=============================================================================
