------------------------------- MODULE WebProofs -------------------------------
(***************************************************************************)
(* The API routes and the web client, for every value of the constants:    *)
(* the answers of the routes that read the history (Readings), the         *)
(* connection pools of the routes that query a SQL Server (SharedPool),    *)
(* the sessions of the users (SignIn) and what the pages show (Views).     *)
(* The four modules share nothing; each section has an inductive invariant *)
(* of its own, whose conjuncts say what its proof is about.                *)
(***************************************************************************)
EXTENDS Readings, SharedPool, SignIn, Views, NaturalTheorems, TLAPS

-----------------------------------------------------------------------------
(* Readings: what the stamps of the rows tell of their cycles. *)

Cycles == 1..Len(collected)
StampsOf(c) == {collected[c][k] : k \in DOMAIN collected[c]}

ReadingsTypes ==
    /\ handler \in Handlers /\ clock \in Nat
    /\ \E n \in Nat : collected \in [1..n -> UNION {[rows -> Nat] : rows \in SUBSET Key}]
    /\ request \in {"none", "half", "done"} /\ newest \in Nat

\* Cycles are stamped one after the other; where the rows of a cycle are stamped once,
\* they have one stamp.
CyclesInOrder ==
    /\ \A c \in Cycles : \A k \in DOMAIN collected[c] : collected[c][k] < clock
    /\ \A c, d \in Cycles : c < d =>
          \A j \in DOMAIN collected[c], k \in DOMAIN collected[d] : collected[c][j] < collected[d][k]
    /\ Once => \A c \in Cycles : \A j, k \in DOMAIN collected[c] : collected[c][j] = collected[c][k]

BatchIsCycle == batch = {} \/ (collected # <<>> /\ batch = RowsOf(Len(collected)))

\* A stored row is one of a cycle, with all rows of the cycle that are not older.
StoredInParts ==
    \A r \in stored : /\ r.cycle \in Cycles /\ r \in RowsOf(r.cycle)
                      /\ \A s \in RowsOf(r.cycle) : r.at <= s.at => s \in stored

\* A table that is replaced holds one cycle.
OneCycle == handler.table.kept = "replaced" => \A r, s \in stored : r.cycle = s.cycle

\* Between two statements the request knows the stamps of the newest cycle there was.
HalfKnows ==
    request = "half" =>
        /\ handler.form \in {"newestInTwo", "top"}
        /\ handler.form = "newestInTwo" =>
              newest \in Cycles /\ first = StampsOf(newest) /\ first # {}

NotAnswered == request # "done" => answer = {}

ReadingsInv ==
    /\ ReadingsTypes /\ CyclesInOrder /\ BatchIsCycle /\ StoredInParts /\ OneCycle /\ HalfKnows
    /\ NotAnswered /\ AnswersAreCycles
-----------------------------------------------------------------------------
\* What is common to the tables and handlers.
LEMMA TablesAre ==
  /\ \A t \in {instance_health, os_cpu, os_memory, os_host_info, active_sessions_snapshot, os_disk} :
        t.stamp = "once" /\ t.kept = "all"
  /\ \A t \in {wait_stats_raw, file_io_stats, perf_counters_raw, memory_clerks_raw,
               database_metrics_raw, query_stats_raw, procedure_stats_raw,
               procedure_statements_raw, blocking_events} :
        t.stamp = "each" /\ t.kept = "all"
  /\ \A t \in {server_config, server_role_members, database_properties, database_files} :
        t.stamp = "once" /\ t.kept = "replaced"
BY DEF Table, instance_health, os_cpu, os_memory, os_host_info, active_sessions_snapshot, os_disk,
       wait_stats_raw, file_io_stats, perf_counters_raw, memory_clerks_raw,
       database_metrics_raw, query_stats_raw, procedure_stats_raw,
       procedure_statements_raw, blocking_events,
       server_config, server_role_members, database_properties, database_files

LEMMA HandlersAre ==
  \A h \in Handlers :
    /\ h.form \in {"newest", "newestInTwo", "newestRow", "perKey", "span", "top", "stamps", "whole"}
    /\ h.form = "whole" => h.table.kept = "replaced" /\ h.table.stamp = "once" /\ ~h.recent
    /\ h.form = "newestInTwo" => h.table.stamp = "once" /\ ~h.recent
BY TablesAre DEF Handlers, Handler, OverviewCpu, OverviewMemory, OverviewHealth, OverviewWaits,
     OverviewDiskIo, Cpu, Memory, WaitsLatest, Waits, WaitsChartRoute, SignalResource,
     SessionsHistory, Sessions, BlockingChains, Health, HostInfo, Disk, DiskSeries,
     DiskUsage, FileIoLatest, FileIoChartRoute, FileIo, MemoryBreakdownRoute,
     PerfCounters, PerfCounterSeries, OverviewChart, ServerConfig, Permissions,
     MemoryClerks, Databases, KnownDatabases, DatabaseSeries, DatabaseFiles,
     Queries, TrackedQueries, QuerySeries, ProcedureStats, StatementsHistory,
     Blocking, BlockingRecent

LEMMA ReadingsInitially == ReadingsInit => ReadingsInv
<1> SUFFICES ASSUME ReadingsInit PROVE ReadingsInv
  OBVIOUS
<1>1. /\ handler \in Handlers /\ clock = 0 /\ collected = <<>> /\ batch = {} /\ stored = {}
      /\ request = "none" /\ newest = 0 /\ answer = {}
  BY DEF ReadingsInit
<1>2. ReadingsTypes
  <2>1. collected \in [1..0 -> UNION {[rows -> Nat] : rows \in SUBSET Key}]
    BY <1>1
  <2>2. QED
    BY <1>1, <2>1 DEF ReadingsTypes
<1>3. QED
  BY <1>1, <1>2 DEF ReadingsInv, CyclesInOrder, Cycles, BatchIsCycle, StoredInParts, OneCycle,
                    HalfKnows, NotAnswered, AnswersAreCycles

\* What a row of a cycle is.
LEMMA RowFacts ==
  ASSUME ReadingsInv, NEW c \in Cycles, NEW r \in RowsOf(c)
  PROVE  /\ r.cycle = c /\ r.key \in DOMAIN collected[c] /\ r.at = collected[c][r.key]
         /\ r.at \in Nat /\ r.at < clock /\ c \in Nat /\ c >= 1
         /\ r = [cycle |-> c, key |-> r.key, at |-> collected[c][r.key]]
<1>1. PICK k \in DOMAIN collected[c] : r = [cycle |-> c, key |-> k, at |-> collected[c][k]]
  BY DEF RowsOf
<1>2. PICK n \in Nat : collected \in [1..n -> UNION {[rows -> Nat] : rows \in SUBSET Key}]
  BY DEF ReadingsInv, ReadingsTypes
<1>3. c \in 1..n /\ c \in Nat /\ c >= 1
  BY <1>2 DEF Cycles
<1>4. collected[c][k] \in Nat
  BY <1>1, <1>2, <1>3
<1>5. collected[c][k] < clock
  BY <1>1 DEF ReadingsInv, CyclesInOrder
<1>6. QED
  BY <1>1, <1>3, <1>4, <1>5

\* Rows of different cycles are stamped in the order of the cycles.
LEMMA RowsInOrder ==
  ASSUME ReadingsInv, NEW c \in Cycles, NEW d \in Cycles, NEW r \in RowsOf(c), NEW s \in RowsOf(d)
  PROVE  /\ c < d => r.at < s.at
         /\ r.at = s.at => c = d
         /\ c = d /\ r.key = s.key => r = s
         /\ c = d /\ Once => r.at = s.at
<1>1. /\ r.key \in DOMAIN collected[c] /\ r.at = collected[c][r.key] /\ c \in Nat /\ r.at \in Nat
      /\ r = [cycle |-> c, key |-> r.key, at |-> collected[c][r.key]]
  BY RowFacts
<1>2. /\ s.key \in DOMAIN collected[d] /\ s.at = collected[d][s.key] /\ d \in Nat /\ s.at \in Nat
      /\ s = [cycle |-> d, key |-> s.key, at |-> collected[d][s.key]]
  BY RowFacts
<1>3. (c < d => r.at < s.at) /\ (d < c => s.at < r.at)
  BY <1>1, <1>2 DEF ReadingsInv, CyclesInOrder
<1>4. c = d /\ Once => r.at = s.at
  BY <1>1, <1>2 DEF ReadingsInv, CyclesInOrder
<1>5. QED
  BY <1>1, <1>2, <1>3, <1>4

\* The greatest stamp and the newest cycle of some of the rows in the table.
LEMMA NewestFacts ==
  ASSUME ReadingsInv, NEW rows \in SUBSET stored
  PROVE  /\ rows = {} => LastCycle(rows) = 0 /\ Newest(rows) = {}
         /\ rows # {} => /\ Newest(rows) # {} /\ LastCycle(rows) \in Cycles /\ LastCycle(rows) # 0
                         /\ \A r \in rows : r.cycle <= LastCycle(rows)
                         /\ \A r \in Newest(rows) : r.cycle = LastCycle(rows)
                         /\ \A r \in rows : r.cycle < LastCycle(rows) => r \notin Newest(rows)
<1>1. \A r \in rows : /\ r.cycle \in Cycles /\ r \in RowsOf(r.cycle)
                      /\ r.at \in Nat /\ r.at < clock /\ r.cycle \in Nat /\ r.cycle >= 1
  BY RowFacts DEF ReadingsInv, StoredInParts
<1>2. clock \in Nat /\ Len(collected) \in Nat
  <2>1. PICK n \in Nat : collected \in [1..n -> UNION {[x -> Nat] : x \in SUBSET Key}]
    BY DEF ReadingsInv, ReadingsTypes
  <2>2. Len(collected) = n
    BY <2>1
  <2>3. QED
    BY <2>1, <2>2 DEF ReadingsInv, ReadingsTypes
<1> DEFINE C == {0} \cup {r.cycle : r \in rows}
<1>3. Max(C) \in C /\ \A c \in C : c <= Max(C)
  <2>1. C \in SUBSET Nat /\ C # {} /\ \A c \in C : c <= Len(collected)
    BY <1>1, <1>2 DEF Cycles
  <2> HIDE DEF C
  <2>2. QED
    BY <1>2, <2>1, GreatestOf
<1>4. ASSUME rows = {} PROVE LastCycle(rows) = 0 /\ Newest(rows) = {}
  BY <1>3, <1>4 DEF LastCycle, Newest
<1>5. ASSUME rows # {} PROVE Newest(rows) # {}
  <2> DEFINE A == {r.at : r \in rows}
  <2>1. A \in SUBSET Nat /\ A # {} /\ \A a \in A : a <= clock
    BY <1>1, <1>2, <1>5
  <2>2. Max(A) \in A /\ \A a \in A : a <= Max(A)
    <3> HIDE DEF A
    <3>1. QED
      BY <1>2, <2>1, GreatestOf
  <2>3. PICK r \in rows : r.at = Max(A)
    BY <2>2
  <2>4. r \in Newest(rows)
    BY <2>2, <2>3 DEF Newest
  <2>5. QED
    BY <2>4
<1>6. ASSUME rows # {}
      PROVE  /\ LastCycle(rows) \in Cycles /\ LastCycle(rows) # 0
             /\ \A r \in rows : r.cycle <= LastCycle(rows)
             /\ \E r \in rows : r.cycle = LastCycle(rows)
  <2>1. PICK r \in rows : TRUE
    BY <1>6
  <2>2. Max(C) >= r.cycle /\ r.cycle >= 1 /\ Max(C) # 0
    BY <1>1, <1>3, <2>1
  <2>3. QED
    BY <1>1, <1>3, <2>2 DEF LastCycle
<1>7. ASSUME rows # {}, NEW r \in Newest(rows) PROVE r.cycle = LastCycle(rows)
  <2>1. PICK s \in rows : s.cycle = LastCycle(rows)
    BY <1>6, <1>7
  <2>2. r \in rows /\ s.at <= r.at /\ r.cycle <= s.cycle
    BY <1>6, <1>7, <2>1 DEF Newest
  <2>3. r.cycle < s.cycle => r.at < s.at
    BY <1>1, <2>1, <2>2, RowsInOrder
  <2>4. QED
    BY <1>1, <2>1, <2>2, <2>3
<1>8. ASSUME NEW r \in rows, r.cycle < LastCycle(rows) PROVE r \notin Newest(rows)
  BY <1>1, <1>6, <1>7, <1>8 DEF Cycles
<1>9. QED
  BY <1>4, <1>5, <1>6, <1>7, <1>8
-----------------------------------------------------------------------------
\* The cycles: while a request is open there is no answer to be right or wrong.
LEMMA OpenKeeps ==
  ASSUME ReadingsInv, Open, UNCHANGED <<request, answer>>
  PROVE  NotAnswered' /\ AnswersAreCycles'
BY DEF ReadingsInv, Open, NotAnswered, AnswersAreCycles

LEMMA SameCycles ==
  ASSUME ReadingsInv, UNCHANGED <<handler, collected, request, first, newest>>,
         clock' \in Nat, clock' >= clock
  PROVE  /\ ReadingsTypes' /\ CyclesInOrder' /\ HalfKnows'
         /\ Cycles' = Cycles /\ \A c : RowsOf(c)' = RowsOf(c)
<1>1. Cycles' = Cycles /\ (\A c : RowsOf(c)' = RowsOf(c)) /\ (\A c : StampsOf(c)' = StampsOf(c))
  BY DEF Cycles, RowsOf, StampsOf
<1>2. ReadingsTypes'
  BY DEF ReadingsInv, ReadingsTypes
<1>3. HalfKnows'
  <2>1. StampsOf(newest)' = StampsOf(newest)
    BY DEF StampsOf
  <2>2. QED
    BY <1>1, <2>1 DEF ReadingsInv, HalfKnows
<1>4. CyclesInOrder'
  <2>1. ASSUME NEW c \in Cycles, NEW k \in DOMAIN collected[c] PROVE collected[c][k] < clock'
    <3>1. [cycle |-> c, key |-> k, at |-> collected[c][k]] \in RowsOf(c)
      BY <2>1 DEF RowsOf
    <3>2. collected[c][k] \in Nat /\ collected[c][k] < clock
      BY <2>1, <3>1, RowFacts
    <3>3. QED
      BY <3>2 DEF ReadingsInv, ReadingsTypes
  <2>2. QED
    BY <1>1, <2>1 DEF ReadingsInv, CyclesInOrder, Once
<1>5. QED
  BY <1>1, <1>2, <1>3, <1>4

LEMMA CollectKeeps == ASSUME ReadingsInv, NEW rows \in SUBSET Key, Collect(rows) PROVE ReadingsInv'
<1>1. PICK at \in Stamps(rows) :
          /\ collected' = Append(collected, at)
          /\ batch' = {[cycle |-> Len(collected) + 1, key |-> k, at |-> at[k]] : k \in rows}
  BY DEF Collect
<1>2. PICK n \in Nat : collected \in [1..n -> UNION {[x -> Nat] : x \in SUBSET Key}]
  BY DEF ReadingsInv, ReadingsTypes
<1>3. /\ Open /\ clock' = clock + 2 /\ clock \in Nat
      /\ UNCHANGED <<handler, cleared, stored, request, first, newest, answer>>
  BY DEF Collect, requestVars, ReadingsInv, ReadingsTypes
<1>4. /\ at \in [rows -> {clock, clock + 1}] /\ DOMAIN at = rows
      /\ Once => \A k \in rows : at[k] = clock
  BY DEF Stamps, Once
<1>5. /\ Len(collected) = n /\ n + 1 \in Nat /\ Cycles = 1..n /\ Cycles' = 1..(n + 1)
      /\ collected' \in [1..(n + 1) -> UNION {[x -> Nat] : x \in SUBSET Key}]
      /\ \A c \in 1..n : collected'[c] = collected[c]
      /\ collected'[n + 1] = at
  <2>1. Len(collected) = n
    BY <1>2
  <2>2. at \in UNION {[x -> Nat] : x \in SUBSET Key}
    <3>1. at \in [rows -> Nat]
      BY <1>3, <1>4
    <3>2. QED
      BY <3>1
  <2>3. collected \in Seq(UNION {[x -> Nat] : x \in SUBSET Key})
    BY <1>2
  <2>4. /\ collected' \in Seq(UNION {[x -> Nat] : x \in SUBSET Key}) /\ Len(collected') = n + 1
        /\ \A c \in 1..n : collected'[c] = collected[c]
        /\ collected'[n + 1] = at
    BY <1>1, <2>1, <2>2, <2>3
  <2>5. QED
    BY <1>2, <2>1, <2>4 DEF Cycles
<1>6. \A c \in Cycles : RowsOf(c)' = RowsOf(c) /\ StampsOf(c)' = StampsOf(c)
  BY <1>5 DEF RowsOf, StampsOf
<1>7. ReadingsTypes'
  <2>1. \E m \in Nat : collected' \in [1..m -> UNION {[x -> Nat] : x \in SUBSET Key}]
    <3>1. n + 1 \in Nat
      BY <1>2
    <3>2. QED
      BY <1>5, <3>1
  <2>2. QED
    BY <1>3, <2>1 DEF ReadingsInv, ReadingsTypes
<1>8. CyclesInOrder'
  <2>1. \A c \in 1..n : \A k \in DOMAIN collected[c] : collected[c][k] \in Nat /\ collected[c][k] < clock
    BY <1>2, <1>5 DEF ReadingsInv, CyclesInOrder
  <2>2. \A k \in rows : at[k] \in Nat /\ clock <= at[k] /\ at[k] < clock + 2
    BY <1>3, <1>4
  <2>3. ASSUME NEW c \in Cycles', NEW k \in DOMAIN collected'[c] PROVE collected'[c][k] < clock'
    <3>1. CASE c \in 1..n
      <4>1. collected'[c] = collected[c]
        BY <1>5, <3>1
      <4>2. collected[c][k] < clock /\ collected[c][k] \in Nat
        BY <2>1, <2>3, <3>1, <4>1
      <4>3. QED
        BY <1>3, <4>1, <4>2
    <3>2. CASE c = n + 1
      BY <1>3, <1>4, <1>5, <2>2, <2>3, <3>2
    <3>3. QED
      BY <1>5, <3>1, <3>2
  <2>4. ASSUME NEW c \in Cycles', NEW d \in Cycles', c < d,
               NEW j \in DOMAIN collected'[c], NEW k \in DOMAIN collected'[d]
        PROVE  collected'[c][j] < collected'[d][k]
    <3>1. c \in 1..n /\ collected'[c] = collected[c]
      BY <1>5, <2>4
    <3>2. CASE d \in 1..n
      <4>1. collected'[d] = collected[d]
        BY <1>5, <3>2
      <4>2. QED
        BY <1>5, <2>4, <3>1, <3>2, <4>1 DEF ReadingsInv, CyclesInOrder
    <3>3. CASE d = n + 1
      <4>1. collected[c][j] < clock /\ collected[c][j] \in Nat
        BY <2>1, <2>4, <3>1
      <4>2. k \in rows /\ collected'[d][k] = at[k]
        BY <1>4, <1>5, <2>4, <3>3
      <4>3. QED
        BY <1>3, <2>2, <3>1, <4>1, <4>2
    <3>4. QED
      BY <1>5, <3>2, <3>3
  <2>5. Once' => \A c \in Cycles' : \A j, k \in DOMAIN collected'[c] : collected'[c][j] = collected'[c][k]
    <3>1. SUFFICES ASSUME Once', NEW c \in Cycles', NEW j \in DOMAIN collected'[c],
                          NEW k \in DOMAIN collected'[c]
                   PROVE  collected'[c][j] = collected'[c][k]
      OBVIOUS
    <3>2. Once
      BY <1>3, <3>1 DEF Once
    <3>3. CASE c \in 1..n
      <4>1. collected'[c] = collected[c]
        BY <1>5, <3>3
      <4>2. QED
        BY <1>5, <3>1, <3>2, <3>3, <4>1 DEF ReadingsInv, CyclesInOrder
    <3>4. CASE c = n + 1
      BY <1>4, <1>5, <3>1, <3>2, <3>4
    <3>5. QED
      BY <1>5, <3>3, <3>4
  <2>6. QED
    BY <2>3, <2>4, <2>5 DEF CyclesInOrder
<1>9. BatchIsCycle'
  <2>1. RowsOf(n + 1)' = {[cycle |-> n + 1, key |-> k, at |-> at[k]] : k \in rows}
    BY <1>4, <1>5 DEF RowsOf
  <2>2. Len(collected') = n + 1 /\ collected' # <<>>
    BY <1>5
  <2>3. QED
    BY <1>1, <1>5, <2>1, <2>2 DEF BatchIsCycle
<1>10. StoredInParts' /\ OneCycle'
  <2>1. \A r \in stored : r.cycle \in Cycles' /\ RowsOf(r.cycle)' = RowsOf(r.cycle)
    <3>1. ASSUME NEW r \in stored PROVE r.cycle \in Cycles
      BY DEF ReadingsInv, StoredInParts
    <3>2. QED
      BY <1>5, <1>6, <3>1
  <2>2. StoredInParts'
    BY <1>3, <2>1 DEF ReadingsInv, StoredInParts
  <2>3. QED
    BY <1>3, <2>2 DEF ReadingsInv, OneCycle
<1>11. HalfKnows'
  <2>1. SUFFICES ASSUME request = "half", handler.form = "newestInTwo"
                 PROVE  newest \in Cycles' /\ first = StampsOf(newest)' /\ first # {}
    BY <1>3 DEF ReadingsInv, HalfKnows
  <2>2. newest \in Cycles /\ first = StampsOf(newest) /\ first # {}
    BY <2>1 DEF ReadingsInv, HalfKnows
  <2>3. StampsOf(newest)' = {collected'[newest][k] : k \in DOMAIN collected'[newest]}
    BY <1>3 DEF StampsOf
  <2>4. newest \in 1..n /\ newest \in Cycles'
    BY <1>5, <2>2
  <2>5. collected'[newest] = collected[newest]
    BY <1>5, <2>4
  <2>6. QED
    BY <2>2, <2>3, <2>4, <2>5 DEF StampsOf
<1>12. QED
  BY <1>3, <1>7, <1>8, <1>9, <1>10, <1>11, OpenKeeps DEF ReadingsInv

LEMMA QuietKeeps == ASSUME ReadingsInv, Quiet PROVE ReadingsInv'
<1>1. /\ Open /\ clock' = clock + 1 /\ clock \in Nat
      /\ UNCHANGED <<handler, collected, batch, cleared, stored, request, first, newest, answer>>
  BY DEF Quiet, tableVars, requestVars, ReadingsInv, ReadingsTypes
<1>2. ReadingsTypes' /\ CyclesInOrder' /\ HalfKnows' /\ Cycles' = Cycles /\ \A c : RowsOf(c)' = RowsOf(c)
  BY <1>1, SameCycles
<1>3. BatchIsCycle' /\ OneCycle'
  BY <1>1 DEF ReadingsInv, BatchIsCycle, OneCycle, RowsOf
<1>4. StoredInParts'
  BY <1>1, <1>2 DEF ReadingsInv, StoredInParts, RowsOf
<1>5. QED
  BY <1>1, <1>2, <1>3, <1>4, OpenKeeps DEF ReadingsInv

\* The table changes and keeps rows of whole or ending parts of cycles.
LEMMA TableChanges ==
  ASSUME ReadingsInv, Open, UNCHANGED <<handler, clock, collected, request, first, newest, answer>>,
         batch' \in {batch, {}}, StoredInParts', OneCycle'
  PROVE  ReadingsInv'
<1>1. ReadingsTypes' /\ CyclesInOrder' /\ HalfKnows' /\ Cycles' = Cycles /\ \A c : RowsOf(c)' = RowsOf(c)
  <2>1. clock' \in Nat /\ clock' >= clock
    BY DEF ReadingsInv, ReadingsTypes
  <2>2. QED
    BY <2>1, SameCycles
<1>2. BatchIsCycle'
  BY DEF ReadingsInv, BatchIsCycle, RowsOf
<1>3. QED
  BY <1>1, <1>2, OpenKeeps DEF ReadingsInv

LEMMA ClearKeeps == ASSUME ReadingsInv, Clear PROVE ReadingsInv'
<1>1. stored' = {} /\ batch' = batch
  BY DEF Clear
<1>2. StoredInParts' /\ OneCycle'
  BY <1>1 DEF StoredInParts, OneCycle
<1>3. QED
  BY <1>1, <1>2, TableChanges DEF Clear, requestVars

LEMMA StoreFailsKeeps == ASSUME ReadingsInv, StoreFails PROVE ReadingsInv'
<1>1. batch' = {} /\ UNCHANGED <<handler, collected, stored>>
  BY DEF StoreFails
<1>2. StoredInParts' /\ OneCycle'
  BY <1>1 DEF ReadingsInv, StoredInParts, OneCycle, Cycles, RowsOf
<1>3. QED
  BY <1>1, <1>2, TableChanges DEF StoreFails, requestVars

LEMMA StoreKeeps == ASSUME ReadingsInv, Store PROVE ReadingsInv'
<1>1. /\ batch' = {} /\ batch # {} /\ UNCHANGED <<handler, collected>>
      /\ stored' = IF handler.table.kept = "replaced" THEN batch ELSE stored \cup batch
  BY DEF Store
<1> DEFINE n == Len(collected)
<1>2. n \in Cycles /\ batch = RowsOf(n)
  <2>1. PICK m \in Nat : collected \in [1..m -> UNION {[x -> Nat] : x \in SUBSET Key}]
    BY DEF ReadingsInv, ReadingsTypes
  <2>2. collected # <<>> /\ batch = RowsOf(n)
    BY <1>1 DEF ReadingsInv, BatchIsCycle
  <2>3. n = m /\ m >= 1
    BY <2>1, <2>2
  <2>4. QED
    BY <2>2, <2>3 DEF Cycles
<1> HIDE DEF n
<1>3. \A r \in RowsOf(n) : r.cycle = n
  BY <1>2, RowFacts
<1>4. /\ Cycles' = Cycles /\ \A c : RowsOf(c)' = RowsOf(c)
  BY <1>1 DEF Cycles, RowsOf
<1>5. StoredInParts'
  <2>1. ASSUME NEW r \in stored'
        PROVE  /\ r.cycle \in Cycles /\ r \in RowsOf(r.cycle)
               /\ \A s \in RowsOf(r.cycle) : r.at <= s.at => s \in stored'
    <3>1. CASE r \in batch
      BY <1>1, <1>2, <1>3, <3>1
    <3>2. CASE r \in stored /\ handler.table.kept # "replaced"
      BY <1>1, <3>2 DEF ReadingsInv, StoredInParts
    <3>3. QED
      BY <1>1, <2>1, <3>1, <3>2
  <2>2. QED
    BY <1>1, <1>4, <2>1 DEF StoredInParts, RowsOf
<1>6. OneCycle'
  BY <1>1, <1>2, <1>3 DEF OneCycle
<1>7. QED
  BY <1>1, <1>5, <1>6, TableChanges DEF Store, requestVars

LEMMA ExpireKeeps == ASSUME ReadingsInv, NEW until \in 0..MaxClock, Expire(until) PROVE ReadingsInv'
<1>1. /\ stored' = {r \in stored : r.at > until} /\ handler.table.kept = "all"
      /\ UNCHANGED <<handler, clock, collected, batch, request, first, newest, answer>>
  BY DEF Expire, requestVars
<1>2. StoredInParts'
  <2>1. ASSUME NEW r \in stored', NEW s \in RowsOf(r.cycle), r.at <= s.at PROVE s \in stored'
    <3>1. r \in stored /\ r.at > until /\ r.cycle \in Cycles /\ r \in RowsOf(r.cycle) /\ s \in stored
      BY <1>1, <2>1 DEF ReadingsInv, StoredInParts
    <3>2. r.at \in Nat /\ s.at \in Nat /\ until \in Nat
      BY <3>1, RowFacts
    <3>3. s.at > until
      BY <2>1, <3>1, <3>2
    <3>4. QED
      BY <1>1, <3>1, <3>3
  <2>2. ASSUME NEW r \in stored' PROVE r.cycle \in Cycles /\ r \in RowsOf(r.cycle)
    BY <1>1 DEF ReadingsInv, StoredInParts
  <2>3. QED
    BY <1>1, <2>1, <2>2 DEF StoredInParts, Cycles, RowsOf
<1>3. OneCycle'
  BY <1>1 DEF OneCycle
<1>4. QED
  BY <1>1, <1>2, <1>3, TableChanges DEF Expire
-----------------------------------------------------------------------------
\* The answers.  Where the rows of a cycle have one stamp, the table has all or none.
LEMMA AllOrNone ==
  ASSUME ReadingsInv, Once, NEW r \in stored, NEW s \in RowsOf(r.cycle)
  PROVE  s \in stored /\ s.at = r.at /\ s.cycle = r.cycle /\ r \in RowsOf(r.cycle)
<1>1. r.cycle \in Cycles /\ r \in RowsOf(r.cycle)
  BY DEF ReadingsInv, StoredInParts
<1>2. s.at = r.at /\ s.cycle = r.cycle /\ r.at \in Nat
  BY <1>1, RowsInOrder, RowFacts
<1>3. r.at <= s.at
  BY <1>2
<1>4. QED
  BY <1>1, <1>2, <1>3 DEF ReadingsInv, StoredInParts

\* The rows with the greatest stamp are the last ones of the newest cycle.
LEMMA NewestOfVisible ==
  ASSUME ReadingsInv, Visible # {}
  PROVE  /\ Newest(Visible) # {} /\ Newest(Visible) = Newest(RowsOf(LastCycle(Visible)))
         /\ Once => Newest(Visible) = RowsOf(LastCycle(Visible))
<1> DEFINE n == LastCycle(Visible)
<1>1. Visible \in SUBSET stored
  BY DEF Visible
<1>2. /\ Newest(Visible) # {} /\ n \in Cycles
      /\ \A r \in Newest(Visible) : r.cycle = n
  BY <1>1, NewestFacts
<1>3. PICK q \in Newest(Visible) : TRUE
  BY <1>2
<1>4. /\ q \in Visible /\ q \in stored /\ q.cycle = n /\ q \in RowsOf(n)
      /\ \A s \in Visible : s.at <= q.at
  BY <1>1, <1>2, <1>3 DEF Newest, ReadingsInv, StoredInParts
<1>5. clock \in Nat /\ Recent \in Nat /\ q.at \in Nat
  BY <1>2, <1>4, RowFacts, ReadingsBounds DEF ReadingsInv, ReadingsTypes
<1>6. ASSUME NEW s \in RowsOf(n), q.at <= s.at PROVE s \in Visible
  <2>1. s \in stored /\ s.at \in Nat
    BY <1>2, <1>4, <1>6, RowFacts DEF ReadingsInv, StoredInParts
  <2>2. handler.recent => q.at > clock - Recent
    BY <1>4 DEF Visible
  <2>3. handler.recent => s.at > clock - Recent
    BY <1>5, <1>6, <2>1, <2>2
  <2>4. QED
    BY <2>1, <2>3 DEF Visible
<1>7. ASSUME NEW s \in RowsOf(n) PROVE s.at \in Nat /\ s.at <= q.at
  <2>1. s.at \in Nat
    BY <1>2, <1>7, RowFacts
  <2>2. q.at <= s.at => s.at <= q.at
    BY <1>4, <1>6, <1>7
  <2>3. QED
    BY <1>5, <2>1, <2>2
<1>8. ASSUME NEW r \in Newest(Visible) PROVE r \in Newest(RowsOf(n))
  <2>1. r \in Visible /\ r.cycle = n /\ r \in RowsOf(n) /\ q.at <= r.at /\ r.at <= q.at
    BY <1>1, <1>2, <1>4, <1>8 DEF Newest, ReadingsInv, StoredInParts
  <2>2. r.at = q.at
    BY <1>5, <1>7, <2>1
  <2>3. QED
    BY <1>7, <2>1, <2>2 DEF Newest
<1>9. ASSUME NEW r \in Newest(RowsOf(n)) PROVE r \in Newest(Visible)
  <2>1. r \in RowsOf(n) /\ q.at <= r.at /\ r.at <= q.at /\ r.at \in Nat
    BY <1>4, <1>7, <1>9 DEF Newest
  <2>2. r.at = q.at /\ r \in Visible
    BY <1>5, <1>6, <2>1
  <2>3. QED
    BY <1>4, <2>2 DEF Newest
<1>10. Newest(Visible) = Newest(RowsOf(n))
  BY <1>8, <1>9
<1>11. Once => Newest(RowsOf(n)) = RowsOf(n)
  <2>1. ASSUME Once, NEW r \in RowsOf(n), NEW s \in RowsOf(n) PROVE s.at <= r.at
    <3>1. s.at = r.at /\ s.at \in Nat
      BY <1>2, <1>7, <2>1, RowsInOrder
    <3>2. QED
      BY <3>1
  <2>2. QED
    BY <2>1 DEF Newest
<1>12. QED
  BY <1>2, <1>10, <1>11

\* The answer a, given the newest cycle n and the outcome f of a first statement.
LatestFits(a, n) ==
    handler.form \in {"newest", "newestRow", "newestInTwo", "whole"} =>
        IF n = 0 THEN a = {}
        ELSE \/ a = {} /\ handler.form = "newestInTwo" /\ RowsOf(n) \cap stored = {}
             \/ a = RowsOf(n) /\ Once
             \/ ~Once /\ a # {} /\ a = Newest(RowsOf(n))
KeysFit(a, n) ==
    handler.form = "perKey" => /\ n # 0 => RowsOf(n) \cap Visible \subseteq a
                               /\ \A r, s \in a : r.key = s.key => r = s
SpanFits(a) ==
    handler.form \in {"span", "stamps"} => (Once => a = UNION {RowsOf(r.cycle) : r \in a})
TopFits(a, f) ==
    handler.form = "top" =>
        /\ \A r \in a : r.key \in f
        /\ Once => \A r \in a : \A s \in RowsOf(r.cycle) : s.key \in f => s \in a

LEMMA WholeFits ==
  ASSUME ReadingsInv, handler.form = "whole" PROVE LatestFits(Visible, LastCycle(Visible))
<1> DEFINE n == LastCycle(Visible)
<1>1. handler.table.kept = "replaced" /\ Once /\ ~handler.recent /\ Visible = stored
  BY HandlersAre DEF ReadingsInv, ReadingsTypes, Once, Visible
<1>2. CASE stored = {}
  BY <1>1, <1>2, NewestFacts DEF LatestFits
<1>3. CASE stored # {}
  <2>1. n \in Cycles /\ n # 0 /\ Newest(stored) # {} /\ \A r \in Newest(stored) : r.cycle = n
    BY <1>1, <1>3, NewestFacts
  <2>2. PICK q \in stored : q.cycle = n
    BY <2>1 DEF Newest
  <2>3. ASSUME NEW r \in stored PROVE r \in RowsOf(n)
    <3>1. r.cycle = n
      BY <1>1, <2>2 DEF ReadingsInv, OneCycle
    <3>2. QED
      BY <3>1 DEF ReadingsInv, StoredInParts
  <2>4. ASSUME NEW s \in RowsOf(n) PROVE s \in stored
    BY <1>1, <2>2, AllOrNone
  <2>5. stored = RowsOf(n)
    BY <2>3, <2>4
  <2>6. QED
    BY <1>1, <2>1, <2>5 DEF LatestFits
<1>4. QED
  BY <1>2, <1>3

LEMMA PerKeyFits ==
  ASSUME ReadingsInv PROVE KeysFit(PerKey(Visible), LastCycle(Visible))
<1> DEFINE n == LastCycle(Visible)
<1>1. /\ Visible \in SUBSET stored
      /\ \A r \in Visible : r.cycle \in Cycles /\ r \in RowsOf(r.cycle) /\ r.at \in Nat
  BY RowFacts DEF Visible, ReadingsInv, StoredInParts
<1>2. ASSUME NEW r \in RowsOf(n) \cap Visible PROVE r \in PerKey(Visible)
  <2>1. n \in Cycles /\ n \in Nat /\ r.cycle = n /\ \A s \in Visible : s.cycle <= n
    BY <1>1, <1>2, NewestFacts, RowFacts
  <2>2. ASSUME NEW s \in Visible, s.key = r.key PROVE s.at <= r.at
    <3>1. s.cycle \in Nat /\ s.at \in Nat /\ r.at \in Nat
      BY <1>1, <1>2, RowFacts
    <3>2. (s.cycle < n => s.at < r.at) /\ (s.cycle = n => s = r)
      BY <1>1, <1>2, <2>1, <2>2, RowsInOrder
    <3>3. s.cycle <= n
      BY <2>1
    <3>4. s.cycle < n \/ s.cycle = n
      BY <2>1, <3>1, <3>3
    <3>5. QED
      BY <3>1, <3>2, <3>4
  <2>3. QED
    BY <1>2, <2>2 DEF PerKey
<1>3. ASSUME NEW r \in PerKey(Visible), NEW s \in PerKey(Visible), r.key = s.key PROVE r = s
  <2>1. r \in Visible /\ s \in Visible /\ s.at <= r.at /\ r.at <= s.at
    BY <1>3 DEF PerKey
  <2>2. r.at = s.at
    BY <1>1, <2>1
  <2>3. QED
    BY <1>1, <1>3, <2>1, <2>2, RowsInOrder
<1>4. QED
  BY <1>2, <1>3 DEF KeysFit

LEMMA RangeFits ==
  ASSUME ReadingsInv PROVE SpanFits(Visible \cap InRange)
<1> DEFINE a == Visible \cap InRange
<1>1. ASSUME Once, NEW r \in a, NEW s \in RowsOf(r.cycle) PROVE s \in a
  BY <1>1, AllOrNone DEF Visible, InRange
<1>2. ASSUME NEW r \in a PROVE r \in RowsOf(r.cycle)
  BY DEF Visible, ReadingsInv, StoredInParts
<1>3. QED
  BY <1>1, <1>2 DEF SpanFits

\* Where a step gives the answer and leaves the rest, the answer is to fit.
LEMMA AnswerKeeps ==
  ASSUME ReadingsInv, UNCHANGED <<handler, clock, collected, batch, cleared, stored>>,
         request' = "done", newest' \in Nat,
         LatestFits(answer', newest'), KeysFit(answer', newest'), SpanFits(answer'),
         TopFits(answer', first')
  PROVE  ReadingsInv'
<1>1. (\A c : RowsOf(c)' = RowsOf(c)) /\ Visible' = Visible /\ Once' = Once /\ Cycles' = Cycles
  BY DEF RowsOf, Visible, Once, Cycles
<1>2. ReadingsTypes' /\ HalfKnows' /\ NotAnswered'
  BY DEF ReadingsInv, ReadingsTypes, HalfKnows, NotAnswered
<1>3. CyclesInOrder' /\ BatchIsCycle' /\ StoredInParts' /\ OneCycle'
  BY DEF ReadingsInv, CyclesInOrder, BatchIsCycle, StoredInParts, OneCycle, Cycles, Once, RowsOf
<1>4. handler.form \in {"newest", "newestInTwo", "newestRow", "perKey", "span", "top", "stamps", "whole"}
  BY HandlersAre DEF ReadingsInv, ReadingsTypes
<1>5. AnswersAreCycles'
  <2>1. CASE handler.form \in {"newest", "newestRow", "newestInTwo", "whole"}
    <3>1. /\ RowsOf(newest)' = RowsOf(newest') /\ Newest(RowsOf(newest))' = Newest(RowsOf(newest'))
          /\ (RowsOf(newest) \cap stored)' = RowsOf(newest') \cap stored
      BY DEF RowsOf, Newest
    <3>2. QED
      BY <1>1, <2>1, <3>1 DEF AnswersAreCycles, LatestFits
  <2>2. CASE handler.form = "perKey"
    BY <1>1, <2>2 DEF AnswersAreCycles, KeysFit, RowsOf, Visible
  <2>3. CASE handler.form \in {"span", "stamps"}
    <3>1. (UNION {RowsOf(r.cycle) : r \in answer})' = UNION {RowsOf(r.cycle) : r \in answer'}
      BY DEF RowsOf
    <3>2. QED
      BY <1>1, <2>3, <3>1 DEF AnswersAreCycles, SpanFits
  <2>4. CASE handler.form = "top"
    BY <1>1, <2>4 DEF AnswersAreCycles, TopFits, RowsOf, Once
  <2>5. QED
    BY <1>4, <2>1, <2>2, <2>3, <2>4
<1>6. QED
  BY <1>2, <1>3, <1>5 DEF ReadingsInv

LEMMA AskKeeps == ASSUME ReadingsInv, Ask PROVE ReadingsInv'
<1>1. /\ handler.form \notin {"newestInTwo", "top"} /\ request' = "done"
      /\ answer' = Answered(Visible) /\ newest' = LastCycle(Visible)
      /\ UNCHANGED <<handler, clock, collected, batch, cleared, stored, first>>
  BY DEF Ask, tableVars
<1>2. /\ Visible \in SUBSET stored /\ newest' \in Nat
      /\ Visible = {} => newest' = 0 /\ Newest(Visible) = {}
      /\ Visible # {} => newest' # 0
  BY <1>1, NewestFacts DEF Visible, Cycles
<1>3. LatestFits(answer', newest')
  <2>1. CASE handler.form = "whole"
    <3>1. answer' = Visible
      BY <1>1, <2>1 DEF Answered
    <3>2. QED
      BY <1>1, <2>1, <3>1, WholeFits
  <2>2. CASE handler.form \in {"newest", "newestRow"}
    <3>1. answer' = Newest(Visible)
      BY <1>1, <2>2 DEF Answered
    <3>2. CASE Visible = {}
      BY <1>2, <3>1, <3>2 DEF LatestFits
    <3>3. CASE Visible # {}
      BY <1>1, <1>2, <3>1, <3>3, NewestOfVisible DEF LatestFits
    <3>4. QED
      BY <3>2, <3>3
  <2>3. QED
    BY <1>1, <2>1, <2>2 DEF LatestFits
<1>4. KeysFit(answer', newest')
  <2>1. CASE handler.form = "perKey"
    <3>1. answer' = PerKey(Visible)
      BY <1>1, <2>1 DEF Answered
    <3>2. QED
      BY <1>1, <3>1, PerKeyFits
  <2>2. QED
    BY <2>1 DEF KeysFit
<1>5. SpanFits(answer')
  <2>1. CASE handler.form \in {"span", "stamps"}
    <3>1. answer' = Visible \cap InRange
      BY <1>1, <2>1 DEF Answered
    <3>2. QED
      BY <3>1, RangeFits
  <2>2. QED
    BY <2>1 DEF SpanFits
<1>6. TopFits(answer', first')
  BY <1>1 DEF TopFits
<1>7. QED
  BY <1>1, <1>2, <1>3, <1>4, <1>5, <1>6, AnswerKeeps

LEMMA AskFirstKeeps == ASSUME ReadingsInv, AskFirst PROVE ReadingsInv'
<1>1. /\ handler.form \in {"newestInTwo", "top"} /\ newest' = LastCycle(stored)
      /\ request' = IF first' = {} THEN "done" ELSE "half"
      /\ handler.form = "newestInTwo" => first' = {r.at : r \in Newest(stored)}
      /\ request = "none" /\ UNCHANGED <<handler, clock, collected, batch, cleared, stored, answer>>
  BY DEF AskFirst, tableVars
<1>2. /\ newest' \in Nat /\ answer' = {}
      /\ stored = {} => newest' = 0 /\ Newest(stored) = {}
      /\ stored # {} => newest' \in Cycles /\ newest' # 0 /\ Newest(stored) # {}
  BY <1>1, NewestFacts DEF ReadingsInv, NotAnswered, Cycles
<1>3. CASE first' = {}
  <2>1. LatestFits(answer', newest')
    BY <1>1, <1>2, <1>3 DEF LatestFits
  <2>2. KeysFit(answer', newest') /\ SpanFits(answer') /\ TopFits(answer', first')
    BY <1>1, <1>2 DEF KeysFit, SpanFits, TopFits
  <2>3. QED
    BY <1>1, <1>2, <1>3, <2>1, <2>2, AnswerKeeps
<1>4. CASE first' # {}
  <2>1. ReadingsTypes' /\ NotAnswered' /\ AnswersAreCycles'
    BY <1>1, <1>2, <1>4 DEF ReadingsInv, ReadingsTypes, NotAnswered, AnswersAreCycles
  <2>2. CyclesInOrder' /\ BatchIsCycle' /\ StoredInParts' /\ OneCycle'
    BY <1>1 DEF ReadingsInv, CyclesInOrder, BatchIsCycle, StoredInParts, OneCycle, Cycles, Once, RowsOf
  <2>3. HalfKnows'
    <3>1. SUFFICES ASSUME handler.form = "newestInTwo"
                   PROVE  newest' \in Cycles /\ first' = StampsOf(newest')
      BY <1>1, <1>4 DEF HalfKnows, Cycles, StampsOf
    <3>2. Once /\ ~handler.recent /\ Visible = stored /\ stored # {}
      BY <1>1, <1>2, <1>4, <3>1, HandlersAre DEF ReadingsInv, ReadingsTypes, Once, Visible
    <3>3. Newest(stored) = RowsOf(newest')
      BY <1>1, <3>2, NewestOfVisible
    <3>4. first' = StampsOf(newest')
      <4>1. first' = {r.at : r \in RowsOf(newest')}
        BY <1>1, <3>1, <3>3
      <4>2. ASSUME NEW k \in DOMAIN collected[newest']
            PROVE  \E r \in RowsOf(newest') : r.at = collected[newest'][k]
        <5>1. [cycle |-> newest', key |-> k, at |-> collected[newest'][k]] \in RowsOf(newest')
          BY DEF RowsOf
        <5>2. QED
          BY <5>1
      <4>3. ASSUME NEW r \in RowsOf(newest') PROVE r.at \in StampsOf(newest')
        BY DEF RowsOf, StampsOf
      <4>4. QED
        BY <4>1, <4>2, <4>3 DEF StampsOf
    <3>5. QED
      BY <1>2, <3>2, <3>4
  <2>4. QED
    BY <2>1, <2>2, <2>3 DEF ReadingsInv
<1>5. QED
  BY <1>3, <1>4

LEMMA AskSecondKeeps == ASSUME ReadingsInv, AskSecond PROVE ReadingsInv'
<1>1. /\ request = "half" /\ request' = "done"
      /\ handler.form = "newestInTwo" => answer' = {r \in stored : r.at \in first}
      /\ handler.form # "newestInTwo" => answer' = {r \in InRange : r.key \in first}
      /\ UNCHANGED <<handler, clock, collected, batch, cleared, stored, first, newest>>
  BY DEF AskSecond, tableVars
<1>2. newest' \in Nat
  BY <1>1 DEF ReadingsInv, ReadingsTypes
<1>3. CASE handler.form = "newestInTwo"
  <2>1. newest \in Cycles /\ newest # 0 /\ first = StampsOf(newest) /\ Once
    BY <1>1, <1>3, HandlersAre DEF ReadingsInv, ReadingsTypes, HalfKnows, Once, Cycles
  <2>2. ASSUME NEW r \in answer' PROVE r \in RowsOf(newest) \cap stored
    <3>1. r \in stored /\ r.cycle \in Cycles /\ r \in RowsOf(r.cycle) /\ r.at \in first
      BY <1>1, <1>3, <2>2 DEF ReadingsInv, StoredInParts
    <3>2. PICK s \in RowsOf(newest) : s.at = r.at
      <4>1. PICK k \in DOMAIN collected[newest] : r.at = collected[newest][k]
        BY <2>1, <3>1 DEF StampsOf
      <4>2. [cycle |-> newest, key |-> k, at |-> collected[newest][k]] \in RowsOf(newest)
        BY DEF RowsOf
      <4>3. QED
        BY <4>1, <4>2
    <3>3. r.cycle = newest
      BY <2>1, <3>1, <3>2, RowsInOrder
    <3>4. QED
      BY <3>1, <3>3
  <2>3. ASSUME NEW q \in RowsOf(newest) \cap stored, NEW s \in RowsOf(newest) PROVE s \in answer'
    <3>1. q.cycle = newest /\ s.at = collected[newest][s.key] /\ s.key \in DOMAIN collected[newest]
      BY <2>1, <2>3, RowFacts
    <3>2. s \in stored
      BY <2>1, <2>3, <3>1, AllOrNone
    <3>3. s.at \in first
      BY <2>1, <3>1 DEF StampsOf
    <3>4. QED
      BY <1>1, <1>3, <3>2, <3>3
  <2>4. (answer' = {} /\ RowsOf(newest) \cap stored = {}) \/ answer' = RowsOf(newest)
    <3>1. CASE RowsOf(newest) \cap stored = {}
      BY <2>2, <3>1
    <3>2. CASE RowsOf(newest) \cap stored # {}
      BY <2>2, <2>3, <3>2
    <3>3. QED
      BY <3>1, <3>2
  <2>5. newest' = newest
    BY <1>1
  <2>6. LatestFits(answer', newest')
    BY <1>3, <2>1, <2>4, <2>5 DEF LatestFits
  <2>7. KeysFit(answer', newest') /\ SpanFits(answer') /\ TopFits(answer', first')
    BY <1>3 DEF KeysFit, SpanFits, TopFits
  <2>8. QED
    BY <1>1, <1>2, <2>6, <2>7, AnswerKeeps
<1>4. CASE handler.form = "top"
  <2>1. ASSUME Once, NEW r \in answer', NEW s \in RowsOf(r.cycle), s.key \in first PROVE s \in answer'
    <3>1. r \in InRange /\ r \in stored
      BY <1>1, <1>4, <2>1 DEF InRange
    <3>2. s \in InRange
      BY <2>1, <3>1, AllOrNone DEF InRange
    <3>3. QED
      BY <1>1, <1>4, <2>1, <3>2
  <2>2. TopFits(answer', first')
    BY <1>1, <1>4, <2>1 DEF TopFits
  <2>3. LatestFits(answer', newest') /\ KeysFit(answer', newest') /\ SpanFits(answer')
    BY <1>4 DEF LatestFits, KeysFit, SpanFits
  <2>4. QED
    BY <1>1, <1>2, <2>2, <2>3, AnswerKeeps
<1>5. CASE handler.form \notin {"newestInTwo", "top"}
  BY <1>1, <1>5 DEF ReadingsInv, HalfKnows
<1>6. QED
  BY <1>3, <1>4, <1>5

LEMMA ReadingsNextKeeps == ReadingsInv /\ [ReadingsNext]_readingsVars => ReadingsInv'
<1> SUFFICES ASSUME ReadingsInv, [ReadingsNext]_readingsVars PROVE ReadingsInv'
  OBVIOUS
<1>1. ASSUME NEW rows \in SUBSET Key, Collect(rows) PROVE ReadingsInv'
  BY <1>1, CollectKeeps
<1>2. ASSUME NEW until \in 0..MaxClock, Expire(until) PROVE ReadingsInv'
  BY <1>2, ExpireKeeps
<1>3. CASE UNCHANGED readingsVars
  <2>1. UNCHANGED <<handler, clock, collected, batch, cleared, stored, request, first, newest, answer>>
    BY <1>3 DEF readingsVars
  <2>2. ReadingsTypes' /\ CyclesInOrder' /\ HalfKnows' /\ NotAnswered'
    BY <2>1, SameCycles DEF ReadingsInv, ReadingsTypes, NotAnswered
  <2>3. BatchIsCycle' /\ StoredInParts' /\ OneCycle'
    BY <2>1 DEF ReadingsInv, BatchIsCycle, StoredInParts, OneCycle, Cycles, RowsOf
  <2>4. AnswersAreCycles'
    <3>1. AnswersAreCycles' = AnswersAreCycles
      BY <2>1 DEF AnswersAreCycles, RowsOf, Once, Visible, Newest
    <3>2. QED
      BY <3>1 DEF ReadingsInv
  <2>5. QED
    BY <2>2, <2>3, <2>4 DEF ReadingsInv
<1>4. QED
  BY <1>1, <1>2, <1>3, QuietKeeps, ClearKeeps, StoreKeeps, StoreFailsKeeps, AskKeeps, AskFirstKeeps,
     AskSecondKeeps DEF ReadingsNext

(* What the read-only API answers of the newest cycle, or of a range,      *)
(* never mixes or tears the cycles that the stamps tell apart, whatever    *)
(* cycles are stored and partitions dropped before the request or between  *)
(* its two statements.                                                     *)
THEOREM AnswersAreWholeCycles == ReadingsSpec => []AnswersAreCycles
<1>1. ReadingsInv => AnswersAreCycles
  BY DEF ReadingsInv
<1>2. QED
  BY <1>1, ReadingsInitially, ReadingsNextKeeps, PTL DEF ReadingsSpec

-----------------------------------------------------------------------------
(* SharedPool: which pools may be left open, and who may close a pool that is in use, *)
(* for any number of requests and any idle time.                                      *)

PoolState == {"none", "connecting", "open", "dropped", "closed"}
Reason == {"nothing", "stale", "failure", "idle", "orphan's timer"}

PoolTypes ==
    /\ time \in Nat
    /\ pool \in [Request -> PoolState] /\ cached \in Request \cup {None}
    /\ timer \in [Request -> Nat \cup {NoTimer}]
    /\ state \in [Request -> {"new", "connecting", "using", "done"}]
    /\ route \in [Request -> Route]
    /\ uses \in [Request -> Request \cup {None}] /\ since \in [Request -> Nat]
    /\ orphans \in SUBSET Request /\ closedBy \in [Request -> Reason]

\* A pool has the number of the request that creates it; others use it from then on.
OwnPool ==
    \A r \in Request :
        /\ state[r] = "new" <=> uses[r] = None
        /\ pool[r] # "none" <=> uses[r] = r
        /\ state[r] = "connecting" <=> pool[r] = "connecting"

\* The entry of the map is not closed, and its timer is neither passed nor too far.
EntryTimed ==
    cached # None => /\ timer[cached] \in time..(time + Idle)
                     /\ pool[cached] \in {"open", "dropped"}

\* What is open, or has a timer, is in the map or was pushed out of it, and that takes
\* two requests that both found no pool.
Known(p) == p = cached \/ p \in orphans
OthersPushedOut ==
    /\ \A p \in Request : pool[p] = "open" \/ timer[p] # NoTimer => Known(p)
    /\ \A p \in orphans : Overlapped(p)

\* A request under way is younger than the idle time, and set the timer of its pool.
UsersInTime ==
    \A r \in Request : state[r] \in {"connecting", "using"} =>
        /\ since[r] <= time /\ time < since[r] + Idle
        /\ state[r] = "using" /\ uses[r] = cached => timer[cached] >= since[r] + Idle

\* A pool that was closed under a request was closed for a reason that is not its age.
Excuse(why, pushedOut) == \/ why \in {"failure", "stale"}
                          \/ why = "orphan's timer" /\ pushedOut # {}
UsersExcused ==
    \A r \in Request : state[r] = "using" =>
        /\ uses[r] # None /\ pool[uses[r]] \in {"open", "dropped", "closed"}
        /\ pool[uses[r]] = "closed" => Excuse(closedBy[uses[r]], orphans)

PoolInv == /\ PoolTypes /\ OwnPool /\ EntryTimed /\ OthersPushedOut
        /\ UsersInTime /\ UsersExcused
-----------------------------------------------------------------------------
\* What the assumption says.
LEMMA PoolBounds == Idle \in Nat /\ Idle >= 2 /\ None \notin Request /\ Request \in SUBSET Nat
BY SharedPoolBounds DEF Request, None

LEMMA RouteFacts == Routes \subseteq Route /\ live \in Route
BY DEF Routes, Route, live, procedures, blockingEstimate, plans, blockingActual

\* The first state.
LEMMA PoolInitially == SharedPoolInit => PoolInv
<1> SUFFICES ASSUME SharedPoolInit PROVE PoolInv
  OBVIOUS
<1>1. PoolTypes
  BY DEF SharedPoolInit, PoolTypes, PoolState, Reason, Route, live
<1>2. OwnPool /\ EntryTimed /\ OthersPushedOut /\ UsersInTime /\ UsersExcused
  BY PoolBounds DEF SharedPoolInit, OwnPool, EntryTimed, OthersPushedOut, UsersInTime, UsersExcused, None
<1>3. QED
  BY <1>1, <1>2 DEF PoolInv

\* A request goes on with its pool, or begins with one that is open; no pool in use
\* changes but for a reason that is excused.
LEMMA UsersKept ==
  ASSUME PoolInv, orphans \subseteq orphans',
         \A q \in Request : state'[q] = "using" =>
             \/ state[q] = "using" /\ uses'[q] = uses[q]
             \/ uses'[q] \in Request /\ pool'[uses'[q]] = "open",
         \A q \in Request : state[q] = "using" =>
             LET p == uses[q]
             IN  \/ pool'[p] = pool[p] /\ closedBy'[p] = closedBy[p]
                 \/ pool'[p] = "dropped"
                 \/ pool'[p] = "closed" /\ Excuse(closedBy'[p], orphans')
  PROVE  UsersExcused'
<1> SUFFICES ASSUME NEW q \in Request, state'[q] = "using"
             PROVE  /\ uses'[q] # None /\ pool'[uses'[q]] \in {"open", "dropped", "closed"}
                    /\ pool'[uses'[q]] = "closed" => Excuse(closedBy'[uses'[q]], orphans')
  BY DEF UsersExcused
<1>1. CASE state[q] = "using" /\ uses'[q] = uses[q]
  <2>1. /\ uses[q] # None /\ pool[uses[q]] \in {"open", "dropped", "closed"}
        /\ pool[uses[q]] = "closed" => Excuse(closedBy[uses[q]], orphans)
    BY <1>1 DEF PoolInv, UsersExcused
  <2>2. QED
    BY <1>1, <2>1 DEF Excuse
<1>2. CASE uses'[q] \in Request /\ pool'[uses'[q]] = "open"
  BY <1>2, PoolBounds
<1>3. QED
  BY <1>1, <1>2

\* A pool in use is not being connected, and its timer does not fire of itself.
LEMMA InUse ==
  ASSUME PoolInv, NEW q \in Request, state[q] = "using"
  PROVE  /\ uses[q] \in Request /\ pool[uses[q]] \notin {"none", "connecting"}
         /\ uses[q] = cached => timer[cached] > time
<1>1. uses[q] \in Request /\ pool[uses[q]] \notin {"none", "connecting"}
  BY DEF PoolInv, PoolTypes, UsersExcused
<1>2. ASSUME uses[q] = cached PROVE timer[cached] > time
  <2>1. timer[cached] >= since[q] + Idle /\ time < since[q] + Idle
    BY <1>2 DEF PoolInv, UsersInTime
  <2>2. cached # None /\ timer[cached] \in time..(time + Idle)
    BY <1>1, <1>2, PoolBounds DEF PoolInv, EntryTimed
  <2>3. timer[cached] \in Nat /\ since[q] \in Nat /\ time \in Nat
    BY <2>2 DEF PoolInv, PoolTypes
  <2>4. QED
    BY <2>1, <2>3, PoolBounds
<1>3. QED
  BY <1>1, <1>2

\* What closing the entry of the map does to each pool.
LEMMA ClosedFacts ==
  ASSUME PoolInv, NEW why \in Reason, Closed(why)
  PROVE  /\ cached' = None
         /\ pool' \in [Request -> PoolState] /\ closedBy' \in [Request -> Reason]
         /\ \A p \in Request : IF p = cached THEN pool'[p] = "closed" /\ closedBy'[p] = why
                               ELSE pool'[p] = pool[p] /\ closedBy'[p] = closedBy[p]
BY PoolBounds DEF PoolInv, PoolTypes, Closed, PoolState

LEMMA ClearedFacts ==
  ASSUME PoolInv
  PROVE  /\ ClearedTimer \in [Request -> Nat \cup {NoTimer}]
         /\ \A p \in Request : ClearedTimer[p] = IF p = cached THEN NoTimer ELSE timer[p]
BY PoolBounds DEF PoolInv, PoolTypes, ClearedTimer

\* A request finds a pool.
LEMMA Hits == ASSUME PoolInv, NEW r \in Request, GetHit(r)
  PROVE PoolInv'
<1> USE PoolBounds, RouteFacts DEF PoolInv, NoTimer, GetHit, Begins, ResetTimer, Hit
<1>1. PoolTypes'
  <2>1. /\ time' = time /\ pool' = pool /\ cached' = cached /\ orphans' = orphans
        /\ closedBy' = closedBy /\ cached \in Request
    BY DEF PoolTypes
  <2>2. state' \in [Request -> {"new", "connecting", "using", "done"}]
        /\ uses' \in [Request -> Request \cup {None}]
    BY <2>1 DEF PoolTypes
  <2>3. since' \in [Request -> Nat] /\ timer' \in [Request -> Nat \cup {NoTimer}]
    BY <2>1 DEF PoolTypes
  <2>4. route' \in [Request -> Route]
    BY DEF PoolTypes
  <2>5. QED
    BY <2>1, <2>2, <2>3, <2>4 DEF PoolTypes
<1>2. OwnPool'
  BY DEF PoolTypes, OwnPool, EntryTimed
<1>3. EntryTimed'
  BY DEF PoolTypes, OwnPool, EntryTimed
<1>4. OthersPushedOut'
  BY DEF PoolTypes, OwnPool, EntryTimed, OthersPushedOut, Known, Overlapped
<1>5. UsersInTime'
  BY DEF PoolTypes, OwnPool, EntryTimed, UsersInTime, UsersExcused
<1>6. UsersExcused'
  BY UsersKept, InUse DEF PoolTypes, OwnPool, EntryTimed, Excuse
<1>7. QED
  BY <1>1, <1>2, <1>3, <1>4, <1>5, <1>6

\* A request finds none, or a stale one, and connects.
LEMMA Misses == ASSUME PoolInv, NEW r \in Request, GetMiss(r)
  PROVE PoolInv'
<1> USE PoolBounds, RouteFacts DEF PoolInv, NoTimer, GetMiss, Begins, ClearedTimer, Hit
<1>1. PoolTypes'
  <2>1. /\ time' \in Nat /\ cached' \in Request \cup {None} /\ orphans' \in SUBSET Request
        /\ timer' \in [Request -> Nat \cup {NoTimer}]
    BY DEF PoolTypes
  <2>2. pool' \in [Request -> PoolState] /\ closedBy' \in [Request -> Reason]
    BY DEF PoolTypes, PoolState, Reason
  <2>3. /\ state' \in [Request -> {"new", "connecting", "using", "done"}]
        /\ uses' \in [Request -> Request \cup {None}]
    BY DEF PoolTypes
  <2>4. route' \in [Request -> Route] /\ since' \in [Request -> Nat]
    BY DEF PoolTypes
  <2>5. QED
    BY <2>1, <2>2, <2>3, <2>4 DEF PoolTypes
<1>2. OwnPool'
  BY DEF PoolTypes, OwnPool, EntryTimed
<1>3. EntryTimed'
  BY DEF PoolTypes, OwnPool, EntryTimed
<1>4. OthersPushedOut'
  BY DEF PoolTypes, OwnPool, EntryTimed, OthersPushedOut, Known, Overlapped
<1>5. UsersInTime'
  BY DEF PoolTypes, OwnPool, EntryTimed, UsersInTime, UsersExcused
<1>6. UsersExcused'
  <2>1. pool[r] = "none" /\ r # cached /\ \A q \in Request : state[q] = "using" => uses[q] # r
    BY InUse DEF OwnPool, EntryTimed, PoolTypes
  <2>2. \A q \in Request : state'[q] = "using" => state[q] = "using" /\ uses'[q] = uses[q]
    BY DEF PoolTypes
  <2>3. ASSUME NEW q \in Request, state[q] = "using", NEW p, p = uses[q]
        PROVE  \/ pool'[p] = pool[p] /\ closedBy'[p] = closedBy[p]
               \/ pool'[p] = "closed" /\ Excuse(closedBy'[p], orphans')
    BY <2>1, <2>3, InUse DEF Excuse
  <2>4. QED
    BY <2>2, <2>3, UsersKept
<1>7. QED
  BY <1>1, <1>2, <1>3, <1>4, <1>5, <1>6

\* A request has connected.
LEMMA Connects == ASSUME PoolInv, NEW r \in Request, Connected(r)
  PROVE PoolInv'
<1> USE PoolBounds, RouteFacts DEF PoolInv, NoTimer, Connected
<1>1. PoolTypes'
  <2>1. time' = time /\ cached' = r /\ closedBy' = closedBy /\ route' = route /\ uses' = uses
        /\ since' = since /\ orphans' \in SUBSET Request
    BY DEF PoolTypes
  <2>2. pool' \in [Request -> PoolState]
        /\ state' \in [Request -> {"new", "connecting", "using", "done"}]
    BY DEF PoolTypes, PoolState
  <2>3. timer' \in [Request -> Nat \cup {NoTimer}]
    BY DEF PoolTypes
  <2>4. QED
    BY <2>1, <2>2, <2>3 DEF PoolTypes
<1>2. OwnPool'
  BY DEF PoolTypes, OwnPool, EntryTimed
<1>3. EntryTimed'
  BY DEF PoolTypes, OwnPool, EntryTimed
<1>4. OthersPushedOut'
  BY DEF PoolTypes, OwnPool, EntryTimed, OthersPushedOut, Known, Overlapped
<1>5. UsersInTime'
  BY DEF PoolTypes, OwnPool, EntryTimed, UsersInTime, UsersExcused
<1>6. UsersExcused'
  <2>1. uses[r] = r /\ \A q \in Request : state[q] = "using" => uses[q] # r
    BY InUse DEF OwnPool
  <2>2. \A q \in Request : state'[q] = "using" =>
            \/ state[q] = "using" /\ uses'[q] = uses[q]
            \/ uses'[q] \in Request /\ pool'[uses'[q]] = "open"
    BY <2>1 DEF PoolTypes
  <2>3. \A q \in Request : state[q] = "using" =>
            pool'[uses[q]] = pool[uses[q]] /\ closedBy'[uses[q]] = closedBy[uses[q]]
    BY <2>1, InUse DEF PoolTypes
  <2>4. orphans \subseteq orphans'
    OBVIOUS
  <2>5. QED
    BY <2>2, <2>3, <2>4, UsersKept
<1>7. QED
  BY <1>1, <1>2, <1>3, <1>4, <1>5, <1>6

\* A connection fails.
LEMMA ConnectingFails == ASSUME PoolInv, NEW r \in Request, ConnectFails(r)
  PROVE PoolInv'
<1> USE PoolBounds, RouteFacts DEF PoolInv, NoTimer, ConnectFails, Finishes, ClearedTimer
<1>1. PoolTypes'
  <2>1. /\ time' \in Nat /\ cached' \in Request \cup {None} /\ orphans' \in SUBSET Request
        /\ timer' \in [Request -> Nat \cup {NoTimer}]
    BY DEF PoolTypes
  <2>2. pool' \in [Request -> PoolState] /\ closedBy' \in [Request -> Reason]
    <3>1. pool \in [Request -> PoolState] /\ closedBy \in [Request -> Reason]
      BY DEF PoolTypes
    <3>2. "closed" \in PoolState /\ "failure" \in Reason
      BY DEF PoolState, Reason
    <3>3. pool' \in [Request -> PoolState]
      BY <3>1, <3>2
    <3>4. closedBy' \in [Request -> Reason]
      BY <3>1, <3>2
    <3>5. QED
      BY <3>3, <3>4
  <2>3. /\ state' \in [Request -> {"new", "connecting", "using", "done"}]
        /\ uses' \in [Request -> Request \cup {None}]
    BY DEF PoolTypes
  <2>4. route' \in [Request -> Route] /\ since' \in [Request -> Nat]
    BY DEF PoolTypes
  <2>5. QED
    BY <2>1, <2>2, <2>3, <2>4 DEF PoolTypes
<1>2. OwnPool'
  BY DEF PoolTypes, OwnPool, EntryTimed
<1>3. EntryTimed'
  BY DEF PoolTypes, OwnPool, EntryTimed
<1>4. OthersPushedOut'
  BY DEF PoolTypes, OwnPool, EntryTimed, OthersPushedOut, Known, Overlapped
<1>5. UsersInTime'
  BY DEF PoolTypes, OwnPool, EntryTimed, UsersInTime, UsersExcused
<1>6. UsersExcused'
  <2>1. pool[r] = "connecting" /\ r # cached
    BY DEF OwnPool, EntryTimed
  <2>2. \A q \in Request : state'[q] = "using" => state[q] = "using" /\ uses'[q] = uses[q]
    BY DEF PoolTypes
  <2>3. ASSUME NEW p \in Request, p # r
        PROVE  \/ pool'[p] = pool[p] /\ closedBy'[p] = closedBy[p]
               \/ pool'[p] = "closed" /\ closedBy'[p] = "failure"
    BY <2>1, <2>3 DEF PoolTypes
  <2>4. ASSUME NEW q \in Request, state[q] = "using", NEW p, p = uses[q]
        PROVE  \/ pool'[p] = pool[p] /\ closedBy'[p] = closedBy[p]
               \/ pool'[p] = "closed" /\ Excuse(closedBy'[p], orphans')
    BY <2>1, <2>3, <2>4, InUse DEF Excuse
  <2>5. QED
    BY <2>2, <2>4, UsersKept
<1>7. QED
  BY <1>1, <1>2, <1>3, <1>4, <1>5, <1>6

\* A query is answered.
LEMMA IsAnswered == ASSUME PoolInv, NEW r \in Request, QueryAnswered(r)
  PROVE PoolInv'
<1> USE PoolBounds, RouteFacts DEF PoolInv, NoTimer, QueryAnswered, Finishes
<1>1. PoolTypes'
  BY DEF PoolTypes, PoolState, Reason
<1>2. OwnPool'
  BY DEF PoolTypes, OwnPool, EntryTimed
<1>3. EntryTimed'
  BY DEF PoolTypes, OwnPool, EntryTimed
<1>4. OthersPushedOut'
  BY DEF PoolTypes, OwnPool, EntryTimed, OthersPushedOut, Known, Overlapped
<1>5. UsersInTime'
  BY DEF PoolTypes, OwnPool, EntryTimed, UsersInTime, UsersExcused
<1>6. UsersExcused'
  BY UsersKept, InUse DEF PoolTypes, OwnPool, EntryTimed, Excuse
<1>7. QED
  BY <1>1, <1>2, <1>3, <1>4, <1>5, <1>6

\* A query fails.
LEMMA QueryingFails == ASSUME PoolInv, NEW r \in Request, QueryFails(r)
  PROVE PoolInv'
<1> USE PoolBounds, RouteFacts DEF PoolInv, NoTimer, QueryFails, Finishes,
                               closeSharedPool, Closed, ClearedTimer
<1>1. PoolTypes'
  BY DEF PoolTypes, PoolState, Reason
<1>2. OwnPool'
  BY DEF PoolTypes, OwnPool, EntryTimed
<1>3. EntryTimed'
  BY DEF PoolTypes, OwnPool, EntryTimed
<1>4. OthersPushedOut'
  BY DEF PoolTypes, OwnPool, EntryTimed, OthersPushedOut, Known, Overlapped
<1>5. UsersInTime'
  BY DEF PoolTypes, OwnPool, EntryTimed, UsersInTime, UsersExcused
<1>6. UsersExcused'
  <2>1. Closed("failure") /\ uses' = uses /\ orphans' = orphans
    OBVIOUS
  <2>2. \A q \in Request : state'[q] = "using" => state[q] = "using" /\ uses'[q] = uses[q]
    BY DEF PoolTypes
  <2>3. ASSUME NEW p \in Request
        PROVE  \/ pool'[p] = pool[p] /\ closedBy'[p] = closedBy[p]
               \/ pool'[p] = "closed" /\ Excuse(closedBy'[p], orphans')
    BY <2>1, ClosedFacts DEF Excuse, Reason
  <2>4. QED
    BY <2>1, <2>2, <2>3, InUse, UsersKept
<1>7. QED
  BY <1>1, <1>2, <1>3, <1>4, <1>5, <1>6

\* A timer fires: of the entry, which nobody uses then, or of one that was replaced.
LEMMA TimesOut == ASSUME PoolInv, NEW r \in Request, TimerFires(r)
  PROVE PoolInv'
<1> DEFINE why == IF r = cached THEN "idle" ELSE "orphan's timer"
<1>1. /\ Closed(why) /\ why \in Reason /\ timer' = [ClearedTimer EXCEPT ![r] = NoTimer]
      /\ timer[r] # NoTimer /\ timer[r] \in Nat /\ time \in Nat /\ timer[r] <= time
      /\ UNCHANGED <<time, state, route, uses, since, orphans>>
  BY DEF TimerFires, Reason, PoolInv, PoolTypes
<1>2. /\ cached' = None
      /\ pool' \in [Request -> PoolState] /\ closedBy' \in [Request -> Reason]
      /\ \A p \in Request : IF p = cached THEN pool'[p] = "closed" /\ closedBy'[p] = why
                            ELSE pool'[p] = pool[p] /\ closedBy'[p] = closedBy[p]
  BY <1>1, ClosedFacts
<1>3. /\ timer' \in [Request -> Nat \cup {NoTimer}]
      /\ \A p \in Request : timer'[p] = IF p = cached \/ p = r THEN NoTimer ELSE timer[p]
  BY <1>1, ClearedFacts
<1>4. PoolTypes'
  BY <1>1, <1>2, <1>3 DEF PoolInv, PoolTypes
<1>5. OwnPool'
  <2> SUFFICES ASSUME NEW p \in Request
               PROVE  /\ state'[p] = "new" <=> uses'[p] = None
                      /\ pool'[p] # "none" <=> uses'[p] = p
                      /\ state'[p] = "connecting" <=> pool'[p] = "connecting"
    BY DEF OwnPool
  <2>1. UNCHANGED <<state, uses>>
    BY <1>1
  <2>2. CASE p = cached
    BY <1>2, <2>1, <2>2, PoolBounds DEF PoolInv, OwnPool, EntryTimed
  <2>3. CASE p # cached
    BY <1>2, <2>1, <2>3 DEF PoolInv, OwnPool
  <2>4. QED
    BY <2>2, <2>3
<1>6. EntryTimed' /\ UsersInTime'
  BY <1>1, <1>2, PoolBounds DEF PoolInv, PoolTypes, EntryTimed, UsersInTime, UsersExcused
<1>7. OthersPushedOut'
  BY <1>1, <1>2, <1>3 DEF PoolInv, OthersPushedOut, Known, Overlapped
<1>8. UsersExcused'
  <2>1. r # cached => orphans # {}
    BY <1>1 DEF PoolInv, OthersPushedOut, Known
  <2>2. ASSUME NEW q \in Request, state[q] = "using", NEW p, p = uses[q]
        PROVE  \/ pool'[p] = pool[p] /\ closedBy'[p] = closedBy[p]
               \/ pool'[p] = "closed" /\ Excuse(closedBy'[p], orphans')
    <3>1. p \in Request /\ (p = cached => timer[cached] > time)
      BY <2>2, InUse
    <3>2. CASE p = cached
      <4>1. r # cached
        <5>1. timer[r] \in Nat /\ time \in Nat /\ timer[r] <= time
          BY <1>1
        <5>2. timer[cached] > time
          BY <3>1, <3>2
        <5>3. QED
          BY <5>1, <5>2
      <4>2. QED
        BY <1>1, <1>2, <2>1, <3>1, <3>2, <4>1 DEF Excuse
    <3>3. CASE p # cached
      BY <1>2, <3>1, <3>3
    <3>4. QED
      BY <3>2, <3>3
  <2>3. QED
    BY <1>1, <2>2, UsersKept
<1>9. QED
  BY <1>4, <1>5, <1>6, <1>7, <1>8 DEF PoolInv

\* A server drops its connections.
LEMMA Drops == ASSUME PoolInv, NEW r \in Request, ServerDrops(r)
  PROVE PoolInv'
<1> USE PoolBounds, RouteFacts DEF PoolInv, NoTimer, ServerDrops
<1>1. PoolTypes'
  BY DEF PoolTypes, PoolState, Reason
<1>2. OwnPool'
  BY DEF PoolTypes, OwnPool, EntryTimed
<1>3. EntryTimed'
  BY DEF PoolTypes, OwnPool, EntryTimed
<1>4. OthersPushedOut'
  BY DEF PoolTypes, OwnPool, EntryTimed, OthersPushedOut, Known, Overlapped
<1>5. UsersInTime'
  BY DEF PoolTypes, OwnPool, EntryTimed, UsersInTime, UsersExcused
<1>6. UsersExcused'
  BY UsersKept, InUse DEF PoolTypes, OwnPool, EntryTimed, Excuse
<1>7. QED
  BY <1>1, <1>2, <1>3, <1>4, <1>5, <1>6

\* Time passes.
LEMMA Passes == ASSUME PoolInv, Pass PROVE PoolInv'
<1> USE PoolBounds, RouteFacts DEF PoolInv, NoTimer, Pass
<1>1. PoolTypes'
  <2>1. time' \in Nat
    BY DEF PoolTypes
  <2>2. QED
    BY <2>1 DEF PoolTypes
<1>2. OwnPool'
  BY DEF PoolTypes, OwnPool, EntryTimed
<1>3. EntryTimed'
  BY DEF PoolTypes, OwnPool, EntryTimed
<1>4. OthersPushedOut'
  BY DEF PoolTypes, OwnPool, EntryTimed, OthersPushedOut, Known, Overlapped
<1>5. UsersInTime'
  BY DEF PoolTypes, OwnPool, EntryTimed, UsersInTime, UsersExcused
<1>6. UsersExcused'
  BY UsersKept, InUse DEF PoolTypes, OwnPool, EntryTimed, Excuse
<1>7. QED
  BY <1>1, <1>2, <1>3, <1>4, <1>5, <1>6

LEMMA PoolInductive == SharedPoolSpec => []PoolInv
<1>1. PoolInv /\ [SharedPoolNext]_poolVars => PoolInv'
  <2> SUFFICES ASSUME PoolInv, [SharedPoolNext]_poolVars PROVE PoolInv'
    OBVIOUS
  <2>1. CASE UNCHANGED poolVars
    BY <2>1 DEF poolVars, PoolInv, PoolTypes, OwnPool, EntryTimed, OthersPushedOut, Known, Overlapped,
                UsersInTime, UsersExcused, Excuse
  <2>2. QED
    BY <2>1, Hits, Misses, Connects, ConnectingFails, IsAnswered, QueryingFails, TimesOut, Drops,
       Passes DEF SharedPoolNext
<1>2. QED
  BY <1>1, PoolInitially, PTL DEF SharedPoolSpec

\* No pool is left open by poolCache but those that overlapping connections pushed out
\* of it, and no request loses its pool to that pool's own idle timer (getSharedPool and
\* closeSharedPool of lib/mssql.ts).
THEOREM PoolsAreAccountedFor == SharedPoolSpec => []PoolsAccountedFor
<1>1. PoolInv => PoolsAccountedFor
  BY PoolBounds DEF PoolInv, PoolTypes, EntryTimed, OthersPushedOut, Known, UsersExcused, Excuse,
                PoolsAccountedFor
<1>2. QED
  BY <1>1, PoolInductive, PTL

-----------------------------------------------------------------------------
(* SignIn: a deleted user is served only as long as the tokens he has live, and a     *)
(* logout ends the session of its browser, for any number of tabs, requests, browsers *)
(* and users and any lifetimes of the tokens.                                         *)

Token == [user : 0..MaxUser, until : Nat]
WithAccess == {"sent", "again", "login"}
WithRefresh == {"refreshing", "renewed", "refused", "refreshed"}
Asking == {"none"} \cup WithAccess \cup WithRefresh

\* The types of what the arguments below are about.
SignInTypes ==
    /\ hour \in Nat
    /\ users \in [User -> {"unused", "present", "deleted"}]
    /\ deletedAt \in [User -> Nat \cup {Never}]
    /\ access \in [Browser -> Token] /\ refresh \in [Browser -> Token] /\ other \in Token
    /\ asking \in [Call -> Asking] /\ holds \in [Call -> Token]
    /\ signedOut \in [Browser -> BOOLEAN] /\ racing \in SUBSET Call

\* A token was signed for an account that existed, in the past, and no later than
\* the account was deleted.
Honest(k, life, h, us, del) ==
    k # NoToken => /\ k.user \in User /\ us[k.user] # "unused"
                   /\ k.until <= h + life
                   /\ us[k.user] = "deleted" => k.until <= del[k.user] + life

HonestNow(k, life) == Honest(k, life, hour, users, deletedAt)

\* A user who is not deleted, or was so in this very tick.
Standing(u) == users[u] = "deleted" => hour <= deletedAt[u]

\* The token of a request suits what it asks; a pair that is on its way was signed
\* in this tick.
Fits(s, k) ==
    /\ s \in WithAccess => HonestNow(k, AccessLife)
    /\ s \in WithRefresh => k # NoToken /\ HonestNow(k, RefreshLife)
    /\ s \in {"login", "renewed"} => k # NoToken /\ Standing(k.user)

TokensHonest ==
    /\ \A b \in Browser : HonestNow(access[b], AccessLife) /\ HonestNow(refresh[b], RefreshLife)
    /\ HonestNow(other, RefreshLife)
CallsFit == \A r \in Call : Fits(asking[r], holds[r])

\* The history variable agrees with the users table.
DeletionsBooked == /\ \A u \in User : users[u] = "deleted" <=> deletedAt[u] # Never
                   /\ \A u \in User : users[u] = "deleted" => deletedAt[u] <= hour

\* The last account was deleted by one that had been deleted itself.
LastGoesByDeleted ==
    (\A u \in User : users[u] # "present") =>
        \E u, by \in User : /\ u # by /\ {users[u], users[by]} = {"deleted"}
                            /\ deletedAt[u] - deletedAt[by] \in 0..(RefreshLife - 1)

\* After a logout the browser has no token at all, and who still waits for a
\* refresh is known to race.
SignedOutIsEmpty ==
    /\ \A b \in Browser : signedOut[b] => access[b] = NoToken /\ refresh[b] = NoToken
    /\ \A r \in Call : signedOut[StoreOf(r)] /\ asking[r] \in {"refreshing", "renewed"} => r \in racing

SignInInv == /\ SignInTypes /\ TokensHonest /\ CallsFit /\ DeletionsBooked
             /\ LastGoesByDeleted /\ SignedOutIsEmpty

\* What a step of the server leaves true.
ServerKept ==
    /\ hour' = hour
    /\ users' \in [User -> {"unused", "present", "deleted"}]
    /\ deletedAt' \in [User -> Nat \cup {Never}]
    /\ DeletionsBooked' /\ LastGoesByDeleted'
    /\ \A k \in Token, life \in {AccessLife, RefreshLife} : HonestNow(k, life) => HonestNow(k, life)'
    /\ \A u \in User : Standing(u) => Standing(u)'
-----------------------------------------------------------------------------
\* What the bounds give.
LEMMA TokenBounds ==
    /\ MaxUser \in Nat /\ MaxUser >= 2
    /\ AccessLife \in Nat /\ AccessLife >= 1 /\ RefreshLife \in Nat /\ AccessLife < RefreshLife
    /\ \A t \in Tab : BrowserOf[t] \in Browser
    /\ \A r \in Call : TabOf[r] \in Tab /\ StoreOf(r) \in Browser
    /\ NoToken \in Token /\ \A u \in User : u \in 0..MaxUser /\ u >= 1
BY SignInBounds DEF Token, NoToken, User, StoreOf

\* The first state.
LEMMA SignInInitially == SignInInit => SignInInv
<1> SUFFICES ASSUME SignInInit PROVE SignInInv
  OBVIOUS
<1> USE TokenBounds
<1>1. SignInTypes
  BY DEF SignInInit, SignInTypes, Asking
<1>2. TokensHonest /\ CallsFit
  BY DEF SignInInit, TokensHonest, CallsFit, Fits, HonestNow, Honest, WithAccess, WithRefresh
<1>3. DeletionsBooked
  BY DEF SignInInit, DeletionsBooked, Never
<1>4. LastGoesByDeleted
  <2>1. 1 \in User /\ users[1] = "present"
    BY DEF SignInInit, User
  <2>2. QED
    BY <2>1 DEF LastGoesByDeleted
<1>5. SignedOutIsEmpty
  BY DEF SignInInit, SignedOutIsEmpty
<1>6. QED
  BY <1>1, <1>2, <1>3, <1>4, <1>5 DEF SignInInv

\* Whoever has an access token's trust has a refresh token's.
LEMMA AccessIsLess ==
  ASSUME SignInInv, NEW k \in Token, HonestNow(k, AccessLife)
  PROVE  HonestNow(k, RefreshLife)
<1>1. CASE k = NoToken
  BY <1>1 DEF HonestNow, Honest
<1>2. CASE k # NoToken
  <2>1. k.until \in Nat /\ hour \in Nat /\ k.user \in User
    BY <1>2 DEF Token, SignInInv, SignInTypes, HonestNow, Honest
  <2>2. users[k.user] = "deleted" => deletedAt[k.user] \in Nat
    BY <2>1 DEF SignInInv, SignInTypes, DeletionsBooked
  <2>3. k.until <= hour + RefreshLife
    BY <1>2, <2>1, TokenBounds DEF HonestNow, Honest
  <2>4. users[k.user] = "deleted" => k.until <= deletedAt[k.user] + RefreshLife
    BY <1>2, <2>1, <2>2, TokenBounds DEF HonestNow, Honest
  <2>5. QED
    BY <1>2, <2>1, <2>3, <2>4 DEF HonestNow, Honest
<1>3. QED
  BY <1>1, <1>2

\* The pair of a user who stands is honest.
LEMMA SignedHonest ==
  ASSUME SignInInv, NEW u \in User, users[u] # "unused", Standing(u)
  PROVE  /\ AccessToken(u) \in Token /\ HonestNow(AccessToken(u), AccessLife)
         /\ RefreshToken(u) \in Token /\ HonestNow(RefreshToken(u), RefreshLife)
         /\ AccessToken(u) # NoToken /\ AccessToken(u).user = u
<1>1. hour \in Nat /\ (users[u] = "deleted" => deletedAt[u] \in Nat)
  BY DEF SignInInv, SignInTypes, DeletionsBooked
<1>2. /\ AccessToken(u) \in Token /\ AccessToken(u).user = u /\ AccessToken(u).until = hour + AccessLife
      /\ RefreshToken(u) \in Token /\ RefreshToken(u).user = u /\ RefreshToken(u).until = hour + RefreshLife
      /\ AccessToken(u) # NoToken
  BY <1>1, TokenBounds DEF AccessToken, RefreshToken, Token, NoToken
<1>3. /\ users[u] = "deleted" => hour + AccessLife <= deletedAt[u] + AccessLife
      /\ users[u] = "deleted" => hour + RefreshLife <= deletedAt[u] + RefreshLife
  BY <1>1, TokenBounds DEF Standing
<1>4. HonestNow(AccessToken(u), AccessLife) /\ HonestNow(RefreshToken(u), RefreshLife)
  BY <1>1, <1>2, <1>3, TokenBounds DEF HonestNow, Honest
<1>5. QED
  BY <1>2, <1>4
-----------------------------------------------------------------------------
\* The server stands still.
LEMMA StillKeeps == ASSUME SignInInv, hour' = hour, UNCHANGED serverVars PROVE ServerKept
BY DEF SignInInv, SignInTypes, DeletionsBooked, LastGoesByDeleted, ServerKept, HonestNow, Standing, serverVars

\* A new account changes neither the tokens nor the deletions.
LEMMA AddUserKeeps == ASSUME SignInInv, AddUser, hour' = hour PROVE ServerKept
<1> USE DEF SignInInv
<1>1. PICK u \in User : users[u] = "unused" /\ users' = [users EXCEPT ![u] = "present"]
                        /\ deletedAt' = deletedAt
  BY DEF AddUser
<1>2. users' \in [User -> {"unused", "present", "deleted"}] /\ users'[u] = "present"
  BY <1>1 DEF SignInTypes
<1>3. DeletionsBooked'
  BY <1>1, <1>2 DEF DeletionsBooked, SignInTypes
<1>4. LastGoesByDeleted'
  BY <1>2 DEF LastGoesByDeleted
<1>5. ASSUME NEW k \in Token, NEW life \in {AccessLife, RefreshLife}, HonestNow(k, life)
      PROVE  HonestNow(k, life)'
  BY <1>1, <1>5 DEF HonestNow, Honest, SignInTypes
<1>6. ASSUME NEW v \in User, Standing(v) PROVE Standing(v)'
  BY <1>1, <1>6 DEF Standing, SignInTypes
<1>7. QED
  BY <1>1, <1>2, <1>3, <1>4, <1>5, <1>6 DEF ServerKept, SignInTypes

\* A deletion leaves the tokens honest, and the last account goes only at the request of
\* an account that is gone, whose token has not ended.
LEMMA DeleteKeeps ==
  ASSUME SignInInv, NEW k \in Token, Valid(k), HonestNow(k, RefreshLife),
         NEW u \in User, DeleteUser(k.user, u), hour' = hour
  PROVE  ServerKept
<1> USE DEF SignInInv
<1> DEFINE by == k.user
<1>1. /\ u # by /\ users[u] = "present" /\ by \in User /\ users[by] # "unused"
      /\ users' = [users EXCEPT ![u] = "deleted"]
      /\ deletedAt' = [deletedAt EXCEPT ![u] = hour]
  BY DEF DeleteUser, Valid, HonestNow, Honest
<1>2. /\ users' \in [User -> {"unused", "present", "deleted"}]
      /\ deletedAt' \in [User -> Nat \cup {Never}]
  BY <1>1 DEF SignInTypes
<1>3. DeletionsBooked'
  <2>1. hour # Never /\ hour <= hour
    BY DEF SignInTypes, Never
  <2>2. QED
    BY <1>1, <2>1 DEF DeletionsBooked, SignInTypes
<1>4. LastGoesByDeleted'
  <2> SUFFICES ASSUME \A v \in User : users'[v] # "present"
               PROVE  /\ {users'[u], users'[by]} = {"deleted"}
                      /\ deletedAt'[u] - deletedAt'[by] \in 0..(RefreshLife - 1)
    BY <1>1 DEF LastGoesByDeleted
  <2>1. /\ users'[by] = users[by] /\ users[by] = "deleted" /\ users'[u] = "deleted"
        /\ deletedAt'[by] = deletedAt[by] /\ deletedAt'[u] = hour
    BY <1>1 DEF SignInTypes
  <2>2. deletedAt[by] \in Nat /\ hour \in Nat /\ deletedAt[by] <= hour /\ k.until \in Nat
    BY <1>1, <2>1 DEF SignInTypes, DeletionsBooked, Token
  <2>3. hour < k.until /\ k.until <= deletedAt[by] + RefreshLife
    BY <2>1 DEF Valid, HonestNow, Honest
  <2>4. hour - deletedAt[by] \in 0..(RefreshLife - 1)
    BY <2>2, <2>3, TokenBounds
  <2>5. QED
    BY <2>1, <2>4
<1>5. ASSUME NEW j \in Token, NEW life \in {AccessLife, RefreshLife}, HonestNow(j, life)
      PROVE  HonestNow(j, life)'
  BY <1>1, <1>5 DEF HonestNow, Honest, SignInTypes
<1>6. ASSUME NEW v \in User, Standing(v) PROVE Standing(v)'
  BY <1>1, <1>6 DEF Standing, SignInTypes
<1>7. QED
  BY <1>2, <1>3, <1>4, <1>5, <1>6 DEF ServerKept

\* What the handler of a request does that the server let through.
LEMMA ServeKeeps ==
  ASSUME SignInInv, NEW k \in Token, Valid(k), HonestNow(k, RefreshLife), Serve(k.user), hour' = hour
  PROVE  ServerKept
BY StillKeeps, AddUserKeeps, DeleteKeeps DEF Serve
-----------------------------------------------------------------------------
\* What a request bears stays fit while the server moves.
LEMMA FitsKept ==
  ASSUME SignInInv, ServerKept, NEW s, NEW k \in Token, Fits(s, k)
  PROVE  Fits(s, k)'
<1>1. s \in WithAccess => HonestNow(k, AccessLife)'
  BY DEF Fits, ServerKept
<1>2. s \in WithRefresh => k # NoToken /\ HonestNow(k, RefreshLife)'
  BY DEF Fits, ServerKept
<1>3. s \in {"login", "renewed"} => k # NoToken /\ Standing(k.user)'
  <2> SUFFICES ASSUME s \in {"login", "renewed"} PROVE k # NoToken /\ Standing(k.user)'
    OBVIOUS
  <2>1. k # NoToken /\ Standing(k.user) /\ k.user \in User
    BY DEF Fits, WithAccess, WithRefresh, HonestNow, Honest
  <2>2. QED
    BY <2>1 DEF ServerKept
<1>4. QED
  BY <1>1, <1>2, <1>3 DEF Fits

\* The tokens of the browsers and of the other client stay honest while the server moves.
LEMMA TokensKept ==
  ASSUME SignInInv, ServerKept, UNCHANGED <<access, refresh, other>>
  PROVE  TokensHonest'
BY DEF SignInInv, SignInTypes, TokensHonest, ServerKept

\* A step of one request that hands it a fitting token, while the server may move.
LEMMA MovesKeeps ==
  ASSUME SignInInv, NEW r \in Call, NEW s \in Asking, NEW k \in Token, ServerKept,
         Becomes(r, s), Bears(r, k), Fits(s, k),
         UNCHANGED <<access, refresh, other, signedOut, racing>>,
         s \in {"refreshing", "renewed"} =>
            asking[r] \in {"refreshing", "renewed"} \/ ~signedOut[StoreOf(r)]
  PROVE  SignInInv'
<1> USE DEF SignInInv
<1>1. asking' = [asking EXCEPT ![r] = s] /\ holds' = [holds EXCEPT ![r] = k]
  BY DEF Becomes, Bears
<1>2. SignInTypes'
  BY <1>1 DEF SignInTypes, ServerKept
<1>3. CallsFit'
  <2> SUFFICES ASSUME NEW q \in Call PROVE Fits(asking[q], holds[q])'
    BY DEF CallsFit
  <2>1. Fits(IF q = r THEN s ELSE asking[q], IF q = r THEN k ELSE holds[q])
    BY DEF CallsFit
  <2>2. PICK s1, k1 : s1 = asking'[q] /\ k1 = holds'[q]
    OBVIOUS
  <2>3. Fits(s1, k1)'
    <3>1. /\ s1 = IF q = r THEN s ELSE asking[q]
          /\ k1 = IF q = r THEN k ELSE holds[q]
          /\ k1 \in Token
      BY <1>1, <2>2 DEF SignInTypes
    <3>2. Fits(s1, k1)
      BY <2>1, <3>1
    <3>3. QED
      BY <3>1, <3>2, FitsKept
  <2>4. QED
    BY <2>2, <2>3 DEF Fits, HonestNow, Standing
<1>4. SignedOutIsEmpty'
  BY <1>1 DEF SignedOutIsEmpty, SignInTypes
<1>5. QED
  BY <1>2, <1>3, <1>4, TokensKept DEF ServerKept

\* The requests: they are sent, answered, refreshed and made again.
LEMMA RequestSteps ==
  ASSUME SignInInv, NEW r \in Call,
         \/ Send(r) \/ Answer(r) \/ Renews(r) \/ AskAgain(r) \/ AnsweredAgain(r)
         \/ RequestFails(r) \/ \E u \in User : Login(r, u)
  PROVE  SignInInv'
<1> USE DEF SignInInv
<1>1. /\ TabOf[r] \in Tab /\ StoreOf(r) \in Browser
      /\ holds[r] \in Token /\ Fits(asking[r], holds[r])
      /\ access[StoreOf(r)] \in Token /\ HonestNow(access[StoreOf(r)], AccessLife)
      /\ refresh[StoreOf(r)] \in Token /\ HonestNow(refresh[StoreOf(r)], RefreshLife)
  BY TokenBounds DEF SignInTypes, TokensHonest, CallsFit
<1>2. Fits("none", NoToken) /\ NoToken \in Token /\ "none" \in Asking
  BY TokenBounds DEF Fits, Asking, WithAccess, WithRefresh
<1>3. ASSUME ServerKept, Ends(r), UNCHANGED <<access, refresh, other, signedOut, racing>>
      PROVE  SignInInv'
  BY <1>2, <1>3, MovesKeeps DEF Ends
<1>4. CASE Send(r)
  <2>1. Fits("sent", access[StoreOf(r)]) /\ "sent" \in Asking
    BY <1>1 DEF Fits, Asking, WithAccess, WithRefresh
  <2>2. ServerKept
    BY <1>4, StillKeeps DEF Send
  <2>3. QED
    BY <1>1, <1>4, <2>1, <2>2, MovesKeeps DEF Send
<1>5. CASE Answer(r)
  <2>1. CASE Valid(holds[r])
    <3>1. HonestNow(holds[r], RefreshLife)
      BY <1>1, <1>5, AccessIsLess DEF Answer, Fits, WithAccess
    <3>2. ServerKept
      BY <1>1, <1>5, <2>1, <3>1, ServeKeeps DEF Answer
    <3>3. QED
      BY <1>3, <1>5, <2>1, <3>2 DEF Answer
  <2>2. CASE ~Valid(holds[r])
    <3>1. ServerKept
      BY <1>5, <2>2, StillKeeps DEF Answer
    <3>2. CASE refresh[StoreOf(r)] = NoToken
      BY <1>3, <1>5, <2>2, <3>1, <3>2 DEF Answer
    <3>3. CASE refresh[StoreOf(r)] # NoToken
      <4>1. Fits("refreshing", refresh[StoreOf(r)]) /\ "refreshing" \in Asking
        BY <1>1, <3>3 DEF Fits, Asking, WithAccess, WithRefresh
      <4>2. ~signedOut[StoreOf(r)]
        BY <1>1, <3>3 DEF SignedOutIsEmpty
      <4>3. QED
        BY <1>1, <1>5, <2>2, <3>1, <3>3, <4>1, <4>2, MovesKeeps DEF Answer
    <3>4. QED
      BY <3>2, <3>3
  <2>3. QED
    BY <2>1, <2>2
<1>6. CASE Renews(r)
  <2> DEFINE s == IF Valid(holds[r]) /\ StillThere(holds[r].user) THEN "renewed" ELSE "refused"
  <2>1. Fits(s, holds[r]) /\ s \in Asking
    BY <1>1, <1>6 DEF Renews, Fits, Asking, WithAccess, WithRefresh, StillThere, Standing
  <2>2. ServerKept /\ Becomes(r, s)
    BY <1>6, StillKeeps DEF Renews
  <2>3. Bears(r, holds[r])
    BY <1>6 DEF Renews, Bears, SignInTypes
  <2>4. QED
    BY <1>1, <1>6, <2>1, <2>2, <2>3, MovesKeeps DEF Renews
<1>7. CASE AskAgain(r)
  <2>1. Fits("again", access[StoreOf(r)]) /\ "again" \in Asking
    BY <1>1 DEF Fits, Asking, WithAccess, WithRefresh
  <2>2. ServerKept
    BY <1>7, StillKeeps DEF AskAgain
  <2>3. QED
    BY <1>1, <1>7, <2>1, <2>2, MovesKeeps DEF AskAgain
<1>8. CASE AnsweredAgain(r)
  <2>1. HonestNow(holds[r], RefreshLife)
    BY <1>1, <1>8, AccessIsLess DEF AnsweredAgain, Fits, WithAccess
  <2>2. ServerKept
    BY <1>1, <1>8, <2>1, ServeKeeps, StillKeeps DEF AnsweredAgain
  <2>3. QED
    BY <1>3, <1>8, <2>2 DEF AnsweredAgain
<1>9. CASE RequestFails(r)
  <2>1. ServerKept
    BY <1>9, StillKeeps DEF RequestFails
  <2>2. QED
    BY <1>3, <1>9, <2>1 DEF RequestFails
<1>10. ASSUME NEW u \in User, Login(r, u) PROVE SignInInv'
  <2>1. users[u] # "unused" /\ Standing(u)
    BY <1>10 DEF Login, Standing
  <2>2. /\ AccessToken(u) \in Token /\ HonestNow(AccessToken(u), AccessLife)
        /\ AccessToken(u) # NoToken /\ AccessToken(u).user = u
    BY <2>1, SignedHonest
  <2>3. Fits("login", AccessToken(u)) /\ "login" \in Asking
    BY <2>1, <2>2 DEF Fits, Asking, WithAccess, WithRefresh
  <2>4. ServerKept
    BY <1>10, StillKeeps DEF Login
  <2>5. QED
    BY <1>1, <1>10, <2>2, <2>3, <2>4, MovesKeeps DEF Login
<1>11. QED
  BY <1>4, <1>5, <1>6, <1>7, <1>8, <1>9, <1>10

\* The other client, a start of the server, which may make an account, and the passing
\* of time, when nothing is on its way.
LEMMA OtherSteps ==
  ASSUME SignInInv, (\E u \in User : OtherSigned(u)) \/ OtherServed \/ ServerStart \/ HourPasses
  PROVE  SignInInv'
<1> USE DEF SignInInv
<1>1. ASSUME ServerKept, other' \in Token, HonestNow(other, RefreshLife)',
             UNCHANGED <<access, refresh, asking, holds, signedOut, racing>>
      PROVE  SignInInv'
  <2>1. SignInTypes' /\ SignedOutIsEmpty'
    BY <1>1 DEF SignInTypes, ServerKept, SignedOutIsEmpty
  <2>2. TokensHonest'
    BY <1>1 DEF SignInTypes, TokensHonest, ServerKept
  <2>3. ASSUME NEW q \in Call PROVE Fits(asking[q], holds[q])'
    <3>1. PICK s, k : s = asking[q] /\ k = holds[q]
      OBVIOUS
    <3>2. Fits(s, k) /\ k \in Token
      BY <3>1 DEF CallsFit, SignInTypes
    <3>3. Fits(s, k)'
      BY <1>1, <3>2, FitsKept
    <3>4. s = asking'[q] /\ k = holds'[q]
      BY <1>1, <3>1
    <3>5. QED
      BY <3>3, <3>4 DEF Fits, HonestNow, Standing
  <2>4. QED
    BY <1>1, <2>1, <2>2, <2>3 DEF CallsFit, ServerKept
<1>2. ASSUME ServerKept, UNCHANGED <<other, access, refresh, asking, holds, signedOut, racing>>
      PROVE  SignInInv'
  <2>1. HonestNow(other, RefreshLife)' /\ other' \in Token
    BY <1>2 DEF ServerKept, SignInTypes, TokensHonest, HonestNow
  <2>2. QED
    BY <1>1, <1>2, <2>1
<1>3. ASSUME NEW u \in User, OtherSigned(u) PROVE SignInInv'
  <2>1. users[u] # "unused" /\ Standing(u)
    BY <1>3 DEF OtherSigned, StillThere, Standing
  <2>2. RefreshToken(u) \in Token /\ HonestNow(RefreshToken(u), RefreshLife)
    BY <2>1, SignedHonest
  <2>3. ServerKept /\ other' = RefreshToken(u) /\ UNCHANGED <<hour, users, deletedAt>>
    BY <1>3, StillKeeps DEF OtherSigned, serverVars
  <2>4. HonestNow(other, RefreshLife)' /\ other' \in Token
    BY <2>2, <2>3 DEF HonestNow
  <2>5. QED
    BY <1>1, <1>3, <2>3, <2>4 DEF OtherSigned
<1>4. CASE OtherServed
  <2>1. ServerKept
    BY <1>4, ServeKeeps DEF OtherServed, SignInTypes, TokensHonest
  <2>2. QED
    BY <1>2, <1>4, <2>1 DEF OtherServed
<1>5. CASE ServerStart
  <2>1. ServerKept
    BY <1>5, AddUserKeeps DEF ServerStart
  <2>2. QED
    BY <1>2, <1>5, <2>1 DEF ServerStart
<1>6. CASE HourPasses
  <2>1. /\ hour' = hour + 1 /\ \A r \in Call : asking'[r] = "none"
        /\ UNCHANGED <<users, deletedAt, access, refresh, asking, holds, other, signedOut, racing>>
    BY <1>6 DEF HourPasses, serverVars
  <2>2. SignInTypes'
    BY <2>1 DEF SignInTypes
  <2>3. ASSUME NEW k \in Token, NEW life \in {AccessLife, RefreshLife}, HonestNow(k, life)
        PROVE  HonestNow(k, life)'
    <3>1. CASE k = NoToken
      BY <3>1 DEF HonestNow, Honest
    <3>2. CASE k # NoToken
      <4>1. /\ k.until \in Nat /\ hour \in Nat /\ life \in Nat /\ k.until <= hour + life
            /\ k.user \in User /\ users[k.user] # "unused"
            /\ users[k.user] = "deleted" => k.until <= deletedAt[k.user] + life
        BY <2>3, <3>2, TokenBounds DEF HonestNow, Honest, Token, SignInTypes
      <4>2. k.until <= (hour + 1) + life
        BY <4>1
      <4>3. QED
        BY <2>1, <4>1, <4>2 DEF HonestNow, Honest
    <3>3. QED
      BY <3>1, <3>2
  <2>4. TokensHonest'
    BY <2>1, <2>3 DEF TokensHonest, SignInTypes, HonestNow
  <2>5. CallsFit'
    BY <2>1 DEF CallsFit, Fits, WithAccess, WithRefresh
  <2>6. DeletionsBooked'
    BY <2>1 DEF DeletionsBooked, SignInTypes
  <2>7. LastGoesByDeleted' /\ SignedOutIsEmpty'
    BY <2>1 DEF LastGoesByDeleted, SignedOutIsEmpty
  <2>8. QED
    BY <2>2, <2>4, <2>5, <2>6, <2>7
<1>7. QED
  BY <1>3, <1>4, <1>5, <1>6
-----------------------------------------------------------------------------
\* A browser gets a pair that was signed in this tick, of a user who stands.
LEMMA SetTokensKeeps ==
  ASSUME SignInInv, ServerKept, NEW r \in Call, NEW u \in User, users[u] # "unused", Standing(u),
         SetTokens(r, u), UNCHANGED <<serverVars, other>>
  PROVE  TokensHonest' /\ access' \in [Browser -> Token] /\ refresh' \in [Browser -> Token]
<1> DEFINE b == StoreOf(r)
<1> USE DEF SignInInv
<1>1. /\ access' = [access EXCEPT ![b] = AccessToken(u)]
      /\ refresh' = [refresh EXCEPT ![b] = RefreshToken(u)] /\ b \in Browser
      /\ hour' = hour /\ UNCHANGED <<users, deletedAt, other>>
  BY TokenBounds DEF SetTokens, ServerKept, serverVars
<1>2. /\ AccessToken(u) \in Token /\ HonestNow(AccessToken(u), AccessLife)
      /\ RefreshToken(u) \in Token /\ HonestNow(RefreshToken(u), RefreshLife)
  BY SignedHonest
<1>3. access' \in [Browser -> Token] /\ refresh' \in [Browser -> Token]
  BY <1>1, <1>2 DEF SignInTypes
<1>4. TokensHonest'
  BY <1>1, <1>2 DEF TokensHonest, SignInTypes, HonestNow
<1>5. QED
  BY <1>3, <1>4

\* The answer of a refresh: its user was there in this tick, and it ends the sign-out
\* only when it raced with the logout.
LEMMA RefreshedStep == ASSUME SignInInv, NEW r \in Call, Refreshed(r) PROVE SignInInv'
<1> USE DEF SignInInv
<1> DEFINE b == StoreOf(r)
           u == holds[r].user
<1>1. /\ asking' = [asking EXCEPT ![r] = "refreshed"] /\ holds' = holds /\ SetTokens(r, u)
      /\ signedOut' = [signedOut EXCEPT ![b] = @ /\ r \notin racing]
      /\ racing' = racing \ {r} /\ UNCHANGED <<hour, serverVars, other>> /\ asking[r] = "renewed"
  BY DEF Refreshed, Becomes
<1>2. b \in Browser /\ u \in User /\ users[u] # "unused" /\ Standing(u)
  <2>1. Fits("renewed", holds[r])
    BY <1>1 DEF CallsFit
  <2>2. QED
    BY <2>1, TokenBounds DEF Fits, WithRefresh, HonestNow, Honest
<1>3. ServerKept
  BY <1>1, StillKeeps
<1>4. /\ TokensHonest' /\ access' \in [Browser -> Token] /\ refresh' \in [Browser -> Token]
  BY <1>1, <1>2, <1>3, SetTokensKeeps
<1>5. ~signedOut'[b] /\ signedOut' \in [Browser -> BOOLEAN]
  BY <1>1, <1>2 DEF SignedOutIsEmpty, SignInTypes
<1>6. SignInTypes'
  BY <1>1, <1>3, <1>4, <1>5 DEF SignInTypes, ServerKept, Asking, WithRefresh
<1>7. CallsFit'
  BY <1>1 DEF CallsFit, Fits, WithAccess, WithRefresh, HonestNow, Standing, SignInTypes, serverVars
<1>8. SignedOutIsEmpty'
  <2>1. \A c \in Browser : c # b => /\ signedOut'[c] = signedOut[c] /\ access'[c] = access[c]
                                     /\ refresh'[c] = refresh[c]
    BY <1>1, <1>2 DEF SignInTypes, SetTokens
  <2>2. \A q \in Call : signedOut'[StoreOf(q)] /\ asking'[q] \in {"refreshing", "renewed"}
                          => q # r /\ asking[q] \in {"refreshing", "renewed"} /\ signedOut[StoreOf(q)]
    BY <1>1, <1>5, <2>1, TokenBounds DEF SignInTypes
  <2>3. \A q \in Call : signedOut'[StoreOf(q)] /\ asking'[q] \in {"refreshing", "renewed"}
                          => q \in racing'
    BY <1>1, <2>2 DEF SignedOutIsEmpty
  <2>4. \A c \in Browser : signedOut'[c] => access'[c] = NoToken /\ refresh'[c] = NoToken
    BY <1>5, <2>1 DEF SignedOutIsEmpty
  <2>5. QED
    BY <2>3, <2>4 DEF SignedOutIsEmpty
<1>9. QED
  BY <1>3, <1>4, <1>6, <1>7, <1>8 DEF ServerKept

LEMMA LoggedInStep == ASSUME SignInInv, NEW r \in Call, LoggedIn(r) PROVE SignInInv'
<1> USE DEF SignInInv
<1> DEFINE b == StoreOf(r)
           u == holds[r].user
<1>1. /\ asking' = [asking EXCEPT ![r] = "none"] /\ holds' = [holds EXCEPT ![r] = NoToken]
      /\ SetTokens(r, u) /\ signedOut' = [signedOut EXCEPT ![b] = FALSE]
      /\ UNCHANGED <<hour, serverVars, other, racing>> /\ asking[r] = "login"
  BY DEF LoggedIn, Ends, Becomes, Bears
<1>2. b \in Browser /\ u \in User /\ users[u] # "unused" /\ Standing(u)
  <2>1. Fits("login", holds[r])
    BY <1>1 DEF CallsFit
  <2>2. QED
    BY <2>1, TokenBounds DEF Fits, WithAccess, HonestNow, Honest
<1>3. ServerKept
  BY <1>1, StillKeeps
<1>4. /\ TokensHonest' /\ access' \in [Browser -> Token] /\ refresh' \in [Browser -> Token]
  BY <1>1, <1>2, <1>3, SetTokensKeeps
<1>5. SignInTypes'
  BY <1>1, <1>3, <1>4, TokenBounds DEF SignInTypes, ServerKept, Asking
<1>6. CallsFit'
  BY <1>1 DEF CallsFit, Fits, WithAccess, WithRefresh, HonestNow, Standing, SignInTypes, serverVars
<1>7. SignedOutIsEmpty'
  <2>1. \A c \in Browser : c # b => /\ signedOut'[c] = signedOut[c] /\ access'[c] = access[c]
                                     /\ refresh'[c] = refresh[c]
    BY <1>1, <1>2 DEF SignInTypes, SetTokens
  <2>2. ~signedOut'[b]
    BY <1>1, <1>2 DEF SignInTypes
  <2>3. \A q \in Call : signedOut'[StoreOf(q)] /\ asking'[q] \in {"refreshing", "renewed"}
                          => q \in racing'
    BY <1>1, <2>1, <2>2, TokenBounds DEF SignedOutIsEmpty, SignInTypes
  <2>4. QED
    BY <2>1, <2>2, <2>3 DEF SignedOutIsEmpty
<1>8. QED
  BY <1>3, <1>4, <1>5, <1>6, <1>7 DEF ServerKept

\* The tokens of a browser are removed.
LEMMA ClearedKeeps ==
  ASSUME SignInInv, ServerKept, NEW b \in Browser, ClearTokens(b), UNCHANGED <<serverVars, other>>
  PROVE  /\ TokensHonest' /\ access' \in [Browser -> Token] /\ refresh' \in [Browser -> Token]
         /\ access'[b] = NoToken /\ refresh'[b] = NoToken
         /\ \A c \in Browser : c # b => access'[c] = access[c] /\ refresh'[c] = refresh[c]
<1>1. HonestNow(NoToken, AccessLife) /\ HonestNow(NoToken, RefreshLife)
  BY DEF HonestNow, Honest
<1>2. /\ access' = [access EXCEPT ![b] = NoToken] /\ refresh' = [refresh EXCEPT ![b] = NoToken]
      /\ hour' = hour /\ UNCHANGED <<users, deletedAt, other>>
  BY DEF ClearTokens, ServerKept, serverVars
<1>3. QED
  BY <1>1, <1>2, TokenBounds DEF SignInInv, SignInTypes, TokensHonest, HonestNow

LEMMA RefreshFailsStep == ASSUME SignInInv, NEW r \in Call, RefreshFails(r) PROVE SignInInv'
<1> USE DEF SignInInv
<1> DEFINE b == StoreOf(r)
<1>1. /\ asking' = [asking EXCEPT ![r] = "none"] /\ holds' = [holds EXCEPT ![r] = NoToken]
      /\ ClearTokens(b) /\ racing' = racing \ {r}
      /\ UNCHANGED <<hour, serverVars, other, signedOut>> /\ b \in Browser
  BY TokenBounds DEF RefreshFails, Ends, Becomes, Bears
<1>2. ServerKept
  BY <1>1, StillKeeps
<1>3. /\ TokensHonest' /\ access' \in [Browser -> Token] /\ refresh' \in [Browser -> Token]
      /\ access'[b] = NoToken /\ refresh'[b] = NoToken
      /\ \A c \in Browser : c # b => access'[c] = access[c] /\ refresh'[c] = refresh[c]
  BY <1>1, <1>2, ClearedKeeps
<1>4. SignInTypes'
  BY <1>1, <1>2, <1>3, TokenBounds DEF SignInTypes, ServerKept, Asking
<1>5. CallsFit'
  BY <1>1 DEF CallsFit, Fits, WithAccess, WithRefresh, HonestNow, Standing, SignInTypes, serverVars
<1>6. SignedOutIsEmpty'
  BY <1>1, <1>3 DEF SignedOutIsEmpty, SignInTypes
<1>7. QED
  BY <1>2, <1>3, <1>4, <1>5, <1>6 DEF ServerKept

\* A logout removes them, and knows who races.
LEMMA LogoutStep == ASSUME SignInInv, NEW t \in Tab, Logout(t) PROVE SignInInv'
<1> USE DEF SignInInv
<1> DEFINE b == BrowserOf[t]
<1>1. /\ ClearTokens(b) /\ b \in Browser /\ signedOut' = [signedOut EXCEPT ![b] = TRUE]
      /\ racing' = racing \cup {r \in Call : StoreOf(r) = b /\ asking[r] \in {"refreshing", "renewed"}}
      /\ UNCHANGED <<hour, serverVars, asking, holds, other>>
  BY TokenBounds DEF Logout
<1>2. ServerKept
  BY <1>1, StillKeeps
<1>3. /\ TokensHonest' /\ access' \in [Browser -> Token] /\ refresh' \in [Browser -> Token]
      /\ access'[b] = NoToken /\ refresh'[b] = NoToken
      /\ \A c \in Browser : c # b => access'[c] = access[c] /\ refresh'[c] = refresh[c]
  BY <1>1, <1>2, ClearedKeeps
<1>4. SignInTypes'
  BY <1>1, <1>2, <1>3 DEF SignInTypes, ServerKept
<1>5. CallsFit'
  BY <1>1 DEF CallsFit, Fits, HonestNow, Standing, serverVars
<1>6. SignedOutIsEmpty'
  <2>1. \A c \in Browser : signedOut'[c] => access'[c] = NoToken /\ refresh'[c] = NoToken
    BY <1>1, <1>3 DEF SignedOutIsEmpty, SignInTypes
  <2>2. ASSUME NEW q \in Call, signedOut'[StoreOf(q)], asking'[q] \in {"refreshing", "renewed"}
        PROVE  q \in racing'
    <3>1. CASE StoreOf(q) = b
      BY <1>1, <2>2, <3>1
    <3>2. CASE StoreOf(q) # b
      BY <1>1, <2>2, <3>2, TokenBounds DEF SignedOutIsEmpty, SignInTypes
    <3>3. QED
      BY <3>1, <3>2
  <2>3. QED
    BY <2>1, <2>2 DEF SignedOutIsEmpty
<1>7. QED
  BY <1>2, <1>3, <1>4, <1>5, <1>6 DEF ServerKept

\* The tab is gone, and its requests with it.
LEMMA UnloadStep == ASSUME SignInInv, NEW t \in Tab, Unload(t) PROVE SignInInv'
<1> USE DEF SignInInv
<1>1. /\ asking' = [r \in Call |-> IF TabOf[r] = t THEN "none" ELSE asking[r]]
      /\ holds' = [r \in Call |-> IF TabOf[r] = t THEN NoToken ELSE holds[r]]
      /\ racing' = {r \in racing : TabOf[r] # t}
      /\ UNCHANGED <<hour, serverVars, access, refresh, other, signedOut>>
  BY DEF Unload
<1>2. ServerKept
  BY <1>1, StillKeeps
<1>3. SignInTypes'
  BY <1>1, <1>2, TokenBounds DEF SignInTypes, ServerKept, Asking
<1>4. CallsFit'
  BY <1>1 DEF CallsFit, Fits, WithAccess, WithRefresh, HonestNow, Standing, SignInTypes, serverVars
<1>5. SignedOutIsEmpty'
  BY <1>1 DEF SignedOutIsEmpty, SignInTypes
<1>6. QED
  BY <1>1, <1>2, <1>3, <1>4, <1>5, TokensKept DEF ServerKept
-----------------------------------------------------------------------------
LEMMA SignInNextKeeps == SignInInv /\ [SignInNext]_signInVars => SignInInv'
<1> SUFFICES ASSUME SignInInv, [SignInNext]_signInVars PROVE SignInInv'
  OBVIOUS
<1>1. ASSUME NEW r \in Call,
             \/ Send(r) \/ Answer(r) \/ Renews(r) \/ AskAgain(r) \/ AnsweredAgain(r)
             \/ RequestFails(r) \/ \E u \in User : Login(r, u)
      PROVE  SignInInv'
  BY <1>1, RequestSteps
<1>2. ASSUME NEW r \in Call, Refreshed(r) \/ LoggedIn(r) \/ RefreshFails(r) PROVE SignInInv'
  BY <1>2, RefreshedStep, LoggedInStep, RefreshFailsStep
<1>3. ASSUME NEW t \in Tab, Logout(t) \/ Unload(t) PROVE SignInInv'
  BY <1>3, LogoutStep, UnloadStep
<1>4. CASE (\E u \in User : OtherSigned(u)) \/ OtherServed \/ ServerStart \/ HourPasses
  BY <1>4, OtherSteps
<1>5. CASE UNCHANGED signInVars
  BY <1>5 DEF signInVars, serverVars, SignInInv, SignInTypes, TokensHonest, CallsFit, Fits, HonestNow,
              Standing, DeletionsBooked, LastGoesByDeleted, SignedOutIsEmpty
<1>6. QED
  BY <1>1, <1>2, <1>3, <1>4, <1>5 DEF SignInNext

LEMMA SignInInductive == SignInSpec => []SignInInv
<1>1. QED
  BY SignInInitially, SignInNextKeeps, PTL DEF SignInSpec

\* The token of a deleted user that is still served ends with a life of such a token
\* after the deletion.
LEMMA SignInInvDeletion == SignInInv => DeletionHolds
<1> SUFFICES ASSUME SignInInv PROVE DeletionHolds
  OBVIOUS
<1>1. ASSUME NEW k \in Token, NEW life \in {AccessLife, RefreshLife},
             Valid(k), HonestNow(k, life), deletedAt[k.user] # Never
      PROVE  hour < deletedAt[k.user] + life
  <2>1. hour < k.until /\ k.user \in User
    BY <1>1 DEF Valid, HonestNow, Honest
  <2>2. users[k.user] = "deleted" /\ k.until <= deletedAt[k.user] + life
    BY <1>1, <2>1 DEF SignInInv, DeletionsBooked, Valid, HonestNow, Honest
  <2>3. hour \in Nat /\ k.until \in Nat /\ deletedAt[k.user] \in Nat /\ life \in Nat
    BY <1>1, <2>1, TokenBounds DEF SignInInv, SignInTypes, Token
  <2>4. QED
    BY <2>1, <2>2, <2>3
<1>2. ASSUME NEW r \in Call, LetThrough(r), deletedAt[holds[r].user] # Never
      PROVE  hour < deletedAt[holds[r].user] + AccessLife
  <2>1. holds[r] \in Token /\ Valid(holds[r]) /\ HonestNow(holds[r], AccessLife)
    BY <1>2 DEF LetThrough, SignInInv, SignInTypes, CallsFit, Fits, WithAccess
  <2>2. QED
    BY <1>1, <1>2, <2>1
<1>3. Valid(other) /\ deletedAt[other.user] # Never => hour < deletedAt[other.user] + RefreshLife
  BY <1>1 DEF SignInInv, SignInTypes, TokensHonest
<1>4. QED
  BY <1>2, <1>3 DEF SignInInv, LastGoesByDeleted, DeletionHolds

(* Whatever tabs and clients refresh or log in meanwhile, a deleted user   *)
(* is served no longer than an access token lives through the web client   *)
(* and no longer than a refresh token lives by any client; and the last    *)
(* account goes only within that time after the deletion of another        *)
(* (lib/auth.ts, routes/users.ts).                                         *)
THEOREM DeletionIsFinal == SignInSpec => []DeletionHolds
<1>1. QED
  BY SignInInductive, SignInInvDeletion, PTL

(* After a logout the browser has neither token until a login, or until    *)
(* the answer of a refresh that some tab of it had asked before, the one   *)
(* that logs out included (web/src/lib/auth.ts).                           *)
THEOREM LogoutIsFinal == SignInSpec => []LogoutEnds
<1>1. SignInInv => LogoutEnds
  BY DEF SignInInv, SignedOutIsEmpty, LogoutEnds
<1>2. QED
  BY SignInInductive, <1>1, PTL

-----------------------------------------------------------------------------
(* Views: what is cached, on its way and shown of a view. *)

Version == Nat \cup {Unread}
Answers == [ver : Version, excused : BOOLEAN]
Fetches == [on : BOOLEAN, ver : Version, overtaken : BOOLEAN]

ViewsTypes ==
    /\ view \in Views /\ here \in BOOLEAN /\ arg \in Arg /\ late \in BOOLEAN
    /\ version \in Nat /\ seen \in Nat /\ seen <= version
    /\ cache \in [Arg -> Answers] /\ flight \in [Arg -> Fetches]

\* The mutations in flight change the view; what they wrote was written.
MutationOfView ==
    \A m \in mutation : /\ m.what \in Mutations /\ m.what.page = view.page
                        /\ m.what.writes \cap view.reads # {}
                        /\ m.ver \in Version /\ m.ver <= version

\* A fetch brings what the mutations wrote that were answered, unless one overtook it.
FetchBrings ==
    \A k \in Arg : flight[k].on =>
        flight[k].ver = Unread \/ flight[k].ver >= seen \/ flight[k].overtaken

CurrentAt(k) == view.form = "query" => cache[k].ver >= seen \/ cache[k].excused

\* What is shown is current or about to be replaced.
ShownIsCurrent == Query /\ here /\ ~flight[arg].on /\ cache[arg].ver # Unread => CurrentAt(arg)

\* Plans: what is shown, or may still come, was asked for last.
PlanIsLast ==
    ~Query => /\ \A k \in Arg : flight[k].on => k = arg \/ late
              /\ shown # Unread => shown = arg \/ late
              /\ mutation = {}

ViewsInv ==
    /\ ViewsTypes /\ MutationOfView /\ FetchBrings /\ ShownIsCurrent /\ PlanIsLast
-----------------------------------------------------------------------------
\* The views that a mutation of their page may change.
Changing == {Overview, InstancesList, GroupsList, GroupDetail, InstancesForGroups, UsersList,
             AlertsList, AlertCount, Tracked, WebhookForm}

LEMMA PlansDoNotPoll == \A v \in Views : v.poll => v.form \in {"query", "once"}
<1>1. ~QueryPlan.poll /\ ~BlockingPlan.poll /\ WebhookForm.form = "once"
  BY DEF QueryPlan, BlockingPlan, WebhookForm, Asked, View
<1>2. QED
  BY <1>1 DEF Views, Polled, Asked, View, Overview, InstancesList, GroupsList, GroupDetail,
       InstancesForGroups, UsersList, AlertsList, AlertCount, Tracked,
       GroupsOptions, GroupsOfForm, SettingsData, CollectorStatus, TopQueries, QueryTimeSeries,
       TopProcedures, ProcedureStatements, DatabaseDetail, DeadlockDetail, DeadlocksTable,
       DetailHealth, DetailHostInfo, DetailCpu, CurrentActivity, Timeline, MemoryClerksChart,
       MemoryBreakdown, DiskChart, DiskUsageTable, FileIoChart, WaitsChart, CpuMini, MemoryMini,
       SignalMini, DiskIoMini, DatabasesList, PermissionsTable, BlockingEvents, BlockingConfig,
       BlockingTree, ServerMetrics, ServerConfigTable, StatusBar, ExplorerQueries

LEMMA OthersReadNothing == \A v \in Views : v \in Changing \/ v.reads = {}
BY DEF Views, Changing, Polled, Asked, View, QueryPlan, BlockingPlan,
       GroupsOptions, GroupsOfForm, SettingsData, CollectorStatus, TopQueries, QueryTimeSeries,
       TopProcedures, ProcedureStatements, DatabaseDetail, DeadlockDetail, DeadlocksTable,
       DetailHealth, DetailHostInfo, DetailCpu, CurrentActivity, Timeline, MemoryClerksChart,
       MemoryBreakdown, DiskChart, DiskUsageTable, FileIoChart, WaitsChart, CpuMini, MemoryMini,
       SignalMini, DiskIoMini, DatabasesList, PermissionsTable, BlockingEvents, BlockingConfig,
       BlockingTree, ServerMetrics, ServerConfigTable, StatusBar, ExplorerQueries

\* Each mutation invalidates every view beside it that it changes.
LEMMA MutationsInvalidate ==
  ASSUME NEW v \in Views, NEW m \in Mutations,
         v.form = "query", m.page = v.page, m.writes \cap v.reads # {}
  PROVE  v.root \in m.invalidates
<1>1. v \in Changing
  BY OthersReadNothing
<1> USE DEF View, Mutation, Mutations, GroupViews, CardChange, ChangeInstance, SaveGroup, DeleteGroup,
            Regroup, ChangeUsers, Acknowledge, ChangeTracked, SaveWebhook
<1>2. CASE v = Overview
  BY <1>2 DEF Overview
<1>3. CASE v = InstancesList
  BY <1>3 DEF InstancesList
<1>4. CASE v = GroupsList
  BY <1>4 DEF GroupsList
<1>5. CASE v = GroupDetail
  BY <1>5 DEF GroupDetail
<1>6. CASE v = InstancesForGroups
  BY <1>6 DEF InstancesForGroups
<1>7. CASE v = UsersList
  BY <1>7 DEF UsersList
<1>8. CASE v = AlertsList
  BY <1>8 DEF AlertsList
<1>9. CASE v = AlertCount
  BY <1>9 DEF AlertCount
<1>10. CASE v = Tracked
  BY <1>10 DEF Tracked
<1>11. CASE v = WebhookForm
  BY <1>11 DEF WebhookForm, Asked
<1>12. QED
  BY <1>1, <1>2, <1>3, <1>4, <1>5, <1>6, <1>7, <1>8, <1>9, <1>10, <1>11 DEF Changing
-----------------------------------------------------------------------------
LEMMA ViewsInitially == ViewsInit => ViewsInv
<1> SUFFICES ASSUME ViewsInit PROVE ViewsInv
  OBVIOUS
<1>1. /\ view \in Views /\ here = FALSE /\ arg \in Arg /\ version = 0 /\ mutation = {}
      /\ cache = [k \in Arg |-> NoAnswer] /\ flight = [k \in Arg |-> NoFetch]
      /\ seen = 0 /\ shown = Unread /\ late = FALSE
  BY DEF ViewsInit
<1>2. ViewsTypes
  <2>1. NoAnswer \in Answers /\ NoFetch \in Fetches
    BY DEF NoAnswer, NoFetch, Answers, Fetches, Version
  <2>2. cache \in [Arg -> Answers] /\ flight \in [Arg -> Fetches]
    BY <1>1, <2>1
  <2>3. version \in Nat /\ seen \in Nat /\ seen <= version
    BY <1>1
  <2>4. QED
    BY <1>1, <2>2, <2>3 DEF ViewsTypes
<1>3. \A k \in Arg : cache[k].ver = Unread /\ flight[k].on = FALSE
  BY <1>1 DEF NoAnswer, NoFetch
<1>4. QED
  BY <1>1, <1>2, <1>3 DEF ViewsInv, MutationOfView, FetchBrings, ShownIsCurrent, PlanIsLast

\* A fetch that is started for the argument leaves the others alone.
LEMMA StartedFacts ==
  ASSUME ViewsInv, NEW a \in Arg
  PROVE  /\ Started(a) \in [Arg -> Fetches] /\ Started(a)[a].on
         /\ \A k \in Arg : Started(a)[k] = flight[k] \/ (k = a /\ Started(a)[k] = Fetch)
         /\ Fetch.on /\ Fetch.ver = Unread /\ Fetch \in Fetches
<1>1. Fetch.on /\ Fetch.ver = Unread /\ Fetch \in Fetches
  BY DEF Fetch, NoFetch, Version, Fetches
<1>2. CASE flight[a].on
  BY <1>1, <1>2 DEF Started, ViewsInv, ViewsTypes
<1>3. CASE ~flight[a].on
  <2>1. Started(a) = [flight EXCEPT ![a] = Fetch] /\ flight \in [Arg -> Fetches]
    BY <1>3 DEF Started, ViewsInv, ViewsTypes
  <2>2. QED
    BY <1>1, <2>1
<1>4. QED
  BY <1>2, <1>3

\* A step that starts at most a fetch, and shows nothing settled that was not.
LEMMA FetchStarts ==
  ASSUME ViewsInv, NEW a \in Arg, here' \in BOOLEAN, arg' = a, flight' = Started(a), Query,
         UNCHANGED <<view, cache, version, mutation, seen, late>>
  PROVE  ViewsInv'
<1>1. /\ \A k \in Arg : flight'[k] = flight[k] \/ (k = a /\ flight'[k] = Fetch)
      /\ flight'[a].on /\ Fetch.on /\ Fetch.ver = Unread
      /\ flight' \in [Arg -> Fetches]
  BY StartedFacts
<1>2. ViewsTypes'
  BY <1>1 DEF ViewsInv, ViewsTypes
<1>3. FetchBrings'
  BY <1>1 DEF ViewsInv, FetchBrings
<1>4. MutationOfView' /\ ShownIsCurrent' /\ PlanIsLast'
  BY <1>1 DEF ViewsInv, MutationOfView, ShownIsCurrent, PlanIsLast, Query
<1>5. QED
  BY <1>2, <1>3, <1>4 DEF ViewsInv

LEMMA MountKeeps == ASSUME ViewsInv, Mount PROVE ViewsInv'
BY FetchStarts DEF Mount, ViewsInv, ViewsTypes

LEMMA ChangeKeeps == ASSUME ViewsInv, NEW a \in Arg, Change(a) PROVE ViewsInv'
BY FetchStarts DEF Change, ViewsInv, ViewsTypes, Query

LEMMA PollKeeps == ASSUME ViewsInv, Poll PROVE ViewsInv'
<1>1. Query
  BY PlansDoNotPoll DEF Poll, ViewsInv, ViewsTypes, Query
<1>2. QED
  BY <1>1, FetchStarts DEF Poll, ViewsInv, ViewsTypes

\* The forms of the mutations in flight are gone, which nothing here looks at.
LEMMA UnmountKeeps == ASSUME ViewsInv, Unmount PROVE ViewsInv'
<1>1. /\ here' = FALSE /\ mutation' = {[m EXCEPT !.form = FALSE] : m \in mutation} /\ Query
      /\ UNCHANGED <<view, arg, cache, flight, version, seen, late>>
  BY DEF Unmount, cacheVars
<1>2. MutationOfView'
  <2> SUFFICES ASSUME NEW w \in mutation'
               PROVE  /\ w.what \in Mutations /\ w.what.page = view.page
                      /\ w.what.writes \cap view.reads # {}
                      /\ w.ver \in Version /\ w.ver <= version
    BY <1>1 DEF MutationOfView
  <2>1. PICK m \in mutation : w = [m EXCEPT !.form = FALSE]
    BY <1>1
  <2>2. w.what = m.what /\ w.ver = m.ver
    BY <2>1
  <2>3. QED
    BY <2>2 DEF ViewsInv, MutationOfView
<1>3. ViewsTypes' /\ FetchBrings' /\ ShownIsCurrent' /\ PlanIsLast'
  BY <1>1 DEF ViewsInv, ViewsTypes, FetchBrings, ShownIsCurrent, PlanIsLast, Query
<1>4. QED
  BY <1>2, <1>3 DEF ViewsInv

LEMMA ServerReadsKeeps == ASSUME ViewsInv, NEW k \in Arg, ServerReads(k) PROVE ViewsInv'
<1>1. /\ flight' = [flight EXCEPT ![k].ver = version] /\ flight[k].on
      /\ UNCHANGED <<view, here, arg, cache, version, mutation, seen, shown, late>>
  BY DEF ServerReads
<1>2. /\ flight' \in [Arg -> Fetches]
      /\ \A j \in Arg : /\ flight'[j].on = flight[j].on
                        /\ flight'[j].overtaken = flight[j].overtaken
                        /\ flight'[j].ver = IF j = k THEN version ELSE flight[j].ver
  BY <1>1 DEF ViewsInv, ViewsTypes, Version, Fetches
<1>3. ViewsTypes'
  BY <1>1, <1>2 DEF ViewsInv, ViewsTypes
<1>4. FetchBrings'
  BY <1>1, <1>2 DEF ViewsInv, ViewsTypes, FetchBrings
<1>5. MutationOfView' /\ ShownIsCurrent' /\ PlanIsLast'
  BY <1>1, <1>2 DEF ViewsInv, ViewsTypes, MutationOfView, ShownIsCurrent, CurrentAt, PlanIsLast, Query
<1>6. QED
  BY <1>3, <1>4, <1>5 DEF ViewsInv

\* A fetch brings an answer that is current or excused.
LEMMA BringsKeeps ==
  ASSUME ViewsInv, NEW k \in Arg, NEW got \in Answers, Query, Brings(k, got),
         got.ver # Unread, got.ver >= seen \/ got.excused
  PROVE  ViewsInv'
<1>1. /\ cache' = [cache EXCEPT ![k] = got] /\ flight' = [flight EXCEPT ![k] = NoFetch]
      /\ UNCHANGED <<view, here, arg, version, mutation, seen, late>>
  BY DEF Brings
<1>2. NoFetch \in Fetches /\ ~NoFetch.on
  BY DEF NoFetch, Version, Fetches
<1>3. /\ ViewsTypes'
      /\ \A j \in Arg : /\ cache'[j] = IF j = k THEN got ELSE cache[j]
                        /\ flight'[j] = IF j = k THEN NoFetch ELSE flight[j]
  BY <1>1, <1>2 DEF ViewsInv, ViewsTypes
<1>4. FetchBrings'
  BY <1>1, <1>2, <1>3 DEF ViewsInv, FetchBrings
<1>5. ShownIsCurrent'
  BY <1>1, <1>3 DEF ViewsInv, ViewsTypes, ShownIsCurrent, CurrentAt, Query
<1>6. MutationOfView' /\ PlanIsLast'
  BY <1>1 DEF ViewsInv, MutationOfView, PlanIsLast, Query
<1>7. QED
  BY <1>3, <1>4, <1>5, <1>6 DEF ViewsInv

LEMMA ArrivesKeeps == ASSUME ViewsInv, NEW k \in Arg, Arrives(k) PROVE ViewsInv'
<1> DEFINE got == [ver |-> flight[k].ver, excused |-> flight[k].overtaken]
<1>1. Query /\ flight[k].on /\ flight[k].ver # Unread /\ Brings(k, got)
  BY DEF Arrives
<1>2. got \in Answers
  BY DEF ViewsInv, ViewsTypes, Answers, Fetches
<1>3. got.ver # Unread /\ (got.ver >= seen \/ got.excused)
  BY <1>1 DEF ViewsInv, FetchBrings
<1> HIDE DEF got
<1>4. QED
  BY <1>1, <1>2, <1>3, BringsKeeps

LEMMA RefusedKeeps == ASSUME ViewsInv, NEW k \in Arg, Refused(k) PROVE ViewsInv'
<1> DEFINE got == [ver |-> 0, excused |-> TRUE]
<1>1. Query /\ Brings(k, got)
  BY DEF Refused
<1>2. got \in Answers /\ got.ver # Unread /\ got.excused
  BY DEF Answers, Version, Unread
<1> HIDE DEF got
<1>3. QED
  BY <1>1, <1>2, BringsKeeps

LEMMA FetchFailsKeeps == ASSUME ViewsInv, NEW k \in Arg, FetchFails(k) PROVE ViewsInv'
<1> DEFINE e == [cache[k] EXCEPT !.excused = (cache[k].ver # Unread)]
<1>1. /\ Query /\ flight[k].on /\ flight' = [flight EXCEPT ![k] = NoFetch]
      /\ cache' = [cache EXCEPT ![k] = e]
      /\ UNCHANGED <<view, here, arg, version, mutation, seen, shown, late>>
  BY DEF FetchFails
<1>2. NoFetch \in Fetches /\ ~NoFetch.on
  BY DEF NoFetch, Version, Fetches
<1>3. e \in Answers /\ e.ver = cache[k].ver /\ (e.ver # Unread => e.excused)
  BY DEF ViewsInv, ViewsTypes, Answers
<1> HIDE DEF e
<1>4. /\ ViewsTypes'
      /\ \A j \in Arg : /\ cache'[j] = IF j = k THEN e ELSE cache[j]
                        /\ flight'[j] = IF j = k THEN NoFetch ELSE flight[j]
  BY <1>1, <1>2, <1>3 DEF ViewsInv, ViewsTypes
<1>5. FetchBrings'
  BY <1>1, <1>2, <1>4 DEF ViewsInv, FetchBrings
<1>6. ShownIsCurrent'
  BY <1>1, <1>3, <1>4 DEF ViewsInv, ViewsTypes, ShownIsCurrent, CurrentAt, Query
<1>7. MutationOfView' /\ PlanIsLast'
  BY <1>1 DEF ViewsInv, MutationOfView, PlanIsLast, Query
<1>8. QED
  BY <1>4, <1>5, <1>6, <1>7 DEF ViewsInv

LEMMA ForgottenKeeps == ASSUME ViewsInv, NEW k \in Arg, Forgotten(k) PROVE ViewsInv'
<1>1. /\ Query /\ ~(here /\ k = arg) /\ cache' = [cache EXCEPT ![k] = NoAnswer]
      /\ UNCHANGED <<view, here, arg, flight, version, mutation, seen, shown, late>>
  BY DEF Forgotten
<1>2. NoAnswer \in Answers /\ NoAnswer.ver = Unread
  BY DEF NoAnswer, Version, Answers
<1>3. /\ ViewsTypes'
      /\ \A j \in Arg : cache'[j] = IF j = k THEN NoAnswer ELSE cache[j]
  BY <1>1, <1>2 DEF ViewsInv, ViewsTypes
<1>4. FetchBrings'
  BY <1>1, <1>2, <1>3 DEF ViewsInv, FetchBrings
<1>5. ShownIsCurrent'
  BY <1>1, <1>2, <1>3 DEF ViewsInv, ViewsTypes, ShownIsCurrent, CurrentAt, Query
<1>6. MutationOfView' /\ PlanIsLast'
  BY <1>1 DEF ViewsInv, MutationOfView, PlanIsLast, Query
<1>7. QED
  BY <1>3, <1>4, <1>5, <1>6 DEF ViewsInv
-----------------------------------------------------------------------------
LEMMA MutateKeeps == ASSUME ViewsInv, NEW m \in Mutations, Mutate(m) PROVE ViewsInv'
<1>1. PICK w : /\ mutation' = mutation \cup {w}
               /\ w.what = m /\ w.ver = Unread
  <2> DEFINE n == Min(1..MaxWrites \ {v.n : v \in mutation})
             w == [n |-> n, what |-> m, ver |-> Unread, form |-> view.form = "once"]
  <2>1. mutation' = mutation \cup {w} /\ w.what = m /\ w.ver = Unread
    BY DEF Mutate
  <2> HIDE DEF w
  <2>2. QED
    BY <2>1
<1>2. /\ Query /\ m.page = view.page /\ m.writes \cap view.reads # {}
      /\ UNCHANGED <<view, here, arg, cache, flight, version, seen, shown, late>>
  BY DEF Mutate, cacheVars
<1>3. Unread \in Version /\ Unread <= version
  BY DEF ViewsInv, ViewsTypes, Version, Unread
<1>4. MutationOfView'
  BY <1>1, <1>2, <1>3 DEF ViewsInv, MutationOfView
<1>5. ViewsTypes' /\ FetchBrings'
  BY <1>2 DEF ViewsInv, ViewsTypes, FetchBrings
<1>6. ShownIsCurrent' /\ PlanIsLast'
  BY <1>2 DEF ViewsInv, ShownIsCurrent, CurrentAt, PlanIsLast, Query
<1>7. QED
  BY <1>4, <1>5, <1>6 DEF ViewsInv

LEMMA WrittenKeeps == ASSUME ViewsInv, NEW m \in mutation, Written(m) PROVE ViewsInv'
<1> DEFINE w == [m EXCEPT !.ver = version + 1]
<1>1. /\ mutation' = (mutation \ {m}) \cup {w} /\ version' = version + 1
      /\ UNCHANGED <<view, here, arg, cache, flight, seen, shown, late>>
  BY DEF Written, cacheVars
<1>2. w.what = m.what
  OBVIOUS
<1>3. w.ver \in Version /\ w.ver <= version'
  <2>1. w.ver = version + 1 \/ w.ver = m.ver
    OBVIOUS
  <2>2. version \in Nat /\ m.ver \in Version /\ m.ver <= version
    BY DEF ViewsInv, ViewsTypes, MutationOfView
  <2> HIDE DEF w
  <2>3. QED
    BY <1>1, <2>1, <2>2 DEF Version, Unread
<1> HIDE DEF w
<1>4. MutationOfView'
  <2>1. version \in Nat /\ \A v \in mutation : v.ver \in Int /\ v.ver <= version
    BY DEF ViewsInv, ViewsTypes, MutationOfView, Version, Unread
  <2>2. \A v \in mutation : v.ver <= version'
    BY <1>1, <2>1
  <2>3. QED
    BY <1>1, <1>2, <1>3, <2>2 DEF ViewsInv, MutationOfView
<1>5. ViewsTypes'
  BY <1>1 DEF ViewsInv, ViewsTypes
<1>6. FetchBrings' /\ ShownIsCurrent'
  BY <1>1 DEF ViewsInv, FetchBrings, ShownIsCurrent, CurrentAt, Query
<1>7. PlanIsLast'
  BY <1>1 DEF ViewsInv, PlanIsLast, Query
<1>8. QED
  BY <1>4, <1>5, <1>6, <1>7 DEF ViewsInv

\* After an invalidation a fetch is new or as it was; what is shown is fetched unless its
\* first fetch is still on the way.
LEMMA RefetchedFacts ==
  ASSUME ViewsInv, NEW f \in [Arg -> Fetches], \A k \in Arg : f[k].on = flight[k].on
  PROVE  /\ Refetched(f) \in [Arg -> Fetches]
         /\ \A k \in Arg : Refetched(f)[k] = f[k] \/ Refetched(f)[k].ver = Unread
         /\ here /\ cache[arg].ver # Unread => Refetched(f)[arg].on
         /\ \A k \in Arg : flight[k].on => Refetched(f)[k].on
<1>1. arg \in Arg /\ Fetch \in Fetches /\ Fetch.on /\ Fetch.ver = Unread
  BY StartedFacts DEF ViewsInv, ViewsTypes
<1>2. CASE Refetched(f) = f /\ ~(here /\ (flight[arg].on => cache[arg].ver # Unread))
  BY <1>1, <1>2
<1>3. CASE Refetched(f) = [f EXCEPT ![arg] = Fetch]
  <2>1. \A k \in Arg : Refetched(f)[k] = IF k = arg THEN Fetch ELSE f[k]
    BY <1>3
  <2>2. Refetched(f) \in [Arg -> Fetches]
    BY <1>1, <1>3
  <2>3. QED
    BY <1>1, <2>1, <2>2
<1>4. QED
  BY <1>2, <1>3 DEF Refetched

LEMMA MutationAnsweredKeeps ==
  ASSUME ViewsInv, NEW m \in mutation, MutationAnswered(m) PROVE ViewsInv'
<1>1. /\ m.ver # Unread /\ mutation' = mutation \ {m}
      /\ flight' = IF Invalidates(m.what) THEN Refetched(Overtaken) ELSE Overtaken
      /\ seen' = IF m.ver > seen THEN m.ver ELSE seen
      /\ UNCHANGED <<view, here, arg, cache, version, late>>
  BY DEF MutationAnswered
<1>2. Query
  BY DEF ViewsInv, PlanIsLast
<1>3. /\ Overtaken \in [Arg -> Fetches]
      /\ \A k \in Arg : /\ Overtaken[k].on = flight[k].on
                        /\ Overtaken[k].ver = Unread \/ Overtaken[k].overtaken
  BY DEF Overtaken, ViewsInv, ViewsTypes, Fetches
<1>4. /\ flight' \in [Arg -> Fetches]
      /\ \A k \in Arg : flight'[k].ver = Unread \/ flight'[k].overtaken
      /\ Invalidates(m.what) /\ here /\ cache[arg].ver # Unread => flight'[arg].on
  <2>1. CASE Invalidates(m.what)
    <3>1. flight' = Refetched(Overtaken)
      BY <1>1, <2>1
    <3>2. \A k \in Arg : Refetched(Overtaken)[k] = Overtaken[k] \/ Refetched(Overtaken)[k].ver = Unread
      BY <1>3, RefetchedFacts
    <3>3. /\ Refetched(Overtaken) \in [Arg -> Fetches]
          /\ here /\ cache[arg].ver # Unread => Refetched(Overtaken)[arg].on
      BY <1>3, RefetchedFacts
    <3>4. QED
      BY <1>3, <3>1, <3>2, <3>3
  <2>2. CASE ~Invalidates(m.what)
    BY <1>1, <1>3, <2>2
  <2>3. QED
    BY <2>1, <2>2
<1>5. seen' \in Nat /\ seen' <= version
  BY <1>1 DEF ViewsInv, ViewsTypes, MutationOfView, Version
<1>6. ViewsTypes'
  BY <1>1, <1>4, <1>5 DEF ViewsInv, ViewsTypes
<1>7. FetchBrings'
  BY <1>4 DEF FetchBrings
<1>8. ShownIsCurrent'
  <2>1. CASE view.form = "query"
    <3>1. Invalidates(m.what)
      BY <2>1, MutationsInvalidate DEF ViewsInv, ViewsTypes, MutationOfView, Invalidates
    <3>2. QED
      BY <1>1, <1>4, <3>1 DEF ShownIsCurrent
  <2>2. CASE view.form # "query"
    BY <1>1, <2>2 DEF ShownIsCurrent, CurrentAt
  <2>3. QED
    BY <2>1, <2>2
<1>9. MutationOfView' /\ PlanIsLast'
  BY <1>1, <1>2 DEF ViewsInv, MutationOfView, PlanIsLast, Query
<1>10. QED
  BY <1>6, <1>7, <1>8, <1>9 DEF ViewsInv

LEMMA MutationFailsKeeps ==
  ASSUME ViewsInv, NEW m \in mutation, MutationFails(m) PROVE ViewsInv'
<1>1. /\ flight' = flight \/ flight' = Refetched(flight)
      /\ mutation' = mutation \ {m}
      /\ UNCHANGED <<view, here, arg, cache, version, seen, shown, late>>
  BY DEF MutationFails
<1>2. Query
  BY DEF ViewsInv, PlanIsLast
<1>3. /\ flight' \in [Arg -> Fetches]
      /\ \A k \in Arg : flight'[k] = flight[k] \/ flight'[k].ver = Unread
      /\ \A k \in Arg : flight[k].on => flight'[k].on
  <2>1. flight \in [Arg -> Fetches]
    BY DEF ViewsInv, ViewsTypes
  <2>2. /\ Refetched(flight) \in [Arg -> Fetches]
        /\ \A k \in Arg : Refetched(flight)[k] = flight[k] \/ Refetched(flight)[k].ver = Unread
        /\ \A k \in Arg : flight[k].on => Refetched(flight)[k].on
    BY <2>1, RefetchedFacts
  <2>3. QED
    BY <1>1, <2>1, <2>2
<1>4. ViewsTypes'
  BY <1>1, <1>3 DEF ViewsInv, ViewsTypes
<1>5. FetchBrings'
  BY <1>1, <1>3 DEF ViewsInv, FetchBrings
<1>6. ShownIsCurrent'
  BY <1>1, <1>3 DEF ViewsInv, ViewsTypes, ShownIsCurrent, CurrentAt, Query
<1>7. MutationOfView' /\ PlanIsLast'
  BY <1>1, <1>2 DEF ViewsInv, MutationOfView, PlanIsLast, Query
<1>8. QED
  BY <1>4, <1>5, <1>6, <1>7 DEF ViewsInv
-----------------------------------------------------------------------------
LEMMA AskPlanKeeps == ASSUME ViewsInv, NEW a \in Arg, AskPlan(a) PROVE ViewsInv'
<1>1. /\ ~Query /\ arg' = a /\ shown' = Unread /\ flight' = [flight EXCEPT ![a] = Fetch]
      /\ late' = (\E k \in Arg : flight[k].on)
      /\ UNCHANGED <<view, here, cache, version, mutation, seen>>
  BY DEF AskPlan
<1>2. Fetch \in Fetches /\ Fetch.on /\ Fetch.ver = Unread
  BY StartedFacts
<1>3. /\ flight' \in [Arg -> Fetches]
      /\ \A k \in Arg : flight'[k] = IF k = a THEN Fetch ELSE flight[k]
  BY <1>1, <1>2 DEF ViewsInv, ViewsTypes
<1>4. late' \in BOOLEAN
  BY <1>1
<1>5. ViewsTypes'
  BY <1>1, <1>3, <1>4 DEF ViewsInv, ViewsTypes
<1>6. FetchBrings'
  BY <1>1, <1>2, <1>3 DEF ViewsInv, FetchBrings
<1>7. PlanIsLast'
  <2>1. \A k \in Arg : flight'[k].on => k = a \/ late'
    BY <1>1, <1>3
  <2>2. QED
    BY <1>1, <2>1 DEF ViewsInv, PlanIsLast, Query
<1>8. MutationOfView' /\ ShownIsCurrent'
  BY <1>1 DEF ViewsInv, MutationOfView, ShownIsCurrent, Query
<1>9. QED
  BY <1>5, <1>6, <1>7, <1>8 DEF ViewsInv

LEMMA PlanArrivesKeeps == ASSUME ViewsInv, NEW a \in Arg, PlanArrives(a) PROVE ViewsInv'
<1>1. /\ ~Query /\ flight[a].on /\ shown' = a /\ flight' = [flight EXCEPT ![a] = NoFetch]
      /\ UNCHANGED <<view, here, arg, cache, version, mutation, seen, late>>
  BY DEF PlanArrives
<1>2. NoFetch \in Fetches /\ ~NoFetch.on
  BY DEF NoFetch, Version, Fetches
<1>3. /\ flight' \in [Arg -> Fetches]
      /\ \A k \in Arg : flight'[k] = IF k = a THEN NoFetch ELSE flight[k]
  BY <1>1, <1>2 DEF ViewsInv, ViewsTypes
<1>4. ViewsTypes'
  BY <1>1, <1>3 DEF ViewsInv, ViewsTypes
<1>5. FetchBrings'
  BY <1>1, <1>2, <1>3 DEF ViewsInv, FetchBrings
<1>6. PlanIsLast'
  BY <1>1, <1>2, <1>3 DEF ViewsInv, PlanIsLast, Query
<1>7. MutationOfView' /\ ShownIsCurrent'
  BY <1>1 DEF ViewsInv, MutationOfView, ShownIsCurrent, Query
<1>8. QED
  BY <1>4, <1>5, <1>6, <1>7 DEF ViewsInv

LEMMA ClosePlanKeeps == ASSUME ViewsInv, ClosePlan PROVE ViewsInv'
<1>1. /\ ~Query /\ shown' = Unread /\ late' = (\E k \in Arg : flight[k].on)
      /\ UNCHANGED <<view, here, arg, cache, flight, version, mutation, seen>>
  BY DEF ClosePlan, cacheVars, Query
<1>2. late' \in BOOLEAN /\ \A k \in Arg : flight[k].on => late'
  BY <1>1
<1>3. ViewsTypes' /\ FetchBrings'
  BY <1>1, <1>2 DEF ViewsInv, ViewsTypes, FetchBrings
<1>4. MutationOfView' /\ ShownIsCurrent' /\ PlanIsLast'
  BY <1>1, <1>2 DEF ViewsInv, MutationOfView, ShownIsCurrent, PlanIsLast, Query
<1>5. QED
  BY <1>3, <1>4 DEF ViewsInv

LEMMA ViewsNextKeeps == ViewsInv /\ [ViewsNext]_viewsVars => ViewsInv'
<1> SUFFICES ASSUME ViewsInv, [ViewsNext]_viewsVars PROVE ViewsInv'
  OBVIOUS
<1>1. CASE Mount \/ Unmount \/ Poll \/ ClosePlan
  BY <1>1, MountKeeps, UnmountKeeps, PollKeeps, ClosePlanKeeps
<1>2. ASSUME NEW m \in mutation, Written(m) \/ MutationAnswered(m) \/ MutationFails(m) PROVE ViewsInv'
  BY <1>2, WrittenKeeps, MutationAnsweredKeeps, MutationFailsKeeps
<1>3. ASSUME NEW a \in Arg, Change(a) \/ ServerReads(a) \/ Arrives(a) \/ Refused(a) \/ FetchFails(a)
      PROVE  ViewsInv'
  BY <1>3, ChangeKeeps, ServerReadsKeeps, ArrivesKeeps, RefusedKeeps, FetchFailsKeeps
<1>4. ASSUME NEW a \in Arg, Forgotten(a) \/ AskPlan(a) \/ PlanArrives(a) PROVE ViewsInv'
  BY <1>4, ForgottenKeeps, AskPlanKeeps, PlanArrivesKeeps
<1>5. ASSUME NEW m \in Mutations, Mutate(m) PROVE ViewsInv'
  BY <1>5, MutateKeeps
<1>6. CASE UNCHANGED viewsVars
  BY <1>6 DEF viewsVars, cacheVars, ViewsInv, ViewsTypes, MutationOfView, FetchBrings,
              ShownIsCurrent, CurrentAt, PlanIsLast, Query
<1>7. QED
  BY <1>1, <1>2, <1>3, <1>4, <1>5, <1>6 DEF ViewsNext

LEMMA ViewsFollow == ViewsInv => SettledIsCurrent
<1> SUFFICES ASSUME ViewsInv PROVE SettledIsCurrent
  OBVIOUS
<1>1. CASE Query
  BY <1>1 DEF ViewsInv, ViewsTypes, ShownIsCurrent, CurrentAt, SettledIsCurrent, Settled
<1>2. CASE ~Query
  BY <1>2 DEF ViewsInv, PlanIsLast, SettledIsCurrent
<1>3. QED
  BY <1>1, <1>2

(* A view that waits for nothing shows what the mutations of its page      *)
(* wrote that were answered, apart from the exceptions it names, for any   *)
(* number of arguments, mutations in flight and writes and any order of    *)
(* clicks, polls, answers and failures (the queries and mutations of       *)
(* web/src).                                                               *)
THEOREM SettledViewsAreCurrent == ViewsSpec => []SettledIsCurrent
BY ViewsInitially, ViewsNextKeeps, ViewsFollow, PTL DEF ViewsSpec
================================================================================
