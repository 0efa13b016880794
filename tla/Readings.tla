-------------------------------- MODULE Readings --------------------------------
(***************************************************************************)
(* What the read-only API answers (routes/metrics.ts, queries.ts and       *)
(* blocking.ts) while collection cycles store rows (the                    *)
(* batch inserts of collector/worker-pool.ts).                             *)
(*                                                                         *)
(* Rows of one cycle belong together, but no table has a cycle number: a   *)
(* reader knows a cycle by the stamp of its rows.  In some tables it is    *)
(* the time at which the SQL Server answered, or one value for the whole   *)
(* statement, the same for all rows of the cycle; in the others it is      *)
(* new Date() for every row.  A table is described by how many rows an     *)
(* instance has in a cycle, how they are stamped and whether a cycle adds  *)
(* to the table or replaces what it holds; a handler by its table, the     *)
(* form of its query and whether only recent rows count.  A behaviour is   *)
(* about one instance, one handler and one request.  Aggregation, sorting, *)
(* filters other than time and the shape of the answer are left out.  So   *)
(* are the routes of deadlocks.ts: they select by the time of the deadlock *)
(* itself, whatever cycle stored it.                                       *)
(***************************************************************************)
EXTENDS Integers, Sequences, FiniteSetsExt

CONSTANTS MaxKey,     \* bound: rows of an instance in a cycle
          MaxCycles,  \* bound: cycles
          MaxClock,   \* bound: the clock stops here
          Recent,     \* the span of a query for recent rows, and of a range
          Expiry      \* the age at which a partition is dropped

ASSUME ReadingsBounds ==
    /\ {MaxKey, MaxCycles, MaxClock} \subseteq Nat
    /\ {Recent, Expiry} \subseteq Nat \ {0} /\ Recent <= Expiry

-----------------------------------------------------------------------------
(* The tables. *)

Key == 1..MaxKey
Table(rows, stamp, kept) == [rows |-> rows, stamp |-> stamp, kept |-> kept]

instance_health          == Table("one",  "once", "all")
os_cpu                   == Table("one",  "once", "all")
os_memory                == Table("one",  "once", "all")
os_host_info             == Table("one",  "once", "all")
active_sessions_snapshot == Table("many", "once", "all")
os_disk                  == Table("many", "once", "all")
wait_stats_raw           == Table("many", "each", "all")
file_io_stats            == Table("many", "each", "all")
perf_counters_raw        == Table("many", "each", "all")
memory_clerks_raw        == Table("many", "each", "all")
database_metrics_raw     == Table("many", "each", "all")
query_stats_raw          == Table("many", "each", "all")
procedure_stats_raw      == Table("many", "each", "all")
procedure_statements_raw == Table("many", "each", "all")
blocking_events          == Table("many", "each", "all")
server_config            == Table("one",  "once", "replaced")
server_role_members      == Table("many", "once", "replaced")
database_properties      == Table("many", "once", "replaced")
database_files           == Table("many", "once", "replaced")

-----------------------------------------------------------------------------
(* The handlers.  The forms: "newest" the rows with the greatest stamp,    *)
(* "newestInTwo" the same with the stamp read by a statement of its own,   *)
(* "newestRow" one row, "perKey" the newest row of every key, "span" the   *)
(* rows of a time range, "top" the rows in a range of keys that an earlier *)
(* statement has chosen, "stamps" the stamps only, "whole" the table.      *)

Handler(table, form, recent) == [table |-> table, form |-> form, recent |-> recent]

OverviewCpu       == Handler(os_cpu, "perKey", TRUE)
OverviewMemory    == Handler(os_memory, "perKey", TRUE)
OverviewHealth    == Handler(instance_health, "perKey", TRUE)
OverviewWaits     == Handler(wait_stats_raw, "newest", TRUE)
OverviewDiskIo    == Handler(file_io_stats, "newest", TRUE)
Cpu               == Handler(os_cpu, "span", FALSE)
Memory            == Handler(os_memory, "span", FALSE)
WaitsLatest       == Handler(wait_stats_raw, "newest", FALSE)
Waits             == Handler(wait_stats_raw, "span", FALSE)
WaitsChartRoute   == Handler(wait_stats_raw, "top", FALSE)
SignalResource    == Handler(wait_stats_raw, "span", FALSE)
SessionsHistory   == Handler(active_sessions_snapshot, "stamps", FALSE)
Sessions          == Handler(active_sessions_snapshot, "newestInTwo", FALSE)
BlockingChains    == Handler(active_sessions_snapshot, "newestInTwo", FALSE)
Health            == Handler(instance_health, "newestRow", FALSE)
HostInfo          == Handler(os_host_info, "newestRow", FALSE)
Disk              == Handler(os_disk, "perKey", TRUE)
DiskSeries        == Handler(os_disk, "span", FALSE)
DiskUsage         == Handler(os_disk, "perKey", TRUE)
FileIoLatest      == Handler(file_io_stats, "newest", FALSE)
FileIoChartRoute  == Handler(file_io_stats, "top", FALSE)
FileIo            == Handler(file_io_stats, "span", FALSE)
MemoryBreakdownRoute == Handler(perf_counters_raw, "perKey", FALSE)
PerfCounters      == Handler(perf_counters_raw, "perKey", FALSE)
PerfCounterSeries == Handler(perf_counters_raw, "span", FALSE)
OverviewChart     == Handler(os_cpu, "span", FALSE)
ServerConfig      == Handler(server_config, "whole", FALSE)
Permissions       == Handler(server_role_members, "newest", FALSE)
MemoryClerks      == Handler(memory_clerks_raw, "top", FALSE)
Databases         == Handler(database_metrics_raw, "newest", FALSE)
KnownDatabases    == Handler(database_properties, "whole", FALSE)
DatabaseSeries    == Handler(database_metrics_raw, "span", FALSE)
DatabaseFiles     == Handler(database_files, "whole", FALSE)
Queries           == Handler(query_stats_raw, "span", FALSE)
TrackedQueries    == Handler(query_stats_raw, "span", FALSE)
QuerySeries       == Handler(query_stats_raw, "span", FALSE)
ProcedureStats    == Handler(procedure_stats_raw, "span", FALSE)
StatementsHistory == Handler(procedure_statements_raw, "span", FALSE)
\* One row for each scenario (session, login, start of the statement), whose
\* chain is that of its newest row; the MIN and MAX beside it are left out.
Blocking          == Handler(blocking_events, "perKey", TRUE)
BlockingRecent    == Handler(blocking_events, "span", FALSE)

Handlers ==
    {OverviewCpu, OverviewMemory, OverviewHealth, OverviewWaits, OverviewDiskIo,
     Cpu, Memory, WaitsLatest, Waits, WaitsChartRoute, SignalResource,
     SessionsHistory, Sessions, BlockingChains, Health, HostInfo, Disk, DiskSeries,
     DiskUsage, FileIoLatest, FileIoChartRoute, FileIo, MemoryBreakdownRoute,
     PerfCounters, PerfCounterSeries, OverviewChart, ServerConfig, Permissions,
     MemoryClerks, Databases, KnownDatabases, DatabaseSeries, DatabaseFiles,
     Queries, TrackedQueries, QuerySeries, ProcedureStats, StatementsHistory,
     Blocking, BlockingRecent}

-----------------------------------------------------------------------------
VARIABLES handler,    \* of this behaviour
          clock,
          collected,  \* the cycles: the stamp of each row that the cycle has
          batch,      \* rows collected and not stored yet: [cycle, key, at]
          cleared,    \* a table that is replaced has been emptied for the batch
          stored,     \* rows of the table
          request,    \* "none", "half" after the first of two statements, "done"
          first,      \* what the first statement gave: stamps or keys
          newest,     \* the newest cycle it could see, 0 if there was none
          answer      \* rows

readingsVars == <<handler, clock, collected, batch, cleared, stored, request, first, newest,
                  answer>>
tableVars == <<collected, batch, cleared, stored>>
requestVars == <<request, first, newest, answer>>

ReadingsInit ==
    /\ handler \in Handlers /\ clock = 0 /\ collected = <<>>
    /\ batch = {} /\ cleared = FALSE /\ stored = {}
    /\ request = "none" /\ first = {} /\ newest = 0 /\ answer = {}

Open == request # "done"     \* a behaviour ends with the answer

-----------------------------------------------------------------------------
(* The cycles. *)

\* Mutant: every row is stamped on its own, in every table.
Stamps_each(rows) ==
    {f \in [rows -> {clock, clock + 1}] : \A j, k \in rows : j < k => f[j] <= f[k]}

\* The stamps of the rows of a cycle: one, or taken one after the other.
Stamps(rows) ==
    {f \in [rows -> {clock, clock + 1}] :
        IF handler.table.stamp = "once" THEN \A k \in rows : f[k] = clock
        ELSE \A j, k \in rows : j < k => f[j] <= f[k]}

\* What a cycle finds; a cycle that finds nothing stores nothing.
Collect(rows) ==
    /\ Open /\ batch = {} /\ Len(collected) < MaxCycles /\ clock + 2 <= MaxClock
    /\ handler.table.rows = "one" => rows = {1}
    /\ \E at \in Stamps(rows) :
          /\ collected' = Append(collected, at)
          /\ batch' = {[cycle |-> Len(collected) + 1, key |-> k, at |-> at[k]] : k \in rows}
    /\ clock' = clock + 2
    /\ UNCHANGED <<handler, cleared, stored, requestVars>>

Quiet == /\ Open /\ clock < MaxClock /\ clock' = clock + 1
         /\ UNCHANGED <<handler, tableVars, requestVars>>

\* DELETE before the INSERT of a table that is replaced; server_config is
\* replaced by one statement.
Clear ==
    /\ Open /\ batch # {} /\ ~cleared
    /\ handler.table.kept = "replaced" /\ handler.table.rows = "many"
    /\ cleared' = TRUE /\ stored' = {}
    /\ UNCHANGED <<handler, clock, collected, batch, requestVars>>

Store ==
    /\ Open /\ batch # {}
    /\ (handler.table.kept = "replaced" /\ handler.table.rows = "many") => cleared
    /\ stored' = IF handler.table.kept = "replaced" THEN batch ELSE stored \cup batch
    /\ batch' = {} /\ cleared' = FALSE
    /\ UNCHANGED <<handler, clock, collected, requestVars>>

StoreFails == /\ Open /\ batch # {} /\ batch' = {} /\ cleared' = FALSE
              /\ UNCHANGED <<handler, clock, collected, stored, requestVars>>

\* A partition is dropped: the rows up to a moment go.
Expire(until) ==
    /\ Open /\ until <= clock - Expiry /\ handler.table.kept = "all"
    /\ \E r \in stored : r.at <= until
    /\ stored' = {r \in stored : r.at > until}
    /\ UNCHANGED <<handler, clock, collected, batch, cleared, requestVars>>

-----------------------------------------------------------------------------
(* The request. *)

Visible == {r \in stored : handler.recent => r.at > clock - Recent}
InRange == {r \in stored : r.at > clock - Recent}
Newest(rows) == {r \in rows : \A s \in rows : s.at <= r.at}
PerKey(rows) == {r \in rows : \A s \in rows : s.key = r.key => s.at <= r.at}
LastCycle(rows) == Max({0} \cup {r.cycle : r \in rows})

Answered(rows) ==
    CASE handler.form \in {"newest", "newestRow"} -> Newest(rows)
      [] handler.form = "perKey"  -> PerKey(rows)
      [] handler.form = "whole"   -> rows
      [] handler.form \in {"span", "stamps"} -> rows \cap InRange

Ask ==
    /\ request = "none" /\ handler.form \notin {"newestInTwo", "top"}
    /\ request' = "done" /\ answer' = Answered(Visible) /\ newest' = LastCycle(Visible)
    /\ UNCHANGED <<handler, clock, tableVars, first>>

\* The first of two statements: the stamp of the newest row, or the keys with
\* the greatest sums; the answer is empty when it gives nothing.
AskFirst ==
    /\ request = "none" /\ handler.form \in {"newestInTwo", "top"}
    /\ \/ /\ handler.form = "newestInTwo" /\ first' = {r.at : r \in Newest(stored)}
       \/ /\ handler.form = "top" /\ first' \in SUBSET {r.key : r \in InRange}
          /\ InRange # {} => first' # {}
    /\ request' = IF first' = {} THEN "done" ELSE "half"
    /\ newest' = LastCycle(stored)
    /\ UNCHANGED <<handler, clock, tableVars, answer>>

AskSecond ==
    /\ request = "half" /\ request' = "done"
    /\ answer' = IF handler.form = "newestInTwo" THEN {r \in stored : r.at \in first}
                 ELSE {r \in InRange : r.key \in first}
    /\ UNCHANGED <<handler, clock, tableVars, first, newest>>

ReadingsNext ==
    \/ \E rows \in SUBSET Key : Collect(rows)
    \/ Quiet \/ Clear \/ Store \/ StoreFails
    \/ \E until \in 0..MaxClock : Expire(until)
    \/ Ask \/ AskFirst \/ AskSecond

ReadingsSpec == ReadingsInit /\ [][ReadingsNext]_readingsVars

-----------------------------------------------------------------------------
RowsOf(c) == {[cycle |-> c, key |-> k, at |-> collected[c][k]] : k \in DOMAIN collected[c]}
Once == handler.table.stamp = "once"

(* An answer never mixes or tears cycles where the stamps allow it: the    *)
(* latest rows are all the rows of the newest cycle that was stored when   *)
(* the request began, also when the stamp was read first and cycles were   *)
(* stored or partitions dropped before the rows were (then there may be    *)
(* none); a table whose rows are stamped one by one shows a last part of   *)
(* that cycle.  The newest rows by key leave out no row of the newest      *)
(* cycle.  A range shows every cycle that is in it whole, or the chosen    *)
(* keys of it.                                                             *)
AnswersAreCycles ==
    request = "done" =>
    CASE handler.form \in {"newest", "newestRow", "newestInTwo", "whole"} ->
            IF newest = 0 THEN answer = {}
            ELSE \/ answer = {} /\ handler.form = "newestInTwo" /\ RowsOf(newest) \cap stored = {}
                 \/ answer = RowsOf(newest) /\ Once
                 \/ ~Once /\ answer # {} /\ answer = Newest(RowsOf(newest))
      [] handler.form = "perKey" ->
            /\ newest # 0 => RowsOf(newest) \cap Visible \subseteq answer
            /\ \A r, s \in answer : r.key = s.key => r = s
      [] handler.form \in {"span", "stamps"} ->
            Once => answer = UNION {RowsOf(r.cycle) : r \in answer}
      [] handler.form = "top" ->
            /\ \A r \in answer : r.key \in first
            /\ Once => \A r \in answer : \A s \in RowsOf(r.cycle) : s.key \in first => s \in answer
=============================================================================
