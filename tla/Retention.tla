------------------------------- MODULE Retention -------------------------------
(***************************************************************************)
(* The partition manager (jobs/partition-manager.ts) and the readers that  *)
(* choose a table by the range they are asked for (routes/metrics.ts and   *)
(* routes/queries.ts).  At start and then every hour a run creates the     *)
(* partitions of the next days and months and drops the old ones.  Nothing *)
(* keeps a run from beginning while another is slow.  Statements fail one  *)
(* by one.  The collectors and the aggregator insert all the while, and an *)
(* insert fails when its table has no partition for its stamp.             *)
(*                                                                         *)
(* A day has PerDay moments.  A partition is known by its first day.  The  *)
(* tables do not touch each other: a behaviour follows one table and one   *)
(* row of it.  What a run does for the other tables is then only time, so  *)
(* a run is seen creating, then dropping, each with the moment its stage   *)
(* read the clock and its statements, run together, at any later moment.   *)
(* The months are scaled: the longest has one day more than the            *)
(* five-minute rows are kept, as a month of 31 days has.                   *)
(***************************************************************************)
EXTENDS Integers, FiniteSetsExt

CONSTANTS PerDay,      \* moments of a day
          FirstDays,   \* the first days of the months
          LastMoment,  \* bound: time stops here
          DaysAhead, MonthsAhead, \* what runPartitionMaintenance asks for
          MigratedMonths, \* what the migration looked ahead
          RawDays, FiveMinDays, HourlyDays, \* RETENTION
          MaxLag,      \* bound: moments from the stamp of a row to its storage
          MaxDelay,    \* bound: moments that a stage of a run takes
          MaxRuns,     \* bound: runs that go on at once
          MaxFailures  \* bound: statements that fail

ASSUME RetentionBounds ==
    /\ FirstDays \subseteq Nat /\ 0 \in FirstDays
    /\ {PerDay, RawDays, FiveMinDays, HourlyDays} \subseteq Nat \ {0}
    /\ {DaysAhead, MonthsAhead, MigratedMonths} \subseteq Nat
    /\ {LastMoment, MaxLag, MaxDelay, MaxRuns, MaxFailures} \subseteq Nat

Table == {"raw", "5min", "hourly"}
Kept == [raw |-> RawDays, 5min |-> FiveMinDays, hourly |-> HourlyDays]
DayOf(t) == t \div PerDay
Begins(d) == d * PerDay
MonthOf(d) == Max({m \in FirstDays : m <= d})

VARIABLES clock,
          table,       \* the table of this behaviour
          partitions,  \* its partitions
          runs,        \* the stage of each run, and when it read the clock
          failures,    \* counted for the bound
          row,         \* the stamp of the row that is followed, or NoRow
          present,     \* it is still there
          lastCreate,  \* the latest clock of a creation without a failure, or Never
          lastDrop     \* the latest clock of a drop without a failure

retentionVars == <<clock, table, partitions, runs, failures, row, present,
                   lastCreate, lastDrop>>
NoRow == -1
Never == -1
Idle == [stage |-> "idle", at |-> 0]
Created == [stage |-> "created", at |-> 0]

PartitionFor(t) == IF table = "raw" THEN DayOf(t) ELSE MonthOf(DayOf(t))

MonthsFrom(d, n) ==
    LET coming == {m \in FirstDays : m >= MonthOf(d)}
    IN  {m \in coming : Cardinality({k \in coming : k < m}) <= n}

\* The days or months a creation looks ahead.
Ahead(t) == IF table = "raw" THEN DayOf(t)..(DayOf(t) + DaysAhead)
            ELSE MonthsFrom(DayOf(t), MonthsAhead)

\* The migrations create the first partitions.
Migrated == IF table = "raw" THEN 0..DaysAhead ELSE MonthsFrom(0, MigratedMonths)

RetentionInit ==
    /\ clock = 0 /\ table \in Table
    /\ partitions = Migrated
    /\ runs = [i \in 1..MaxRuns |-> Idle] /\ failures = 0
    /\ row = NoRow /\ present = FALSE
    /\ lastCreate = Never /\ lastDrop = 0

ClockTicks ==
    /\ clock < LastMoment /\ clock' = clock + 1
    /\ \A i \in 1..MaxRuns : runs[i].stage \in {"create", "drop"} => clock - runs[i].at < MaxDelay
    /\ UNCHANGED <<table, partitions, runs, failures, row, present, lastCreate, lastDrop>>

\* A row is stored when its table has a partition for its stamp.
Insert ==
    /\ row = NoRow
    /\ \E t \in 0..clock : /\ clock - t <= MaxLag /\ PartitionFor(t) \in partitions
                           /\ row' = t
    /\ present' = TRUE
    /\ UNCHANGED <<clock, table, partitions, runs, failures, lastCreate, lastDrop>>

-----------------------------------------------------------------------------
(* runPartitionMaintenance. *)

Enters(i, stage) == runs' = [runs EXCEPT ![i] = [stage |-> stage, at |-> clock]]
Ends(i) == runs' = [runs EXCEPT ![i] = Idle]

\* The run has come to the creation of this table's partitions.
BeginCreate(i) ==
    /\ runs[i].stage = "idle" /\ Enters(i, "create")
    /\ UNCHANGED <<clock, table, partitions, failures, row, present, lastCreate, lastDrop>>

\* Those of a set of statements that fail.
Failing(S) == {F \in SUBSET S : failures + Cardinality(F) <= MaxFailures}

\* createDailyPartitions, createMonthlyPartitions: a partition that exists is left
\* alone, one that cannot be created is logged.
Create(i) ==
    LET at == runs[i].at
    IN  /\ runs[i].stage = "create"
        /\ \E F \in Failing(Ahead(at) \ partitions) :
              /\ partitions' = partitions \cup (Ahead(at) \ F)
              /\ failures' = failures + Cardinality(F)
              /\ lastCreate' = IF F = {} THEN Max({lastCreate, at}) ELSE lastCreate
        /\ runs' = [runs EXCEPT ![i] = Created]
        /\ UNCHANGED <<clock, table, row, present, lastDrop>>

BeginDrop(i) ==
    /\ runs[i].stage = "created" /\ Enters(i, "drop")
    /\ UNCHANGED <<clock, table, partitions, failures, row, present, lastCreate, lastDrop>>

\* Mutant: a partition is dropped a day too early.
Expired_early(p, at) == Begins(p) + Begins(Kept[table]) < at + PerDay

\* partDate < cutoff; the cutoff keeps the time of day.
Expired(p, at) == Begins(p) + Begins(Kept[table]) < at

\* dropOldDailyPartitions, dropOldMonthlyPartitions.
Drop(i) ==
    LET at == runs[i].at
        old == {p \in partitions : Expired(p, at)}
    IN  /\ runs[i].stage = "drop"
        /\ \E F \in Failing(old) :
              /\ partitions' = partitions \ (old \ F)
              /\ present' = (present /\ PartitionFor(row) \in partitions')
              /\ failures' = failures + Cardinality(F)
              /\ lastDrop' = IF F = {} THEN Max({lastDrop, at}) ELSE lastDrop
        /\ Ends(i)
        /\ UNCHANGED <<clock, table, row, lastCreate>>

\* A query for partitions is outside the try, this table's or an earlier one's: the
\* run ends.
RunThrows(i) ==
    /\ runs[i].stage \in {"created", "drop"} /\ failures < MaxFailures
    /\ failures' = failures + 1 /\ Ends(i)
    /\ UNCHANGED <<clock, table, partitions, row, present, lastCreate, lastDrop>>

RetentionNext ==
    \/ ClockTicks \/ Insert
    \/ \E i \in 1..MaxRuns : BeginCreate(i) \/ Create(i) \/ BeginDrop(i) \/ Drop(i) \/ RunThrows(i)

RetentionSpec == RetentionInit /\ [][RetentionNext]_retentionVars

-----------------------------------------------------------------------------
(* The readers. *)

Preset == {"1h", "6h", "24h", "7d", "30d", "1y"}
Custom == "from-to"

\* The routes of cpu, memory and waits choose a table; the others read raw tables.
Route == {"tiered", "plain"}

queryTier(range) == CASE range = "30d" -> "5min"
                      [] range = "1y"  -> "hourly"
                      [] range = "7d"  -> "5min"
                      [] OTHER         -> "raw"

TableRead(route, range) == IF route = "tiered" THEN queryTier(range) ELSE "raw"

\* In moments of the scaled calendar.
rangeToInterval(range) == CASE range = "24h" -> Begins(1)
                            [] range = "7d"  -> Begins(RawDays)
                            [] range = "30d" -> Begins(FiveMinDays)
                            [] range = "1y"  -> Begins(HourlyDays)
                            [] OTHER         -> 1

\* resolveTimeFilter: the moments after which rows are asked for; any, with dates.
Since(range) == IF range = Custom THEN -1..clock ELSE {clock - rangeToInterval(range)}

\* The row that is followed is answered, if it is asked for.
Answered(route, range, since) ==
    table = TableRead(route, range) /\ row # NoRow /\ row > since => present

-----------------------------------------------------------------------------
\* What the last creation without a failure looked at.
Looked == IF lastCreate = Never THEN Migrated ELSE Ahead(lastCreate)

\* As old as its rows are kept, by the first of them.
Outlived(p, at) == at - Begins(p) > Begins(Kept[table])

(* However runs overlap and whatever statements fail: a request of a raw   *)
(* table, preset or dates, is answered in full as far back as a day less   *)
(* than the rows are kept; a row is dropped only with a whole partition    *)
(* that is old; there is a partition for an insert as long as the last     *)
(* creation without a failure looked as far and the partition, of a month  *)
(* that outlives its rows, is not old already; and no row of a partition   *)
(* that was old at the last drop without a failure is left, unless it was  *)
(* stored after it (jobs/partition-manager.ts, routes/metrics.ts).         *)
RetentionWindow ==
    /\ \A route \in Route, range \in Preset \cup {Custom} : \A since \in Since(range) :
          TableRead(route, range) = "raw" /\ clock - since <= Begins(RawDays - 1)
            => Answered(route, range, since)
    /\ (row # NoRow /\ ~present) => Outlived(PartitionFor(row), clock)
    /\ LET p == PartitionFor(clock)
       IN  p \in Looked /\ ~Outlived(p, clock) => p \in partitions
    /\ present /\ row + MaxLag < lastDrop => ~Outlived(PartitionFor(row), lastDrop)

(* A route that chooses a table by the range has every row of the range.   *)
RangesComplete ==
    \A range \in Preset : \A since \in Since(range) : Answered("tiered", range, since)
=============================================================================
