-------------------------------- MODULE Rollup --------------------------------
(***************************************************************************)
(* The aggregator (jobs/aggregator.ts): every five minutes it rolls the    *)
(* samples of the window that has just ended up into the *_5min tables,    *)
(* and once an hour, at the same tick and without waiting, the five-minute *)
(* rows of the hour that has just ended into the *_hourly tables.          *)
(*                                                                         *)
(* Time counts five-minute windows.  What is kept of a row is which        *)
(* samples its figures are made of; its sample_count is their number.  A   *)
(* sample belongs to the window of its stamp and is stored later, by the   *)
(* cycle that read it.  A tick's statements end before the next tick.      *)
(***************************************************************************)
EXTENDS Integers, Sequences, FiniteSetsExt

CONSTANTS Tables,      \* the metrics, in the order their statements run
          PerHour,     \* windows of an hour
          HoursPerDay, \* what getHours() counts
          FirstWindow, \* the windows the process may start in
          LastWindow,  \* bound: time stops here
          MaxSamples,  \* bound: samples taken
          MaxFaults    \* bound: failed statements, restarts and ticks left out

ASSUME RollupBounds ==
    /\ Tables \in Seq(STRING)
    /\ PerHour \in Nat \ {0} /\ HoursPerDay \in Nat \ {0} /\ LastWindow \in Nat
    /\ FirstWindow \subseteq 0..LastWindow
    /\ MaxSamples \in Nat /\ MaxFaults \in Nat

T == DOMAIN Tables
Window == 0..LastWindow
HourOf(w) == w \div PerHour
Hour == {HourOf(w) : w \in Window}
WindowsOf(h) == {w \in Window : HourOf(w) = h}
getHours(w) == HourOf(w) % HoursPerDay

VARIABLES now,           \* the current window
          ticked,        \* the interval has fired in it
          lastHourlyRun, \* the module variable
          fiveJob,       \* runFiveMinAggregation: window and next statement
          hourJob,       \* runHourlyAggregation: hour and next statement
          inFlight,      \* samples taken and not stored yet: [id, table, window]
          raw, five,     \* samples stored, and in the row, of a table's window
          hourly,        \* samples in the row of a table's hour
          taken, faults  \* counted for the bounds

VARIABLES lastTick, \* window of the last tick of this process, or None
          ran,      \* roll-ups whose statement ran: [level, table, of]
          excused,  \* roll-ups that will not run, for a reason that is named
          late,     \* samples stored after their window was rolled up
          raced     \* five-minute rows written after their hour was rolled up

rows == <<raw, five, hourly>>
books == <<lastTick, ran, excused, late, raced>>
rollupVars == <<now, ticked, lastHourlyRun, fiveJob, hourJob, inFlight, rows,
                taken, faults, books>>

None == -1
NoJob == [of |-> -1, at |-> Len(Tables) + 1]
Busy(job) == job.at <= Len(Tables)
Job(of) == [of |-> of, at |-> 1]
Roll(level, t, of) == [level |-> level, table |-> t, of |-> of]
Rest(level, job) == {Roll(level, t, job.of) : t \in job.at..Len(Tables)}
Empty(S) == [t \in T |-> [x \in S |-> {}]]
Together(f, S) == UNION {f[x] : x \in S}

RollupInit ==
    /\ now \in FirstWindow /\ ticked = TRUE /\ lastHourlyRun = 0
    /\ fiveJob = NoJob /\ hourJob = NoJob /\ inFlight = {}
    /\ raw = Empty(Window) /\ five = Empty(Window) /\ hourly = Empty(Hour)
    /\ taken = 0 /\ faults = 0
    /\ lastTick = None /\ ran = {} /\ late = Empty(Window) /\ raced = {}
    /\ excused = {Roll("5min", t, w) : t \in T, w \in 0..(now - 1)}
                 \cup {Roll("hourly", t, h) : t \in T, h \in 0..(HourOf(now) - 1)}

-----------------------------------------------------------------------------
(* The collection cycles. *)

Sample(t) ==
    /\ taken < MaxSamples /\ taken' = taken + 1
    /\ \A s \in inFlight : ~(s.table = t /\ s.window = now)
    /\ inFlight' = inFlight \cup {[id |-> taken', table |-> t, window |-> now]}
    /\ UNCHANGED <<now, ticked, lastHourlyRun, fiveJob, hourJob, rows, faults, books>>

Store(s) ==
    /\ s \in inFlight /\ inFlight' = inFlight \ {s}
    /\ raw' = [raw EXCEPT ![s.table][s.window] = @ \cup {s.id}]
    /\ late' = IF Roll("5min", s.table, s.window) \in ran
               THEN [late EXCEPT ![s.table][s.window] = @ \cup {s.id}] ELSE late
    /\ UNCHANGED <<now, ticked, lastHourlyRun, fiveJob, hourJob, five, hourly, taken, faults,
                   lastTick, ran, excused, raced>>

-----------------------------------------------------------------------------
(* The aggregator. *)

\* What is not rolled up when the tick of the window, or of its hour, is missed.
MissedBy(window, hour) ==
    {Roll("5min", t, now - 1) : t \in IF window THEN T ELSE {}}
    \cup {Roll("hourly", t, HourOf(now) - 1) : t \in IF hour THEN T ELSE {}}

\* A window passes; with no tick in it, its roll-ups are left out.
Pass ==
    /\ now < LastWindow /\ ~Busy(fiveJob) /\ ~Busy(hourJob)
    /\ faults' = IF ticked THEN faults ELSE faults + 1
    /\ faults' <= MaxFaults
    /\ now' = now + 1 /\ ticked' = FALSE
    /\ excused' = excused \cup MissedBy(~ticked, ~ticked /\ HourOf(now') # HourOf(now))
    /\ UNCHANGED <<lastHourlyRun, fiveJob, hourJob, inFlight, rows, taken, lastTick, ran, late, raced>>

\* Mutant: the hour is expected to grow.
DueHourly_grows(hour) == hour > lastHourlyRun

DueHourly(hour) == hour # lastHourlyRun

\* runFiveMinAggregation and runHourlyAggregation compute their window now.
FiveMinWindow == now - 1
HourlyWindow == HourOf(now) - 1

\* lastHourlyRun names an hour of the day, and starts as 0: a process whose first tick
\* falls into hour 0, or that did not tick for exactly some days, takes the hour for one
\* that has been dealt with.
Mistaken ==
    IF lastTick = None THEN getHours(now) = 0
    ELSE HourOf(lastTick) # HourOf(now) /\ getHours(lastTick) = getHours(now)

Tick ==
    /\ ~ticked /\ ticked' = TRUE /\ lastTick' = now
    /\ fiveJob' = Job(FiveMinWindow)
    /\ LET hour == getHours(now) IN
       IF DueHourly(hour) THEN /\ lastHourlyRun' = hour
                               /\ hourJob' = IF HourlyWindow < 0 THEN NoJob ELSE Job(HourlyWindow)
                          ELSE UNCHANGED <<lastHourlyRun, hourJob>>
    /\ excused' = IF Mistaken
                  THEN excused \cup {Roll("hourly", t, HourlyWindow) : t \in T} ELSE excused
    /\ UNCHANGED <<now, inFlight, rows, taken, faults, ran, late, raced>>

Advance(job) == [job EXCEPT !.at = @ + 1]

\* ON CONFLICT DO NOTHING: a row that is there stays as it is.
UnlessThere(there, new) == IF there # {} THEN there ELSE new

FiveMinStatement ==
    /\ Busy(fiveJob)
    /\ LET t == fiveJob.at  w == fiveJob.of  hour == Roll("hourly", t, HourOf(w)) IN
       /\ five' = [five EXCEPT ![t][w] = UnlessThere(@, raw[t][w])]
       /\ ran' = ran \cup {Roll("5min", t, w)}
       /\ raced' = IF hour \in ran /\ raw[t][w] # {} THEN raced \cup {<<t, w>>} ELSE raced
    /\ fiveJob' = Advance(fiveJob)
    /\ UNCHANGED <<now, ticked, lastHourlyRun, hourJob, inFlight, raw, hourly, taken, faults,
                   lastTick, excused, late>>

HourlyStatement ==
    /\ Busy(hourJob)
    /\ LET t == hourJob.at  h == hourJob.of IN
       /\ hourly' = [hourly EXCEPT ![t][h] = UnlessThere(@, Together(five[t], WindowsOf(h)))]
       /\ ran' = ran \cup {Roll("hourly", t, h)}
       /\ raced' = IF hourly[t][h] = {} THEN raced \ ({t} \X WindowsOf(h)) ELSE raced
    /\ hourJob' = Advance(hourJob)
    /\ UNCHANGED <<now, ticked, lastHourlyRun, fiveJob, inFlight, raw, five, taken, faults,
                   lastTick, excused, late>>

\* Every statement has a catch of its own: the next one runs.
StatementFails ==
    /\ faults < MaxFaults /\ faults' = faults + 1
    /\ \/ /\ Busy(fiveJob) /\ fiveJob' = Advance(fiveJob) /\ UNCHANGED hourJob
          /\ excused' = excused \cup {Roll("5min", fiveJob.at, fiveJob.of)}
       \/ /\ Busy(hourJob) /\ hourJob' = Advance(hourJob) /\ UNCHANGED fiveJob
          /\ excused' = excused \cup {Roll("hourly", hourJob.at, hourJob.of)}
    /\ UNCHANGED <<now, ticked, lastHourlyRun, inFlight, rows, taken, lastTick, ran, late, raced>>

\* The interval starts again: the next tick is five minutes away.
Restart ==
    /\ faults < MaxFaults /\ faults' = faults + 1
    /\ ticked' = TRUE /\ lastTick' = None /\ lastHourlyRun' = 0
    /\ inFlight' = {} /\ fiveJob' = NoJob /\ hourJob' = NoJob
    /\ excused' = excused \cup Rest("5min", fiveJob) \cup Rest("hourly", hourJob)
                  \cup MissedBy(~ticked, HourOf(now + 1) # HourOf(now))
    /\ UNCHANGED <<now, rows, taken, ran, late, raced>>

RollupNext ==
    \/ \E t \in T : Sample(t)
    \/ \E s \in inFlight : Store(s)
    \/ Pass \/ Tick \/ FiveMinStatement \/ HourlyStatement \/ StatementFails \/ Restart

RollupSpec == RollupInit /\ [][RollupNext]_rollupVars

-----------------------------------------------------------------------------
Due(level, t, of) == Roll(level, t, of) \in ran \cup excused

(* Nothing is rolled up twice and nothing is left out without a reason.  A *)
(* window of which the tick has passed has been rolled up, unless its      *)
(* statement failed, its tick was skipped or a restart fell on it, and its *)
(* row holds the samples that were stored before; an hour is rolled up,    *)
(* also over midnight, unless the flag of the hour was mistaken, and its   *)
(* row holds its five-minute rows, apart from those the five-minute job of *)
(* the same tick wrote too late, which are those of the last window of the *)
(* hour.                                                                   *)
RollupsAccountFor ==
    /\ \A t \in T, w \in Window :
          /\ w < now - 1 => Due("5min", t, w)
          /\ five[t][w] = (IF Roll("5min", t, w) \in ran THEN raw[t][w] \ late[t][w] ELSE {})
          /\ <<t, w>> \in raced => w = Max(WindowsOf(HourOf(w)))
    /\ \A t \in T, h \in Hour :
          /\ h < HourOf(now) - 1 => Due("hourly", t, h)
          /\ Roll("hourly", t, h) \in ran =>
                hourly[t][h] = Together(five[t], {w \in WindowsOf(h) : <<t, w>> \notin raced})
=============================================================================
