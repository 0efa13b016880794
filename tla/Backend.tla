------------------------------ MODULE Backend ------------------------------
(***************************************************************************)
(* The life of the backend process: index.ts (boot, signal handlers,       *)
(* shutdown), the CollectorScheduler of collector/scheduler.ts, the three  *)
(* background jobs as far as their timers go, HTTP requests as far as      *)
(* app.close waits for them, and db.ts's closePool.                        *)
(*                                                                         *)
(* A step is what the event loop runs between two awaits.  The contents of *)
(* a collection cycle are in CollectCycle; here a cycle is only the SELECT *)
(* of the instances followed by collectAll.  The figures getStatus returns *)
(* for display (durations, counts) are left out.                           *)
(***************************************************************************)
EXTENDS Integers, FiniteSets

CONSTANTS
  Signals,      (* SIGINT/SIGTERM deliveries, at most one step each        *)
  Jobs,         (* the background jobs: partitions, aggregator, baseline   *)
  EagerJobs,    (* those that also run once when they are started          *)
  MaxRuns,      (* bound: runs of one job in flight                        *)
  MaxRequests   (* bound: HTTP requests in flight                          *)

ASSUME JobsAssumption == EagerJobs \subseteq Jobs
ASSUME BoundsAssumption == MaxRuns \in Nat \ {0} /\ MaxRequests \in Nat

VARIABLES
  boot,        (* where the top-level code of index.ts waits               *)
  running,     (* scheduler.running                                        *)
  timer,       (* scheduler.timer is set                                   *)
  cycling,     (* scheduler.cycling                                        *)
  selecting,   (* ticks awaiting the SELECT of enabled instances           *)
  collecting,  (* ticks awaiting collectAll                                *)
  jobTimer,    (* per job: its interval is set                             *)
  jobRuns,     (* per job: runs in flight                                  *)
  requests,    (* HTTP requests in flight                                  *)
  app,         (* the Fastify server: off, open, closing, closed           *)
  pg,          (* the shared PostgreSQL pool: open, ending, ended          *)
  sig,         (* per signal: how far its shutdown() has come              *)
  early,       (* history: a signal was handled before scheduler.start()   *)
  exit         (* "no", or how the process ended: 0, 1, killed             *)

schedVars == <<running, timer, cycling, selecting, collecting>>
jobVars   == <<jobTimer, jobRuns>>
vars == <<boot, schedVars, jobVars, requests, app, pg, sig, early, exit>>

Alive == exit = "no"
-----------------------------------------------------------------------------
Init ==
  /\ boot = "migrating"
  /\ running = FALSE /\ timer = FALSE /\ cycling = FALSE
  /\ selecting = 0 /\ collecting = 0
  /\ jobTimer = [j \in Jobs |-> FALSE]
  /\ jobRuns = [j \in Jobs |-> 0]
  /\ requests = 0
  /\ app = "off"
  /\ pg = "open"
  /\ sig = [s \in Signals |-> "none"]
  /\ early = FALSE
  /\ exit = "no"

\* runMigrations() returned; routes and the first signal handlers are set up
\* and app.listen is called.
Migrated ==
  /\ Alive /\ boot = "migrating"
  /\ boot' = "listening"
  /\ UNCHANGED <<schedVars, jobVars, requests, app, pg, sig, early, exit>>

\* app.listen resolves; a server that is being closed cannot start listening.
Listening ==
  /\ Alive /\ boot = "listening" /\ app = "off"
  /\ boot' = "admin"
  /\ app' = "open"
  /\ UNCHANGED <<schedVars, jobVars, requests, pg, sig, early, exit>>

\* Mutant: tick without the check of cycling.
TickBody_unguarded ==
  /\ cycling' = TRUE
  /\ selecting' = selecting + 1

\* tick up to its first await: skipped while the previous cycle runs.
TickBody ==
  IF cycling
    THEN UNCHANGED <<cycling, selecting>>
    ELSE /\ cycling' = TRUE
         /\ selecting' = selecting + 1

\* ensureDefaultAdmin returned: scheduler.start(), the three start functions and
\* the exchange of the signal handlers, in one go.
Started ==
  /\ Alive /\ boot = "admin"
  /\ boot' = "up"
  /\ running' = TRUE /\ timer' = TRUE
  /\ TickBody
  /\ jobTimer' = [j \in Jobs |-> TRUE]
  /\ jobRuns' = [j \in Jobs |-> IF j \in EagerJobs THEN 1 ELSE 0]
  /\ UNCHANGED <<collecting, requests, app, pg, sig, early, exit>>

\* A migration, listen (the port is taken, the server was closed) or
\* ensureDefaultAdmin (PostgreSQL is gone) throws: process.exit(1).
BootFails ==
  /\ Alive /\ boot \in {"migrating", "listening", "admin"}
  /\ exit' = "1"
  /\ UNCHANGED <<boot, schedVars, jobVars, requests, app, pg, sig, early>>
-----------------------------------------------------------------------------
\* The interval fires.
Tick ==
  /\ Alive /\ timer
  /\ TickBody
  /\ UNCHANGED <<boot, running, timer, collecting, jobVars, requests, app, pg, sig, early, exit>>

\* The SELECT returned instances, and the pool still answers.
SelectSome ==
  /\ Alive /\ selecting > 0
  /\ pg = "open"
  /\ selecting' = selecting - 1
  /\ collecting' = collecting + 1
  /\ UNCHANGED <<boot, running, timer, cycling, jobVars, requests, app, pg, sig, early, exit>>

\* Mutant: the early return for an empty instance list and the catch forget to
\* clear cycling (no finally).
SelectNone_noFinally ==
  /\ Alive /\ selecting > 0
  /\ selecting' = selecting - 1
  /\ UNCHANGED <<boot, running, timer, cycling, collecting, jobVars, requests, app, pg, sig, early, exit>>

\* The SELECT returned no instance, or threw.
SelectNone ==
  /\ Alive /\ selecting > 0
  /\ selecting' = selecting - 1
  /\ cycling' = FALSE
  /\ UNCHANGED <<boot, running, timer, collecting, jobVars, requests, app, pg, sig, early, exit>>

\* Mutant: cycling is cleared by the last statement of the try.
CycleEnds_noFinally ==
  /\ Alive /\ collecting > 0
  /\ collecting' = collecting - 1
  /\ cycling' \in {FALSE, cycling}
  /\ UNCHANGED <<boot, running, timer, selecting, jobVars, requests, app, pg, sig, early, exit>>

\* Mutant: the end of one cycle is handled twice.
CycleEnds_twice ==
  /\ Alive /\ collecting > 0
  /\ collecting' = collecting - 2
  /\ cycling' = FALSE
  /\ UNCHANGED <<boot, running, timer, selecting, jobVars, requests, app, pg, sig, early, exit>>

\* collectAll returned or threw; finally clears cycling.
CycleEnds ==
  /\ Alive /\ collecting > 0
  /\ collecting' = collecting - 1
  /\ cycling' = FALSE
  /\ UNCHANGED <<boot, running, timer, selecting, jobVars, requests, app, pg, sig, early, exit>>
-----------------------------------------------------------------------------
\* A job's interval fires: nothing keeps two runs of a job apart.
JobFires(j) ==
  /\ Alive /\ jobTimer[j]
  /\ jobRuns[j] < MaxRuns
  /\ jobRuns' = [jobRuns EXCEPT ![j] = @ + 1]
  /\ UNCHANGED <<boot, schedVars, jobTimer, requests, app, pg, sig, early, exit>>

\* A run of a job ends, by itself or because a query failed.
JobEnds(j) ==
  /\ Alive /\ jobRuns[j] > 0
  /\ jobRuns' = [jobRuns EXCEPT ![j] = @ - 1]
  /\ UNCHANGED <<boot, schedVars, jobTimer, requests, app, pg, sig, early, exit>>

Request ==
  /\ Alive /\ app = "open"
  /\ requests < MaxRequests
  /\ requests' = requests + 1
  /\ UNCHANGED <<boot, schedVars, jobVars, app, pg, sig, early, exit>>

Reply ==
  /\ Alive /\ requests > 0
  /\ requests' = requests - 1
  /\ UNCHANGED <<boot, schedVars, jobVars, app, pg, sig, early, exit>>
-----------------------------------------------------------------------------
\* The handlers are installed after the migrations; before, a signal kills.
SignalKills(s) ==
  /\ Alive /\ boot = "migrating" /\ sig[s] = "none"
  /\ exit' = "killed"
  /\ sig' = [sig EXCEPT ![s] = "stopping"]
  /\ UNCHANGED <<boot, schedVars, jobVars, requests, app, pg, early>>

\* app.close(): the server takes no new request.
CloseApp == app' = IF app = "closed" THEN "closed" ELSE "closing"

\* Mutant: stop() does not look at cycling at all.
AwaitCycle_noWait(s) == sig' = [sig EXCEPT ![s] = "closing"] /\ CloseApp

\* `while (this.cycling)' of stop(): it is not entered when no cycle is running,
\* and then app.close() is called before anything else happens.
AwaitCycle(s) ==
  IF cycling
    THEN sig' = [sig EXCEPT ![s] = "stopping"] /\ UNCHANGED app
    ELSE sig' = [sig EXCEPT ![s] = "closing"] /\ CloseApp

\* Mutant: stop() forgets clearInterval.
StopTimers_keepsTimer ==
  /\ running' = FALSE /\ timer' = timer
  /\ jobTimer' = IF boot = "up" THEN [j \in Jobs |-> FALSE] ELSE jobTimer

\* The job timers (extendedShutdown) and the synchronous part of stop().
StopTimers ==
  /\ running' = FALSE /\ timer' = FALSE
  /\ jobTimer' = IF boot = "up" THEN [j \in Jobs |-> FALSE] ELSE jobTimer

\* shutdown (extendedShutdown once the process is up) up to its first await.
Signal(s) ==
  /\ Alive /\ boot # "migrating" /\ sig[s] = "none"
  /\ StopTimers
  /\ AwaitCycle(s)
  /\ early' = (early \/ boot # "up")
  /\ UNCHANGED <<boot, cycling, selecting, collecting, jobRuns, requests, pg, exit>>

\* The poll of stop() finds no cycle running.
StopReturns(s) ==
  /\ Alive /\ sig[s] = "stopping"
  /\ ~cycling
  /\ sig' = [sig EXCEPT ![s] = "closing"]
  /\ CloseApp
  /\ UNCHANGED <<boot, schedVars, jobVars, requests, pg, early, exit>>

\* closePool: the first call ends the pool; a call while that is under way makes
\* pg throw, which no handler catches; after it there is nothing left to do.
ClosePool ==
  CASE pg = "open"   -> pg' = "ending" /\ exit' = exit
    [] pg = "ending" -> pg' = pg /\ exit' = "1"
    [] pg = "ended"  -> pg' = pg /\ exit' = "0"

\* Mutant: app.close() is not awaited.
AppCloses_notAwaited(s) ==
  /\ Alive /\ sig[s] = "closing"
  /\ sig' = [sig EXCEPT ![s] = "ending"]
  /\ ClosePool
  /\ UNCHANGED <<boot, schedVars, jobVars, requests, app, early>>

\* app.close() resolves when the requests in flight are answered.
AppCloses(s) ==
  /\ Alive /\ sig[s] = "closing"
  /\ requests = 0
  /\ app' = "closed"
  /\ sig' = [sig EXCEPT ![s] = "ending"]
  /\ ClosePool
  /\ UNCHANGED <<boot, schedVars, jobVars, requests, early>>

\* pool.end() resolves for the shutdown that called it: process.exit(0).
PoolEnds ==
  /\ Alive /\ pg = "ending"
  /\ pg' = "ended"
  /\ exit' = "0"
  /\ UNCHANGED <<boot, schedVars, jobVars, requests, app, sig, early>>

Exited == ~Alive /\ UNCHANGED vars

Next ==
  \/ Migrated \/ Listening \/ Started \/ BootFails
  \/ Tick \/ SelectSome \/ SelectNone \/ CycleEnds
  \/ \E j \in Jobs : JobFires(j) \/ JobEnds(j)
  \/ Request \/ Reply
  \/ \E s \in Signals : SignalKills(s) \/ Signal(s) \/ StopReturns(s) \/ AppCloses(s)
  \/ PoolEnds
  \/ Exited

\* The event loop serves what is ready, intervals fire again, and every query,
\* request and collection ends (each has a timeout).  Signals and requests may
\* never come.
Fairness ==
  /\ WF_vars(Migrated \/ BootFails)
  /\ WF_vars(Listening \/ BootFails)
  /\ WF_vars(Started \/ BootFails)
  /\ WF_vars(Tick)
  /\ WF_vars(SelectSome \/ SelectNone)
  /\ WF_vars(CycleEnds)
  /\ \A j \in Jobs : WF_vars(JobEnds(j))
  /\ WF_vars(Reply)
  /\ \A s \in Signals : WF_vars(StopReturns(s)) /\ WF_vars(AppCloses(s))
  /\ WF_vars(PoolEnds)

Spec == Init /\ [][Next]_vars /\ Fairness
-----------------------------------------------------------------------------
TypeOK ==
  /\ boot \in {"migrating", "listening", "admin", "up"}
  /\ running \in BOOLEAN /\ timer \in BOOLEAN /\ cycling \in BOOLEAN
  /\ selecting \in Nat /\ collecting \in Nat
  /\ jobTimer \in [Jobs -> BOOLEAN]
  /\ jobRuns \in [Jobs -> 0..MaxRuns]
  /\ requests \in 0..MaxRequests
  /\ app \in {"off", "open", "closing", "closed"}
  /\ pg \in {"open", "ending", "ended"}
  /\ sig \in [Signals -> {"none", "stopping", "closing", "ending"}]
  /\ early \in BOOLEAN
  /\ exit \in {"no", "0", "1", "killed"}

\* Two collection cycles never overlap, however slow a cycle is and whenever the
\* interval fires: cycles share the delta snapshots and the alert counters.
OneCycleAtATime == selecting + collecting <= 1

\* "Wait for current cycle to finish" (scheduler.ts:54): once the scheduler ran,
\* PostgreSQL is not closed under a collection cycle, so no cycle loses its rows
\* to a shutdown.  (A signal that comes before scheduler.start() finds nothing to
\* wait for, and start() runs after it all the same.)
CycleOutlivedByPool == ~early /\ pg # "open" => selecting + collecting = 0

\* No request handler is left without the pool.
RequestsOutlivedByPool == pg # "open" => requests = 0

\* Once one shutdown got past stop(), no later interval starts a cycle again.
StoppedForGood ==
  [][(\E s \in Signals : sig[s] \in {"closing", "ending"}) /\ ~early
       => selecting' <= selecting /\ collecting' <= collecting]_vars

\* A signal that is handled ends the process, whatever is in flight.
SignalEndsProcess == (\E s \in Signals : sig[s] # "none") ~> ~Alive

\* Failing cycles and empty instance lists do not stop the collection: while the
\* scheduler runs, another cycle always begins.
KeepsCollecting == running ~> (selecting > 0 \/ ~running \/ ~Alive)
=============================================================================
