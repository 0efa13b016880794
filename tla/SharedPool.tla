------------------------------- MODULE SharedPool -------------------------------
(***************************************************************************)
(* The shared connection pools of the API routes (lib/mssql.ts,            *)
(* getSharedPool and closeSharedPool), for one instance: the map poolCache *)
(* holds at most one pool of it, with a timer that closes the entry after  *)
(* five minutes without a request.  The routes that query a SQL Server     *)
(* share the pool; some of them close it when their query fails, which     *)
(* closes it for all the others too.                                       *)
(*                                                                         *)
(* getSharedPool awaits the connection between its look into the map and   *)
(* its entry in it: two requests may both miss.  The later entry replaces  *)
(* the earlier, whose pool nobody will close and whose timer closes the    *)
(* other pool.  Time counts ticks; a request is shorter than the idle      *)
(* time, as the driver's connect and request timeouts see to.              *)
(* closeAllSharedPools, which nothing but a test calls, is left out.       *)
(***************************************************************************)
EXTENDS Integers, FiniteSetsExt

CONSTANTS MaxRequest, \* bound: requests of a behaviour, numbered as they come
          Idle,       \* POOL_IDLE_TIMEOUT, in ticks
          MaxTime     \* bound: the clock stops here

ASSUME SharedPoolBounds == /\ {MaxRequest, Idle, MaxTime} \subseteq Nat
                           /\ Idle >= 2

Request == 1..MaxRequest

\* Whether a route closes the shared pool when its connection, or its query, fails.
Route == [connect : BOOLEAN, query : BOOLEAN]
procedures       == [connect |-> TRUE,  query |-> TRUE]   \* and procedure-statements
blockingEstimate == [connect |-> TRUE,  query |-> TRUE]
plans            == [connect |-> FALSE, query |-> TRUE]   \* plan, actual-plan and waits
live             == [connect |-> FALSE, query |-> FALSE]
blockingActual   == [connect |-> FALSE, query |-> FALSE]  \* and the blocking configuration
Routes == {procedures, blockingEstimate, plans, live, blockingActual}

\* A pool is named by the request that creates it.
None == 0
NoTimer == -1

VARIABLES time,
          pool,    \* "none", "connecting", "open", "dropped" by the server, "closed"
          cached,  \* the pool of the entry in poolCache, or None
          timer,   \* when the timer of a pool's entry fires, or NoTimer
          state,   \* of a request: "new", "connecting", "using", "done"
          route, uses, since, \* of a request under way: its route, its pool, when it began
          orphans, \* pools whose entry was replaced while they were in it
          closedBy \* why a pool was closed

poolVars == <<time, pool, cached, timer, state, route, uses, since, orphans, closedBy>>

SharedPoolInit ==
    /\ time = 0 /\ cached = None /\ orphans = {}
    /\ pool = [r \in Request |-> "none"] /\ timer = [r \in Request |-> NoTimer]
    /\ state = [r \in Request |-> "new"] /\ uses = [r \in Request |-> None]
    /\ since = [r \in Request |-> 0] /\ closedBy = [r \in Request |-> "nothing"]
    /\ route = [r \in Request |-> live]

-----------------------------------------------------------------------------
(* poolCache. *)

\* closeSharedPool: whatever entry there is now.
Closed(why) ==
    IF cached = None THEN UNCHANGED <<pool, cached, closedBy>>
    ELSE /\ pool' = [pool EXCEPT ![cached] = "closed"] /\ cached' = None
         /\ closedBy' = [closedBy EXCEPT ![cached] = why]
ClearedTimer == IF cached = None THEN timer ELSE [timer EXCEPT ![cached] = NoTimer]
closeSharedPool(why) == Closed(why) /\ timer' = ClearedTimer

\* Mutant: the timer of the entry goes on.
ResetTimer_keeps == timer

\* The timer of the entry that is used starts again.
ResetTimer == [timer EXCEPT ![cached] = time + Idle]

\* The request of some route comes; when it is done, its route is forgotten.
Begins(r, s, p) ==
    /\ state[r] = "new" /\ \A q \in Request : q < r => state[q] # "new"
    /\ state' = [state EXCEPT ![r] = s]
    /\ uses' = [uses EXCEPT ![r] = p] /\ since' = [since EXCEPT ![r] = time]
    /\ \E x \in Routes : route' = [route EXCEPT ![r] = x]
Finishes(r) ==
    /\ state' = [state EXCEPT ![r] = "done"]
    /\ since' = [since EXCEPT ![r] = 0] /\ route' = [route EXCEPT ![r] = live]

Hit == cached # None /\ pool[cached] = "open"

GetHit(r) ==
    /\ Hit /\ Begins(r, "using", cached)
    /\ timer' = ResetTimer
    /\ UNCHANGED <<time, pool, cached, orphans, closedBy>>

\* A stale entry is closed and removed, then the request connects.
GetMiss(r) ==
    /\ ~Hit /\ Begins(r, "connecting", r)
    /\ pool' = [p \in Request |-> CASE p = r -> "connecting"
                                    [] p = cached -> "closed"
                                    [] OTHER -> pool[p]]
    /\ closedBy' = [p \in Request |-> IF p = cached THEN "stale" ELSE closedBy[p]]
    /\ timer' = ClearedTimer /\ cached' = None
    /\ UNCHANGED <<time, orphans>>

Connected(r) ==
    /\ state[r] = "connecting"
    /\ pool' = [pool EXCEPT ![r] = "open"]
    /\ timer' = [timer EXCEPT ![r] = time + Idle]
    /\ orphans' = IF cached = None THEN orphans ELSE orphans \cup {cached}
    /\ cached' = r
    /\ state' = [state EXCEPT ![r] = "using"]
    /\ UNCHANGED <<time, route, uses, since, closedBy>>

ConnectFails(r) ==
    /\ state[r] = "connecting" /\ Finishes(r)
    /\ IF route[r].connect /\ cached # None
       THEN /\ pool' = [pool EXCEPT ![r] = "closed", ![cached] = "closed"]
            /\ closedBy' = [closedBy EXCEPT ![cached] = "failure"]
            /\ cached' = None /\ timer' = ClearedTimer
       ELSE /\ pool' = [pool EXCEPT ![r] = "closed"] /\ UNCHANGED <<cached, timer, closedBy>>
    /\ UNCHANGED <<time, uses, orphans>>

QueryAnswered(r) ==
    /\ state[r] = "using" /\ Finishes(r)
    /\ UNCHANGED <<time, pool, cached, timer, uses, orphans, closedBy>>

\* The query fails; some errors are answered without closing the pool.
QueryFails(r) ==
    /\ state[r] = "using" /\ Finishes(r)
    /\ route[r].query /\ closeSharedPool("failure")
    /\ UNCHANGED <<time, uses, orphans>>

TimerFires(p) ==
    /\ timer[p] # NoTimer /\ timer[p] <= time
    /\ Closed(IF p = cached THEN "idle" ELSE "orphan's timer")
    /\ timer' = [ClearedTimer EXCEPT ![p] = NoTimer]
    /\ UNCHANGED <<time, state, route, uses, since, orphans>>

ServerDrops(p) ==
    /\ pool[p] = "open" /\ pool' = [pool EXCEPT ![p] = "dropped"]
    /\ UNCHANGED <<time, cached, timer, state, route, uses, since, orphans, closedBy>>

\* Timers that are due have fired and no request is as old as the idle time.
Pass ==
    /\ time < MaxTime /\ time' = time + 1
    /\ \A p \in Request : timer[p] = NoTimer \/ timer[p] > time
    /\ \A r \in Request : state[r] \in {"connecting", "using"} => time' - since[r] < Idle
    /\ UNCHANGED <<pool, cached, timer, state, route, uses, since, orphans, closedBy>>

SharedPoolNext ==
    \/ \E r \in Request : \/ GetHit(r) \/ GetMiss(r) \/ Connected(r) \/ ConnectFails(r)
                          \/ QueryAnswered(r) \/ QueryFails(r) \/ TimerFires(r) \/ ServerDrops(r)
    \/ Pass

SharedPoolSpec == SharedPoolInit /\ [][SharedPoolNext]_poolVars

-----------------------------------------------------------------------------
\* r connected while another request did.
Overlapped(r) == \E s \in Request \ {r} : uses[s] = s /\ uses[r] = r

(* Every open pool will be closed: it is the one in the map, where a timer *)
(* no further away than the idle time will close it, or its entry was      *)
(* replaced, which takes two requests that both found no pool.  A pool in  *)
(* use is closed only by the failure of another request, because it had    *)
(* dropped, or by the timer of a pool that was replaced, never by its own  *)
(* timer.                                                                  *)
PoolsAccountedFor ==
    /\ \A p \in Request : pool[p] = "open" => p = cached \/ p \in orphans
    /\ cached # None => /\ timer[cached] \in time..(time + Idle)
                        /\ pool[cached] \in {"open", "dropped"}
    /\ \A p \in orphans : Overlapped(p)
    /\ \A r \in Request : state[r] = "using" /\ pool[uses[r]] = "closed" =>
          \/ closedBy[uses[r]] \in {"failure", "stale"}
          \/ closedBy[uses[r]] = "orphan's timer" /\ orphans # {}
=============================================================================
