------------------------------ MODULE XeCapture ------------------------------
(***************************************************************************)
(* The two collectors that read Extended Events of one SQL Server:         *)
(* collectDeadlocks (collector/collectors/deadlocks.ts), which reads the   *)
(* session system_health that every server has, and collectBlockingEvents  *)
(* (blocking-events.ts), which reads the session matei_blocking that       *)
(* ensureBlockingXeSession creates.  Both keep the time of the newest      *)
(* event they have seen in a map of the process and ask for later ones;    *)
(* what they return is inserted by the same cycle (worker-pool.ts).        *)
(*                                                                         *)
(* An event gets its time when it happens and shows in the ring buffer     *)
(* when the server dispatches it, at some later moment and in any order.   *)
(*                                                                         *)
(* The two compare times differently.  The watermark of the deadlocks is   *)
(* a parameter of the query: mssql binds a Date as a DATETIME, a multiple  *)
(* of 1/300 s, which the server compares with the exact time of an event.  *)
(* The watermark of the blocking events is compared by the process itself. *)
(***************************************************************************)
EXTENDS Integers, Sequences, FiniteSetsExt

CONSTANTS Lookback,    \* FIRST_RUN_LOOKBACK_MS, in units of the clock
          DateTimeTick, \* what a DATETIME is a multiple of, in units of the clock
          MaxTime,     \* bound: the clock stops here
          MaxEvents,   \* bound: events of the two streams together
          MaxRestarts, \* bound: restarts of the SQL Server and of the backend
          MaxTouches   \* bound: what an administrator does to the session

ASSUME XeBounds == /\ Lookback \in Nat /\ DateTimeTick \in Nat \ {0} /\ MaxTime \in Nat /\ MaxEvents \in Nat
                   /\ MaxRestarts \in Nat /\ MaxTouches \in Nat

Stream == {"deadlocks", "blocking"}

\* A blocking report is of one session that waits for another ("pair") or for itself
\* ("self"), or it is empty or lacks the number of a session ("void").
Form(s) == IF s = "deadlocks" THEN {"pair"} ELSE {"pair", "self", "void"}
Never == -MaxTime - Lookback - 1   \* no entry in lastCollectedTime

VARIABLES clock, restarts, touches,
          events,    \* per stream, the events in order: [at, form, place]
          session,   \* definition of matei_blocking: "none", "valid", "invalid"
          running,   \* is it started (sys.dm_xe_sessions)
          sqlStart,  \* sqlserver_start_time, counted
          lastCollectedTime, supported, ensured, createFailed, \* maps of the process
          pc,        \* the step of this instance's collection
          read,      \* streams whose collector has returned
          rows,      \* the events they returned, by index
          saved,     \* events inserted in this life of the process
          past,      \* events inserted in earlier lives
          excused,   \* events that are lost for a reason AccountedFor names
          touched    \* the session was changed by hand since it was ensured

sqlVars == <<events, session, running, sqlStart>>
mapVars == <<lastCollectedTime, supported, ensured, createFailed>>
cycleVars == <<pc, read, rows>>
bookVars == <<saved, past, excused, touched>>
boundVars == <<clock, restarts, touches>>
vars == <<sqlVars, mapVars, cycleVars, bookVars, boundVars>>

Nothing == [s \in Stream |-> {}]
Placed(event, place) == [event EXCEPT !.place = place]
In(s, place) == {e \in DOMAIN events[s] : events[s][e].place = place}
Union(f, g) == [s \in Stream |-> f[s] \cup g[s]]

Init ==
    /\ clock = 0 /\ restarts = 0 /\ touches = 0
    /\ events = [s \in Stream |-> <<>>]
    /\ session \in {"none", "valid", "invalid"}
    /\ running \in BOOLEAN /\ (running => session # "none")
    /\ sqlStart = 1
    /\ lastCollectedTime = [s \in Stream |-> Never]
    /\ supported = "unknown" /\ ensured = 0 /\ createFailed = FALSE
    /\ pc = "idle" /\ read = {} /\ rows = Nothing
    /\ saved = Nothing /\ past = Nothing /\ excused = Nothing /\ touched = FALSE

-----------------------------------------------------------------------------
(* The SQL Server and its administrator. *)

Tick == /\ clock < MaxTime /\ clock' = clock + 1
        /\ UNCHANGED <<sqlVars, mapVars, cycleVars, bookVars, restarts, touches>>

\* system_health always records; matei_blocking while a valid definition runs.
Records(s) == s = "deadlocks" \/ (running /\ session = "valid")

Happens(s, form) ==
    /\ Len(events["deadlocks"]) + Len(events["blocking"]) < MaxEvents /\ Records(s)
    /\ events' = [events EXCEPT ![s] = Append(@, [at |-> clock, form |-> form, place |-> "buffer"])]
    /\ UNCHANGED <<session, running, sqlStart, mapVars, cycleVars, bookVars, boundVars>>

\* What a time becomes on its way to where it is compared.
Sent(s, t) ==
    IF s = "deadlocks" THEN DateTimeTick * ((t + DateTimeTick \div 2) \div DateTimeTick) ELSE t

\* An event that shows behind the watermark will never be asked for again.
Behind(s, e) == lastCollectedTime[s] # Never /\ events[s][e].at <= Sent(s, lastCollectedTime[s])

Dispatch(s, e) ==
    /\ e \in In(s, "buffer")
    /\ events' = [events EXCEPT ![s][e] = Placed(@, "ring")]
    /\ excused' = IF Behind(s, e)
                  THEN [excused EXCEPT ![s] = @ \cup {e}] ELSE excused
    /\ UNCHANGED <<session, running, sqlStart, mapVars, cycleVars, saved, past, touched, boundVars>>

Emptied(S) == [s \in Stream |->
    [e \in DOMAIN events[s] |-> IF s \in S THEN Placed(events[s][e], "gone") ELSE events[s][e]]]

\* Somebody stops, starts, drops or creates the session with other tools.
Touch ==
    /\ touches < MaxTouches /\ touches' = touches + 1 /\ touched' = TRUE
    /\ \/ session # "none" /\ running' = ~running /\ UNCHANGED session
       \/ session # "none" /\ session' = "none" /\ running' = FALSE
       \/ session = "none" /\ session' \in {"valid", "invalid"} /\ running' \in BOOLEAN
    /\ events' = IF running' /\ running THEN events ELSE Emptied({"blocking"})
    /\ UNCHANGED <<sqlStart, mapVars, cycleVars, saved, past, excused, clock, restarts>>

\* Collections that fail forget what their collectors returned.
Abandon == /\ pc' = "idle" /\ read' = {} /\ rows' = Nothing
           /\ excused' = Union(excused, rows)

\* The server comes back with empty ring buffers; whether it starts a session is
\* that session's STARTUP_STATE.  The collection in progress loses its connection;
\* inside ensureBlockingXeSession that counts as a failed CREATE.
SqlRestart ==
    /\ restarts < MaxRestarts /\ restarts' = restarts + 1
    /\ sqlStart' = sqlStart + 1 /\ events' = Emptied(Stream)
    /\ running' \in IF session = "none" THEN {FALSE} ELSE BOOLEAN
    /\ IF pc = "insert" THEN UNCHANGED <<cycleVars, excused>> ELSE Abandon
    /\ IF pc \in {"ensure", "stop", "drop", "create"}
       THEN ensured' = sqlStart /\ createFailed' = TRUE ELSE UNCHANGED <<ensured, createFailed>>
    /\ UNCHANGED <<session, lastCollectedTime, supported, saved, past, touched, clock, touches>>

-----------------------------------------------------------------------------
(* ensureBlockingXeSession. *)

ToEnsure == pc' = "ensure" /\ UNCHANGED <<read, rows>>
ToCollect == pc' = "collect" /\ UNCHANGED <<read, rows>>

Begin == pc = "idle" /\ ToEnsure /\ UNCHANGED <<sqlVars, mapVars, bookVars, boundVars>>

Restarted == ensured # 0 /\ ensured # sqlStart

\* A new start time forgets what was known of the instance.
ForgetIfRestarted ==
    /\ supported' = IF Restarted THEN "unknown" ELSE supported
    /\ createFailed' = IF Restarted THEN FALSE ELSE createFailed

EnsureKnown ==
    /\ pc = "ensure" /\ ~Restarted /\ (ensured = sqlStart \/ createFailed)
    /\ ToCollect /\ UNCHANGED <<sqlVars, mapVars, bookVars, boundVars>>

Adequate == running /\ session = "valid"

\* Mutant: a correct definition is taken for a running session.
EnsureCheck_definitionOnly ==
    /\ pc = "ensure" /\ (Restarted \/ (ensured = 0 /\ ~createFailed))
    /\ ForgetIfRestarted
    /\ UNCHANGED <<sqlVars, lastCollectedTime, read, rows, saved, past, excused, boundVars>>
    /\ IF session = "valid"
       THEN pc' = "collect" /\ ensured' = sqlStart /\ touched' = FALSE
       ELSE /\ pc' = CASE session # "invalid" -> "create" [] running -> "stop" [] OTHER -> "drop"
            /\ ensured' = (IF Restarted THEN 0 ELSE ensured) /\ UNCHANGED touched

\* The check: fine as it is, to be stopped and dropped first, or to be created.
EnsureCheck ==
    /\ pc = "ensure" /\ (Restarted \/ (ensured = 0 /\ ~createFailed))
    /\ ForgetIfRestarted
    /\ UNCHANGED <<sqlVars, lastCollectedTime, read, rows, saved, past, excused, boundVars>>
    /\ IF Adequate
       THEN pc' = "collect" /\ ensured' = sqlStart /\ touched' = FALSE
       ELSE /\ pc' = CASE session # "invalid" -> "create" [] running -> "stop" [] OTHER -> "drop"
            /\ ensured' = (IF Restarted THEN 0 ELSE ensured) /\ UNCHANGED touched

\* ALTER ... STATE = STOP of a session that the check found running.
EnsureStop ==
    /\ pc = "stop" /\ running /\ pc' = "drop" /\ running' = FALSE
    /\ events' = Emptied({"blocking"})
    /\ UNCHANGED <<session, sqlStart, mapVars, read, rows, bookVars, boundVars>>

EnsureDrop ==
    /\ pc = "drop" /\ session # "none" /\ pc' = "create"
    /\ session' = "none" /\ running' = FALSE
    /\ events' = Emptied({"blocking"})
    /\ UNCHANGED <<sqlStart, mapVars, read, rows, bookVars, boundVars>>

\* CREATE EVENT SESSION refuses a name that exists.
EnsureCreate ==
    /\ pc = "create" /\ session = "none" /\ ToCollect
    /\ session' = "valid" /\ running' = TRUE
    /\ ensured' = sqlStart /\ touched' = FALSE
    /\ UNCHANGED <<events, sqlStart, lastCollectedTime, supported, createFailed, saved, past, excused, boundVars>>

\* Any statement may fail, and START after CREATE did its work.  The CREATE of a
\* session that exists but is stopped always does.
EnsureFails ==
    /\ pc \in {"ensure", "stop", "drop", "create"} /\ ToCollect
    /\ ~(pc = "ensure" /\ ~Restarted /\ (ensured = sqlStart \/ createFailed))
    /\ \/ UNCHANGED <<session, running>>
       \/ pc = "create" /\ session = "none" /\ session' = "valid" /\ running' = FALSE
    /\ ensured' = sqlStart /\ createFailed' = TRUE
    /\ supported' = IF pc = "ensure" /\ Restarted THEN "unknown" ELSE supported
    /\ UNCHANGED <<events, sqlStart, lastCollectedTime, bookVars, boundVars>>

-----------------------------------------------------------------------------
(* The collectors, run side by side under one Promise.all. *)

Since(s) == IF lastCollectedTime[s] = Never THEN clock - Lookback ELSE lastCollectedTime[s]

\* Mutant: later or at the same time.
NewEvents_atSince(s) == {e \in In(s, "ring") : events[s][e].at >= Sent(s, Since(s))}

\* Mutant: only the newest row of the answer (it is ordered by time, descending).
NewEvents_top1(s) ==
    {e \in In(s, "ring") : /\ events[s][e].at > Sent(s, Since(s))
                           /\ \A d \in In(s, "ring") : events[s][d].at <= events[s][e].at /\ d <= e}

NewEvents(s) == {e \in In(s, "ring") : events[s][e].at > Sent(s, Since(s))}
Time(s, E) == {events[s][e].at : e \in E}
Running(s) == pc \in {"collect", "failed"} /\ s \notin read

OfForm(s, E, form) == {e \in E : events[s][e].form = form}

\* The events whose sessions are in the rows that buildBlockingChains and the merge
\* make.  Two sessions always make a chain, but a circle beside a head makes none, and
\* of two chains of one head the later one replaces the earlier.
Chained(s, E) ==
    IF s = "deadlocks" THEN {E}
    ELSE {K \in SUBSET E : IF OfForm(s, E, "pair") = {} THEN K = {} ELSE OfForm(s, K, "pair") # {}}

\* An answer moves the watermark to the newest of its events that is not void, and
\* never back.  The first answer with one drops what is older than the look-back; if
\* the collection has failed meanwhile, nobody takes the rows.
Answer(s) ==
    LET new == NewEvents(s) \ OfForm(s, NewEvents(s), "void")
        newest == Max(Time(s, new))
        old == {e \in In(s, "ring") : /\ new # {} /\ lastCollectedTime[s] = Never
                                      /\ events[s][e].at <= Sent(s, Since(s))}
    IN /\ lastCollectedTime' = IF new = {} THEN lastCollectedTime
                               ELSE [lastCollectedTime EXCEPT ![s] = IF newest > Since(s) THEN newest ELSE Since(s)]
       /\ \E kept \in Chained(s, new) :
             /\ rows' = IF pc = "failed" THEN rows ELSE [rows EXCEPT ![s] = kept]
             /\ excused' = [excused EXCEPT ![s] = @ \cup old \cup (IF pc = "failed" THEN new ELSE new \ kept)]
       /\ read' = read \cup {s}
       /\ UNCHANGED <<sqlVars, ensured, createFailed, pc, saved, past, touched, boundVars>>

NoAnswer(s) ==
    /\ Running(s) /\ read' = read \cup {s}
    /\ UNCHANGED <<sqlVars, lastCollectedTime, ensured, createFailed, pc, rows, bookVars, boundVars>>

ReadDeadlocks == Running("deadlocks") /\ Answer("deadlocks") /\ UNCHANGED supported
DeadlocksFail == NoAnswer("deadlocks") /\ UNCHANGED supported

ReadBlocking ==
    /\ Running("blocking") /\ supported # "no"
    /\ Answer("blocking") /\ supported' = "yes"

\* Some errors stop the blocking collector until the SQL Server restarts.
BlockingFails == NoAnswer("blocking") /\ supported' \in {supported, "no"}

Collected == /\ pc = "collect" /\ read = Stream /\ pc' = "insert"
             /\ UNCHANGED <<sqlVars, mapVars, read, rows, bookVars, boundVars>>

\* Mutant: the failed result still carries the rows that were read.
Reject_keepsRows == /\ pc = "collect" /\ pc' = "failed"
                    /\ excused' = Union(excused, rows)
                    /\ UNCHANGED <<sqlVars, mapVars, read, rows, saved, past, touched, boundVars>>

\* Another collector rejects: what has been read is lost, and the queries that are
\* still out may yet move their watermark.
Reject == /\ pc = "collect" /\ pc' = "failed" /\ rows' = Nothing
          /\ excused' = Union(excused, rows)
          /\ UNCHANGED <<sqlVars, mapVars, read, saved, past, touched, boundVars>>

Leave == /\ pc = "failed" /\ pc' = "idle" /\ read' = {}
         /\ UNCHANGED <<sqlVars, mapVars, rows, bookVars, boundVars>>

\* batchInsertDeadlocks and batchInsertBlockingEvents; either may fail by itself.
Insert == /\ pc = "insert" /\ pc' = "idle" /\ read' = {} /\ rows' = Nothing
          /\ \E ok \in SUBSET Stream :
                LET stored == [s \in Stream |-> IF s \in ok THEN rows[s] ELSE {}]
                    dropped == [s \in Stream |-> rows[s] \ stored[s]]
                IN saved' = Union(saved, stored) /\ excused' = Union(excused, dropped)
          /\ UNCHANGED <<sqlVars, mapVars, past, touched, boundVars>>

\* The maps are the process's: a new one starts from the look-back.
BackendRestart ==
    /\ restarts < MaxRestarts /\ restarts' = restarts + 1
    /\ lastCollectedTime' = [s \in Stream |-> Never]
    /\ supported' = "unknown" /\ ensured' = 0 /\ createFailed' = FALSE
    /\ past' = Union(past, saved) /\ saved' = Nothing
    /\ Abandon /\ UNCHANGED <<sqlVars, touched, clock, touches>>

Next ==
    \/ Tick \/ Touch \/ SqlRestart \/ BackendRestart
    \/ \E s \in Stream : (\E form \in Form(s) : Happens(s, form)) \/ \E e \in DOMAIN events[s] : Dispatch(s, e)
    \/ Begin \/ EnsureKnown \/ EnsureCheck \/ EnsureStop \/ EnsureDrop \/ EnsureCreate \/ EnsureFails
    \/ ReadDeadlocks \/ DeadlocksFail \/ ReadBlocking \/ BlockingFails
    \/ Collected \/ Reject \/ Leave \/ Insert

Spec == Init /\ [][Next]_vars
-----------------------------------------------------------------------------
\* Every variable holds a value of its type: the maps only name start times and
\* event times that have been, and rows are held only between the answer and the INSERT.
TypeOK ==
    /\ clock \in 0..MaxTime /\ restarts \in 0..MaxRestarts /\ touches \in 0..MaxTouches
    /\ \A s \in Stream :
          /\ events[s] \in Seq([at : 0..clock, form : Form(s), place : {"buffer", "ring", "gone"}])
          /\ lastCollectedTime[s] \in {Never} \cup -Lookback..clock
          /\ rows[s] \cup saved[s] \cup past[s] \cup excused[s] \subseteq DOMAIN events[s]
          /\ rows[s] # {} => pc \in {"collect", "insert"} /\ s \in read
    /\ session \in {"none", "valid", "invalid"} /\ running \in BOOLEAN
    /\ ensured \in 0..sqlStart /\ createFailed \in BOOLEAN /\ touched \in BOOLEAN
    /\ supported \in {"unknown", "yes", "no"} /\ read \subseteq Stream
    /\ pc \in {"idle", "ensure", "stop", "drop", "create", "collect", "failed", "insert"}

AsksForNew ==
    \A s \in Stream : \A e \in rows'[s] \ rows[s] :
        e \in saved[s] \cup past[s] =>
            \/ /\ s = "deadlocks" /\ lastCollectedTime[s] # Never
               /\ lastCollectedTime[s] - DateTimeTick < events[s][e].at
               /\ events[s][e].at <= lastCollectedTime[s]
            \/ /\ e \notin saved[s] /\ lastCollectedTime[s] = Never
               /\ clock - Lookback - DateTimeTick < events[s][e].at

\* No event that is stored is returned again, whatever fails, restarts or shows late,
\* with two exceptions.  A deadlock is, in every cycle, while it lies within the
\* rounding of the watermark; and the first answer of a life returns what the look-back
\* reaches of the lives before.  A blocking event is stored once in a life.
FetchedOnce == [][AsksForNew]_vars

\* An event that the ring buffer shows and no query will ask for any more is stored,
\* about to be, or lost for a reason: it showed after the watermark had passed it (or
\* had been rounded up past it), it was older than the look-back when the process
\* started, its cycle failed after the collector had read it, its INSERT failed
\* (deadlocks.ts advances the watermark at line 115, long before the rows are stored),
\* or it is a blocking report that is void or that the chains leave out.
AccountedFor ==
    \A s \in Stream : \A e \in In(s, "ring") :
        Behind(s, e) /\ events[s][e].form # "void"
            => e \in saved[s] \cup past[s] \cup rows[s] \cup excused[s]

\* While the process takes the session for ensured, it runs with the right definition,
\* through restarts and failures between the check, the DROP and the CREATE, unless
\* somebody has changed it since.
EnsuredMeansRunning ==
    ensured = sqlStart /\ ~createFailed /\ ~touched => Adequate
=============================================================================
