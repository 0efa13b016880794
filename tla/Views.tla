---------------------------------- MODULE Views ----------------------------------
(***************************************************************************)
(* What the pages of the web client show: the queries of the components    *)
(* (web/src/pages, web/src/components), their place in the query cache     *)
(* that main.tsx configures, the mutations with the queries each of them   *)
(* invalidates, the plans that are fetched by hand and the webhook form.   *)
(*                                                                         *)
(* A view is described by the root of its query key, the page it is on,    *)
(* the facts of the database it reads that a mutation of its page writes,  *)
(* and whether it polls; a mutation by its page, the facts it writes and   *)
(* the roots it invalidates.  The other elements of a key are the view's   *)
(* argument (instance, range, time window, filter, expanded row); that a   *)
(* key names all that its request depends on was read from the code and is *)
(* no property.  A behaviour is about one view.  Rendering is left out;    *)
(* the query cache is the library's and is modelled by its documented      *)
(* behaviour: one fetch in flight for a key, an answer is kept until the   *)
(* next and is stale at once, an invalidation fetches again what is shown  *)
(* and drops the fetch in flight unless it is the first of its key.        *)
(***************************************************************************)
EXTENDS Integers, FiniteSetsExt

CONSTANTS Arg,      \* arguments of the view
          MaxWrites \* bound: mutations that were written
ASSUME ViewsBounds == MaxWrites \in Nat \ {0}

-----------------------------------------------------------------------------
(* The views that are queries. *)

View(root, page, reads, poll) ==
    [root |-> root, page |-> page, reads |-> reads, poll |-> poll, form |-> "query"]
Polled(root, page) == View(root, page, {}, TRUE)
Asked(root, page)  == View(root, page, {}, FALSE)

Overview            == View("metrics-overview", "dashboard", {"instances"}, TRUE)
InstancesList       == View("instances", "instances", {"instances"}, FALSE)
GroupsOptions       == Asked("groups-options", "instances")
GroupsOfForm        == Asked("groups-list", "instances")
GroupsList          == View("groups", "groups", {"groups", "counts"}, FALSE)
GroupDetail         == View("group-detail", "groups", {"members"}, FALSE)
InstancesForGroups  == View("instances-for-groups", "groups", {"grouping"}, FALSE)
UsersList           == View("users", "users", {"users"}, FALSE)
SettingsData        == Asked("settings", "alert-settings")
AlertsList          == View("alerts", "alerts", {"alerts"}, TRUE)
AlertCount          == View("alertCount", "alerts", {"alerts"}, TRUE)  \* on every page
CollectorStatus     == Polled("collector-status", "about")
Tracked             == View("tracked-queries", "instance", {"tracked"}, TRUE)
TopQueries          == Asked("analysis-queries", "instance")
QueryTimeSeries     == Asked("query-timeseries", "instance")
TopProcedures       == Asked("analysis-procedures", "instance")
ProcedureStatements == Asked("procedure-statements-history", "instance")
DatabaseDetail      == Asked("database-detail", "instance")
DeadlockDetail      == Asked("deadlock-detail", "instance")
DeadlocksTable      == Polled("deadlocks", "instance")
DetailHealth        == Polled("metrics-health", "instance")
DetailHostInfo      == Polled("host-info", "instance")
DetailCpu           == Polled("metrics-cpu", "instance")
CurrentActivity     == Polled("current-activity", "instance")
Timeline            == Polled("overview-chart", "instance")
MemoryClerksChart   == Polled("memory-clerks-chart", "instance")
MemoryBreakdown     == Polled("memory-breakdown", "instance")
DiskChart           == Polled("disk-chart", "instance")
DiskUsageTable      == Polled("disk-usage", "instance")
FileIoChart         == Polled("file-io-chart", "instance")
WaitsChart          == Polled("waits-chart", "instance")
CpuMini             == Polled("overview-cpu", "instance")
MemoryMini          == Polled("overview-mem", "instance")
SignalMini          == Polled("overview-signal-resource", "instance")
DiskIoMini          == Polled("overview-diskio-rw", "instance")
DatabasesList       == Polled("databases-list", "instance")
PermissionsTable    == Polled("permissions", "instance")
BlockingEvents      == Polled("blocking-history", "instance")
BlockingConfig      == Polled("blocking-config", "instance")
BlockingTree        == Polled("blocking-chains", "instance")
ServerMetrics       == Polled("sql-metrics-perf", "instance")
ServerConfigTable   == Polled("sql-metrics-config", "instance")
StatusBar           == Polled("statusbar", "instance")  \* six queries alike
ExplorerQueries     == Polled("queries", "explorer")

\* Not a plain query: the form of the webhook is filled once from its query;
\* a plan is fetched by hand, and its button waits for the answer, in
\* BlockingHistory the button of the same session only.
WebhookForm  == [Asked("webhook-config", "alert-settings") EXCEPT !.reads = {"webhook"},
                                                                  !.form = "once"]
QueryPlan    == [Asked("plan", "instance") EXCEPT !.form = "byHand"]
BlockingPlan == [Asked("blocking-plan", "instance") EXCEPT !.form = "byHandEach"]

Views == {Overview, InstancesList, GroupsOptions, GroupsOfForm, GroupsList, GroupDetail,
    InstancesForGroups, UsersList, SettingsData, AlertsList, AlertCount, CollectorStatus,
    Tracked, TopQueries, QueryTimeSeries, TopProcedures, ProcedureStatements, DatabaseDetail,
    DeadlockDetail, DeadlocksTable, DetailHealth, DetailHostInfo, DetailCpu, CurrentActivity,
    Timeline, MemoryClerksChart, MemoryBreakdown, DiskChart, DiskUsageTable, FileIoChart, WaitsChart,
    CpuMini, MemoryMini, SignalMini, DiskIoMini, DatabasesList, PermissionsTable, BlockingEvents,
    BlockingConfig, BlockingTree, ServerMetrics, ServerConfigTable, StatusBar, ExplorerQueries,
    WebhookForm, QueryPlan, BlockingPlan}

\* Their queryFn throws on an HTTP error; the others answer with an empty result, or with
\* whatever the response holds.
Strict == {Overview, InstancesList, GroupsOptions, GroupsList, GroupDetail, InstancesForGroups,
    UsersList, SettingsData, CollectorStatus, TopProcedures, ProcedureStatements, DeadlockDetail,
    DetailHealth, DetailHostInfo, DetailCpu, CurrentActivity, BlockingConfig, StatusBar,
    ExplorerQueries, WebhookForm}

-----------------------------------------------------------------------------
(* The mutations. *)

Mutation(page, writes, invalidates) ==
    [page |-> page, writes |-> writes, invalidates |-> invalidates]
GroupViews == {"groups", "group-detail", "instances-for-groups"}

CardChange       == Mutation("dashboard", {"instances"}, {"metrics-overview"})  \* disabling fails
ChangeInstance   == Mutation("instances", {"instances"}, {"instances"})
SaveGroup        == Mutation("groups", {"groups"}, {"groups"})
DeleteGroup      == Mutation("groups", {"groups", "grouping"}, {"groups", "instances-for-groups"})
Regroup          == Mutation("groups", {"counts", "members", "grouping"}, GroupViews)
ChangeUsers      == Mutation("users", {"users"}, {"users"})
Acknowledge      == Mutation("alerts", {"alerts"}, {"alerts", "alertCount"})
ChangeTracked    == Mutation("instance", {"tracked"}, {"tracked-queries"})
SaveWebhook      == Mutation("alert-settings", {"webhook"}, {})

Mutations == {CardChange, ChangeInstance, SaveGroup, DeleteGroup, Regroup, ChangeUsers,
              Acknowledge, ChangeTracked, SaveWebhook}
Careless  == {CardChange, Acknowledge, ChangeTracked}  \* they do not look at the status

-----------------------------------------------------------------------------
Unread == -1
NoAnswer == [ver |-> Unread, excused |-> FALSE]
NoFetch == [on |-> FALSE, ver |-> Unread, overtaken |-> FALSE]

VARIABLES view,     \* of this behaviour
          here,     \* its page is open
          arg,      \* its argument now
          cache,    \* by key: the version of the last answer, and whether it is excused:
                    \* overtaken by a mutation, or not followed by another that failed
          flight,   \* by key: the fetch in flight
          version,  \* how often the facts the view reads were written
          mutation, \* those in flight: which, what it is, the version it wrote, and
                    \* whether the form that asked for it is still mounted
          seen,     \* the last version that a mutation wrote and was answered
          shown,    \* by the form or the plan panel: a version, or an argument; or Unread
          late      \* an answer was to come when another plan was asked for, or the panel closed

cacheVars == <<cache, flight>>
viewsVars == <<view, here, arg, cacheVars, version, mutation, seen, shown, late>>

ViewsInit ==
    /\ view \in Views /\ here = FALSE /\ arg \in Arg
    /\ cache = [k \in Arg |-> NoAnswer] /\ flight = [k \in Arg |-> NoFetch]
    /\ version = 0 /\ mutation = {} /\ seen = 0
    /\ shown = Unread /\ late = FALSE

Query == view.form \in {"query", "once"}

Fetch == [NoFetch EXCEPT !.on = TRUE]
Started(a) == IF flight[a].on THEN flight ELSE [flight EXCEPT ![a] = Fetch]

\* The form takes the first data there is, and later data no more.
Filled(got) == IF view.form = "once" /\ shown = Unread THEN got.ver ELSE shown

-----------------------------------------------------------------------------
(* The user. *)

\* A view that mounts shows what is cached and fetches it again.
Mount ==
    /\ Query /\ ~here /\ here' = TRUE /\ flight' = Started(arg)
    /\ shown' = Filled(cache[arg])
    /\ UNCHANGED <<view, arg, cache, version, mutation, seen, late>>

\* The state of a component goes with it; fetches and mutations do not.
Unmount ==
    /\ Query /\ here /\ here' = FALSE /\ shown' = Unread
    /\ mutation' = {[m EXCEPT !.form = FALSE] : m \in mutation}
    /\ UNCHANGED <<view, arg, cacheVars, version, seen, late>>

Change(a) ==
    /\ view.form = "query" /\ here /\ a # arg /\ arg' = a /\ flight' = Started(a)
    /\ UNCHANGED <<view, here, cache, version, mutation, seen, shown, late>>

Poll ==
    /\ view.poll /\ here /\ ~flight[arg].on /\ flight' = Started(arg)
    /\ UNCHANGED <<view, here, arg, cache, version, mutation, seen, shown, late>>

-----------------------------------------------------------------------------
(* The fetches. *)

ServerReads(k) ==
    /\ flight[k].on /\ flight[k].ver = Unread /\ flight' = [flight EXCEPT ![k].ver = version]
    /\ UNCHANGED <<view, here, arg, cache, version, mutation, seen, shown, late>>

\* What a fetch brought replaces the last answer, empty or not.
Brings(k, got) ==
    /\ cache' = [cache EXCEPT ![k] = got] /\ flight' = [flight EXCEPT ![k] = NoFetch]
    /\ shown' = IF here /\ k = arg THEN Filled(got) ELSE shown
    /\ UNCHANGED <<view, here, arg, version, mutation, seen, late>>

Arrives(k) ==
    /\ Query /\ flight[k].on /\ flight[k].ver # Unread
    /\ Brings(k, [ver |-> flight[k].ver, excused |-> flight[k].overtaken])

\* An HTTP error, of a query that does not throw it.
Refused(k) ==
    /\ Query /\ view \notin Strict /\ flight[k].on
    /\ Brings(k, [ver |-> 0, excused |-> TRUE])

\* No answer, or an HTTP error of a query that throws it, and the retry fails too:
\* the last answer stays.
FetchFails(k) ==
    /\ Query /\ flight[k].on /\ flight' = [flight EXCEPT ![k] = NoFetch]
    /\ cache' = [cache EXCEPT ![k].excused = (cache[k].ver # Unread)]
    /\ UNCHANGED <<view, here, arg, version, mutation, seen, shown, late>>

\* An answer that nothing shows is dropped after a while.
Forgotten(k) ==
    /\ Query /\ cache[k] # NoAnswer /\ ~(here /\ k = arg) /\ ~flight[k].on
    /\ cache' = [cache EXCEPT ![k] = NoAnswer]
    /\ UNCHANGED <<view, here, arg, flight, version, mutation, seen, shown, late>>

-----------------------------------------------------------------------------
(* The mutations of the page. *)

\* A page may have several on their way; the button of the form waits for its own.
Mutate(m) ==
    /\ Query /\ here /\ m.page = view.page /\ m.writes \cap view.reads # {}
    /\ version + Cardinality({w \in mutation : w.ver = Unread}) < MaxWrites
    /\ \A w \in mutation : ~w.form
    /\ LET n == Min(1..MaxWrites \ {w.n : w \in mutation}) IN
       mutation' = mutation \cup
                      {[n |-> n, what |-> m, ver |-> Unread, form |-> view.form = "once"]}
    /\ UNCHANGED <<view, here, arg, cacheVars, version, seen, shown, late>>

Written(m) ==
    /\ m.ver = Unread /\ version' = version + 1
    /\ mutation' = (mutation \ {m}) \cup {[m EXCEPT !.ver = version + 1]}
    /\ UNCHANGED <<view, here, arg, cacheVars, seen, shown, late>>

\* Mutant: the first elements only of what a mutation invalidates.
Invalidates_notMembers(m) == view.root \in m.invalidates \ {"group-detail"}

Invalidates(m) == view.root \in m.invalidates

\* The fetches whose answer was on its way when a mutation was answered.
Overtaken == [k \in Arg |-> [flight[k] EXCEPT !.overtaken = (flight[k].ver # Unread)]]

\* invalidateQueries: a view that is shown is fetched again; the fetch that is
\* in flight is dropped if there is data, else it has to do.
Refetched(f) ==
    IF here /\ (flight[arg].on => cache[arg].ver # Unread) THEN [f EXCEPT ![arg] = Fetch] ELSE f

\* onSuccess.  The form that is still mounted keeps what the user typed and saved.
MutationAnswered(m) ==
    /\ m.ver # Unread /\ mutation' = mutation \ {m}
    /\ flight' = IF Invalidates(m.what) THEN Refetched(Overtaken) ELSE Overtaken
    /\ seen' = IF m.ver > seen THEN m.ver ELSE seen
    /\ shown' = IF m.form THEN m.ver ELSE shown
    /\ UNCHANGED <<view, here, arg, cache, version, late>>

\* The request or its answer is lost, or the mutation is refused.
MutationFails(m) ==
    /\ \/ UNCHANGED flight
       \/ m.what \in Careless /\ m.ver = Unread /\ Invalidates(m.what) /\ flight' = Refetched(flight)
    /\ mutation' = mutation \ {m}
    /\ UNCHANGED <<view, here, arg, cache, version, seen, shown, late>>

-----------------------------------------------------------------------------
(* A plan fetched by hand: arg is the last that was asked for. *)

AskPlan(a) ==
    /\ ~Query /\ ~flight[a].on
    /\ view.form = "byHand" => \A k \in Arg : ~flight[k].on
    /\ arg' = a /\ shown' = Unread /\ flight' = [flight EXCEPT ![a] = Fetch]
    /\ late' = (\E k \in Arg : flight[k].on)
    /\ UNCHANGED <<view, here, cache, version, mutation, seen>>

PlanArrives(a) ==
    /\ ~Query /\ flight[a].on /\ flight[a].ver # Unread
    /\ shown' = a /\ flight' = [flight EXCEPT ![a] = NoFetch]
    /\ UNCHANGED <<view, here, arg, cache, version, mutation, seen, late>>

\* Another row is expanded, which empties the panel.
ClosePlan ==
    /\ view.form = "byHandEach" /\ shown' = Unread
    /\ late' = (\E k \in Arg : flight[k].on)
    /\ UNCHANGED <<view, here, arg, cacheVars, version, mutation, seen>>

ViewsNext ==
    \/ Mount \/ Unmount \/ Poll \/ ClosePlan
    \/ \E a \in Arg : \/ Change(a) \/ ServerReads(a) \/ Arrives(a) \/ Refused(a) \/ FetchFails(a)
                      \/ Forgotten(a) \/ AskPlan(a) \/ PlanArrives(a)
    \/ \E m \in Mutations : Mutate(m)
    \/ \E m \in mutation : Written(m) \/ MutationAnswered(m) \/ MutationFails(m)

ViewsSpec == ViewsInit /\ [][ViewsNext]_viewsVars

-----------------------------------------------------------------------------
Settled == ~flight[arg].on

(* A view that waits for nothing shows what the mutations of its page      *)
(* wrote that were answered, whatever was in flight and whatever pages     *)
(* were left meanwhile: each mutation invalidates every view beside it     *)
(* that it changes.  The exceptions: a fetch that was on its way when a    *)
(* mutation was answered and was not dropped, being the first of its key   *)
(* or not shown just then, and a fetch that failed or was refused.  The    *)
(* plan panel shows the plan last asked for unless an earlier answer was   *)
(* still to come.                                                          *)
SettledIsCurrent ==
    IF Query
    THEN LET got == cache[arg] IN
         view.form = "query" /\ here /\ Settled /\ got.ver # Unread =>
            got.ver >= seen \/ got.excused
    ELSE (\A a \in Arg : ~flight[a].on) /\ shown # Unread => shown = arg \/ late

(* AlertsSettings.tsx:38 "Initialize form from fetched data": a form that  *)
(* waits for nothing shows what is saved, when every save succeeded.  It   *)
(* does not: after a save the cached configuration is the one before it,   *)
(* and a form that mounts again is filled from the cache and never from    *)
(* the answer that follows.                                                *)
FormShowsSaved ==
    view.form = "once" /\ here /\ shown # Unread /\ Settled /\ mutation = {} /\ seen = version
        => shown = version \/ cache[arg].excused
=============================================================================
