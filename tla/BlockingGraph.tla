----------------------------- MODULE BlockingGraph -----------------------------
(***************************************************************************)
(* How blocked sessions are put together for display, twice: from the      *)
(* blocked-process reports of the extended events, which are pairs over    *)
(* some time (buildBlockingChains, collector/collectors/blocking-events.ts)*)
(* and from one snapshot of the active sessions (buildBlockingTrees,       *)
(* routes/metrics.ts).  Reports made at different moments may contradict   *)
(* each other, so either graph can have circles.                           *)
(***************************************************************************)
EXTENDS Integers, Sequences, SequencesExt, FiniteSetsExt

CONSTANTS Spid,        \* session ids, positive numbers
          GroupWindow, \* GROUP_WINDOW_MS, in units of the clock
          MaxReports,  \* bound: reports in the ring buffer
          Gaps         \* bound: times between two reports

ASSUME GraphBounds == Spid \subseteq Nat \ {0} /\ IsFiniteSet(Spid) /\ GroupWindow \in Nat /\ Gaps \subseteq Nat

Nobody == 0

VARIABLES blockedBy,   \* blocking_session_id of each session, Nobody if it waits for none
          reports      \* the reports, by time: [at, blocker, blocked]

graphVars == <<blockedBy, reports>>

GraphInit == blockedBy \in [Spid -> Spid \cup {Nobody}] /\ reports = <<>>

\* A session comes to wait for another, or still does, and is reported; who waits for
\* whom may have changed since the report before.
Report ==
    /\ Len(reports) < MaxReports
    /\ \E s, t \in Spid, gap \in Gaps :
          /\ blockedBy' = [blockedBy EXCEPT ![s] = t]
          /\ reports' = Append(reports,
                [at |-> IF reports = <<>> THEN 0 ELSE Last(reports).at + gap,
                 blocker |-> t, blocked |-> s])

WaitEnds ==
    /\ \E s \in Spid : blockedBy[s] # Nobody /\ blockedBy' = [blockedBy EXCEPT ![s] = Nobody]
    /\ UNCHANGED reports

GraphNext == Report \/ WaitEnds

GraphSpec == GraphInit /\ [][GraphNext]_graphVars
-----------------------------------------------------------------------------
(* buildBlockingChains *)

\* Reports follow each other within the window, with no larger gap between them.
SameGroup(pairs, i, j) ==
    \A k \in 2..Len(pairs) :
        Min({i, j}) < k /\ k <= Max({i, j}) => pairs[k].at - pairs[k - 1].at <= GroupWindow
Groups(pairs) == {{j \in DOMAIN pairs : SameGroup(pairs, i, j)} : i \in DOMAIN pairs}

Blockers(pairs, g) == {pairs[i].blocker : i \in g}
Blocked(pairs, g) == {pairs[i].blocked : i \in g}

\* Mutant: a head blocks others in this group and is blocked in no group at all.
Heads_ofAllGroups(pairs, g) ==
    LET free == Blockers(pairs, g) \ Blocked(pairs, DOMAIN pairs)
    IN IF free # {} THEN free ELSE {}

\* Who blocks and is not blocked; if there is no such session, everybody who blocks.
Heads(pairs, g) ==
    LET free == Blockers(pairs, g) \ Blocked(pairs, g)
    IN IF free # {} THEN free ELSE Blockers(pairs, g)

\* Everything that a breadth-first walk from the head reaches.
Reached(pairs, g, head) ==
    LET step(S) == S \cup {pairs[i].blocked : i \in {k \in g : pairs[k].blocker \in S}}
        walk[n \in 0..Cardinality(Spid)] == IF n = 0 THEN {head} ELSE step(walk[n - 1])
    IN walk[Cardinality(Spid)]

\* The median report of the group gives the time.
EventTime(pairs, g) == pairs[Min(g) + Cardinality(g) \div 2].at

\* One chain per head that blocks somebody else.
buildBlockingChains(pairs) ==
    UNION {{[at |-> EventTime(pairs, g), head |-> h, chain |-> Reached(pairs, g, h)] :
               h \in {x \in Heads(pairs, g) : Reached(pairs, g, x) # {x}}} : g \in Groups(pairs)}

\* collectBlockingEvents keeps one row per head: the first time and the last chain.
Merged(chains) ==
    {[at |-> Min({c.at : c \in {x \in chains : x.head = h}}),
      head |-> h,
      chain |-> (CHOOSE c \in {x \in chains : x.head = h} :
                    \A d \in chains : d.head = h => d.at <= c.at).chain] :
        h \in {c.head : c \in chains}}

-----------------------------------------------------------------------------
(* buildBlockingTrees *)

\* The sessions that the query selects: who is blocked, and who blocks.
Sessions(w) == {s \in Spid : w[s] # Nobody \/ \E t \in Spid : w[t] = s}

\* First pass: parents, without sessions that block themselves.
Parents(w) == [s \in {x \in Sessions(w) : w[x] # Nobody /\ w[x] # x /\ w[x] \in Sessions(w)} |-> w[s]]

\* The walk from one session up to one that has been visited, has no parent or is
\* on the path already; the part of the path from there on is a circle.
WalkUp(parent, visited, from) ==
    LET up[i \in 1..Cardinality(Spid) + 1] ==
            IF i = 1 THEN from
            ELSE IF up[i - 1] \in DOMAIN parent THEN parent[up[i - 1]] ELSE Nobody
        stop == Min({i \in DOMAIN up : \/ up[i] \in visited \cup {Nobody}
                                       \/ \E j \in 1..i - 1 : up[j] = up[i]})
        again == {j \in 1..stop - 1 : up[j] = up[stop]}
    IN [path |-> {up[j] : j \in 1..stop - 1},
        circle |-> IF again = {} THEN {} ELSE {up[j] : j \in Min(again)..stop - 1}]

\* Every session in the order of the map, skipping those a former walk has visited.
InCycle(parent, order) ==
    LET upTo[i \in 0..Len(order)] ==
            IF i = 0 THEN [visited |-> {}, found |-> {}]
            ELSE LET acc == upTo[i - 1]
                     walk == WalkUp(parent, acc.visited, order[i])
                 IN IF order[i] \in acc.visited THEN acc
                    ELSE [visited |-> acc.visited \cup walk.path, found |-> acc.found \cup walk.circle]
    IN upTo[Len(order)].found

\* Mutant: a session is on a circle only if the walk returns to its start.
CutParents_startOnly(w) ==
    LET parent == Parents(w)
        circle == {s \in Sessions(w) : s \in DOMAIN parent /\ parent[s] \in DOMAIN parent /\ parent[parent[s]] = s}
    IN [s \in DOMAIN parent \ circle |-> parent[s]]

\* The parents that are left: none for a session on a circle.
CutParents(w) ==
    LET parent == Parents(w)
        circle == InCycle(parent, SetToSeq(Sessions(w)))
    IN [s \in DOMAIN parent \ circle |-> parent[s]]

Roots(w) == Sessions(w) \ DOMAIN CutParents(w)

\* What is drawn below a root.
Tree(w, root) ==
    LET parent == CutParents(w)
        grow[n \in 0..Cardinality(Spid)] ==
            IF n = 0 THEN {root}
            ELSE grow[n - 1] \cup {s \in DOMAIN parent : parent[s] \in grow[n - 1]}
    IN grow[Cardinality(Spid)]
-----------------------------------------------------------------------------
\* The trees show every selected session exactly once: cutting the circles leaves
\* each session below one root and no session without one.
ForestExact ==
    \A s \in Sessions(blockedBy) :
        Cardinality({r \in Roots(blockedBy) : s \in Tree(blockedBy, r)}) = 1

\* Of the latest group, every session reported blocked is in a row, unless sessions
\* of the group wait for each other in a circle: merging rows of one head over time
\* (collectBlockingEvents) may replace older chains but not the latest.
LatestGroupShown ==
    reports # <<>> =>
        LET g == CHOOSE x \in Groups(reports) : Len(reports) \in x
            rows == Merged(buildBlockingChains(reports))
            noCircle == \E rank \in [Spid -> 1..Cardinality(Spid)] :
                           \A i \in g : rank[reports[i].blocker] < rank[reports[i].blocked]
        IN noCircle => \A s \in Blocked(reports, g) : \E r \in rows : s \in r.chain
=============================================================================
