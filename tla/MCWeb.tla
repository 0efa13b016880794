--------------------------------- MODULE MCWeb ---------------------------------
(***************************************************************************)
(* The API routes and the web client: the answers of the routes that read  *)
(* the history, the connection pools of those that query a SQL Server, the *)
(* sessions and the views.  They share no state: a behaviour exercises one *)
(* part while the others stay in one initial state.                        *)
(***************************************************************************)
EXTENDS Readings, SharedPool, SignIn, Views, TLC

VARIABLE part  \* the part of this behaviour

CONSTANTS t1, t2, r1, r2, a1, a2

const_Tab == {t1, t2}
const_Browser == {"browser"}
const_BrowserOf == [t \in const_Tab |-> "browser"]
const_Call == {r1, r2}
const_TabOf == [r \in const_Call |-> IF r = r1 THEN t1 ELSE t2]

\* Each tab has one request: the tabs may be exchanged with their requests.
Swapped == [x \in {t1, t2, r1, r2} |-> CASE x = t1 -> t2 [] x = t2 -> t1 [] x = r1 -> r2 [] x = r2 -> r1]
Same == [x \in DOMAIN Swapped |-> x]

const_Arg == {a1, a2}
Symmetry == {f @@ g : f \in {Same, Swapped}, g \in Permutations(const_Arg)}

\* Of the views that no mutation changes, those differ that poll or throw HTTP errors.
Different == {v \in Views : v.reads # {} \/ v.form # "query"}
             \cup {DetailHealth, DeadlocksTable, TopProcedures, TopQueries}

Init ==
    /\ part \in {"readings", "pools", "sessions", "views"}
    /\ ReadingsInit /\ SharedPoolInit /\ SignInInit /\ ViewsInit
    /\ part # "readings" => handler = OverviewCpu
    /\ view \in IF part = "views" THEN Different ELSE {Overview}

Next ==
    \/ part = "readings" /\ ReadingsNext /\ UNCHANGED <<part, poolVars, signInVars, viewsVars>>
    \/ part = "pools" /\ SharedPoolNext /\ UNCHANGED <<part, readingsVars, signInVars, viewsVars>>
    \/ part = "sessions" /\ SignInNext /\ UNCHANGED <<part, readingsVars, poolVars, viewsVars>>
    \/ part = "views" /\ ViewsNext /\ UNCHANGED <<part, readingsVars, poolVars, signInVars>>

Spec == Init /\ [][Next]_<<part, readingsVars, poolVars, signInVars, viewsVars>>
=============================================================================
