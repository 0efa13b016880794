--------------------------------- MODULE SignIn ---------------------------------
(***************************************************************************)
(* Accounts and sessions: the server's tokens, login, refresh and user     *)
(* routes (lib/auth.ts, middleware/auth.ts, routes/auth.ts, users.ts) and  *)
(* the browser's side of them (web/src/lib/auth.ts).                       *)
(*                                                                         *)
(* A token names a user and the hour it ends.  The two tokens of a pair    *)
(* differ in that alone: the server keeps no list of tokens and asks a     *)
(* request and a refresh only for the signature and the age of whichever   *)
(* token they bear, and only a refresh looks at the users table.  The tabs *)
(* of a browser share its two tokens in localStorage, a tab may have       *)
(* several requests on their way, and another client of the API bears the  *)
(* refresh token of any pair.  Passwords are abstracted to whether a check *)
(* succeeds; all accounts have the role admin, the only one the code       *)
(* gives.  Time counts ticks, and requests, logins and navigations take    *)
(* less than one.                                                          *)
(***************************************************************************)
EXTENDS Integers, FiniteSets

CONSTANTS Tab, Browser,
          BrowserOf,   \* the browser of a tab
          Call,        \* bound: the requests a tab has at once
          TabOf,       \* the tab of a request
          MaxUser,     \* bound: accounts ever made
          AccessLife,  \* of an access token, in ticks
          RefreshLife, \* of a refresh token
          MaxHour      \* bound: the clock stops here

ASSUME SignInBounds ==
    /\ BrowserOf \in [Tab -> Browser] /\ TabOf \in [Call -> Tab]
    /\ MaxUser \in Nat \ {0, 1} /\ MaxHour \in Nat
    /\ AccessLife \in Nat \ {0} /\ RefreshLife \in Nat /\ AccessLife < RefreshLife

User == 1..MaxUser
NoToken == [user |-> 0, until |-> 0]
Never == -1
StoreOf(r) == BrowserOf[TabOf[r]]

VARIABLES hour,
          users,     \* of an id: "unused", "present" or "deleted"
          access, refresh, \* of a browser: its tokens in localStorage
          asking,    \* of a request: "none", "sent", "refreshing", "renewed", "refused",
                     \* "refreshed", "again", "login"
          holds,     \* the token it bears, or of the user it is for
          leaving,   \* tabs that are about to load the login page
          other,     \* the refresh token of the client that is no browser
          \* what the properties speak of:
          deletedAt, \* when a user was deleted, or Never
          signedOut, \* of a browser: a logout was the last that ended or began its session
          racing     \* requests that were waiting for a refresh at a logout

serverVars == <<users, deletedAt>>
signInVars == <<hour, serverVars, access, refresh, asking, holds, leaving, other, signedOut, racing>>

SignInInit ==
    /\ hour = 0
    /\ users = [u \in User |-> IF u <= 2 THEN "present" ELSE "unused"]
    /\ access = [b \in Browser |-> NoToken] /\ refresh = [b \in Browser |-> NoToken]
    /\ asking = [r \in Call |-> "none"] /\ holds = [r \in Call |-> NoToken]
    /\ leaving = {} /\ other = NoToken
    /\ deletedAt = [u \in User |-> Never]
    /\ signedOut = [b \in Browser |-> FALSE] /\ racing = {}

-----------------------------------------------------------------------------
(* The server. *)

\* verifyToken: signed here and not expired.
Valid(token) == token # NoToken /\ hour < token.until

\* createTokenPair: the two tokens of a user, signed now.
AccessToken(u) == [user |-> u, until |-> hour + AccessLife]
RefreshToken(u) == [user |-> u, until |-> hour + RefreshLife]

\* Mutant: the refresh route trusts the token.
StillThere_always(u) == TRUE

\* The refresh route reads the user again.
StillThere(u) == users[u] = "present"

\* POST /api/users, which may fail: the name is taken.
AddUser == \E u \in User : /\ users[u] = "unused" /\ \A v \in User : v < u => users[v] # "unused"
                           /\ users' = [users EXCEPT ![u] = "present"]
                           /\ UNCHANGED deletedAt

\* DELETE /api/users/:id: not oneself, and 404 for a user who is not there.
DeleteUser(by, u) ==
    /\ u # by /\ users[u] = "present"
    /\ users' = [users EXCEPT ![u] = "deleted"]
    /\ deletedAt' = [deletedAt EXCEPT ![u] = hour]

\* registerAuthHook lets the request pass; its handler reads, creates or deletes a
\* user, or refuses to.
Serve(by) == UNCHANGED serverVars \/ AddUser \/ \E u \in User : DeleteUser(by, u)

\* ensureDefaultAdmin, when the server starts.
ServerStart ==
    /\ \A u \in User : users[u] # "present"
    /\ AddUser
    /\ UNCHANGED <<hour, access, refresh, asking, holds, leaving, other, signedOut, racing>>

\* Another client of the API logs in, refreshes, or asks and bears the refresh token:
\* the server takes either token of a pair for either purpose.
OtherSigned(u) ==
    /\ StillThere(u) /\ other' = RefreshToken(u)
    /\ UNCHANGED <<hour, serverVars, access, refresh, asking, holds, leaving, signedOut, racing>>

OtherServed ==
    /\ Valid(other) /\ Serve(other.user)
    /\ UNCHANGED <<hour, access, refresh, asking, holds, leaving, other, signedOut, racing>>

-----------------------------------------------------------------------------
(* The browser. *)

Becomes(r, s) == asking' = [asking EXCEPT ![r] = s]
Bears(r, token) == holds' = [holds EXCEPT ![r] = token]
Ends(r) == Becomes(r, "none") /\ Bears(r, NoToken)
SetTokens(r, u) == /\ access' = [access EXCEPT ![StoreOf(r)] = AccessToken(u)]
                   /\ refresh' = [refresh EXCEPT ![StoreOf(r)] = RefreshToken(u)]

\* Mutant: the refresh token stays.
ClearTokens_accessOnly(b) ==
    access' = [access EXCEPT ![b] = NoToken] /\ UNCHANGED refresh

ClearTokens(b) == /\ access' = [access EXCEPT ![b] = NoToken]
                  /\ refresh' = [refresh EXCEPT ![b] = NoToken]

\* A view asks; a view that is mounted asks also when the tokens are gone.
Send(r) ==
    /\ asking[r] = "none" /\ Becomes(r, "sent") /\ Bears(r, access[StoreOf(r)])
    /\ UNCHANGED <<hour, serverVars, access, refresh, leaving, other, signedOut, racing>>

\* authFetch: the answer; a 401 starts a refresh when there is a token for it.
Answer(r) ==
    /\ asking[r] = "sent"
    /\ IF Valid(holds[r]) THEN Serve(holds[r].user) /\ Ends(r)
       ELSE /\ UNCHANGED serverVars
            /\ IF refresh[StoreOf(r)] = NoToken THEN Ends(r)
               ELSE Becomes(r, "refreshing") /\ Bears(r, refresh[StoreOf(r)])
    /\ UNCHANGED <<hour, access, refresh, leaving, other, signedOut, racing>>

\* POST /api/auth/refresh.
Renews(r) ==
    /\ asking[r] = "refreshing"
    /\ IF Valid(holds[r]) /\ StillThere(holds[r].user)
       THEN Becomes(r, "renewed") ELSE Becomes(r, "refused")
    /\ UNCHANGED <<hour, serverVars, access, refresh, holds, leaving, other, signedOut, racing>>

\* tryRefresh: the new pair replaces whatever localStorage holds now.
Refreshed(r) ==
    /\ asking[r] = "renewed" /\ SetTokens(r, holds[r].user) /\ Becomes(r, "refreshed")
    /\ signedOut' = [signedOut EXCEPT ![StoreOf(r)] = @ /\ r \notin racing]
    /\ racing' = racing \ {r}
    /\ UNCHANGED <<hour, serverVars, holds, leaving, other>>

\* The refresh is refused, or its request fails before or after the server has it.
RefreshFails(r) ==
    /\ asking[r] \in {"refreshing", "renewed", "refused"}
    /\ ClearTokens(StoreOf(r)) /\ Ends(r) /\ racing' = racing \ {r}
    /\ UNCHANGED <<hour, serverVars, leaving, other, signedOut>>

\* The request is made again with the token that is there now.
AskAgain(r) ==
    /\ asking[r] = "refreshed" /\ Becomes(r, "again") /\ Bears(r, access[StoreOf(r)])
    /\ UNCHANGED <<hour, serverVars, access, refresh, leaving, other, signedOut, racing>>

AnsweredAgain(r) ==
    /\ asking[r] = "again" /\ Ends(r)
    /\ IF Valid(holds[r]) THEN Serve(holds[r].user) ELSE UNCHANGED serverVars
    /\ UNCHANGED <<hour, access, refresh, leaving, other, signedOut, racing>>

RequestFails(r) == /\ asking[r] \in {"sent", "again", "login"} /\ Ends(r)
                   /\ UNCHANGED <<hour, serverVars, access, refresh, leaving, other, signedOut, racing>>

\* POST /api/auth/login reads the user, checks the password and signs a pair.
Login(r, u) ==
    /\ asking[r] = "none" /\ TabOf[r] \notin leaving
    /\ users[u] = "present" /\ Becomes(r, "login") /\ Bears(r, AccessToken(u))
    /\ UNCHANGED <<hour, serverVars, access, refresh, leaving, other, signedOut, racing>>

LoggedIn(r) ==
    /\ asking[r] = "login" /\ SetTokens(r, holds[r].user) /\ Ends(r)
    /\ signedOut' = [signedOut EXCEPT ![StoreOf(r)] = FALSE]
    /\ UNCHANGED <<hour, serverVars, leaving, other, racing>>

\* logout: the tokens go, and the login page is on its way.
Logout(t) ==
    /\ t \notin leaving /\ leaving' = leaving \cup {t}
    /\ ClearTokens(BrowserOf[t])
    /\ signedOut' = [signedOut EXCEPT ![BrowserOf[t]] = TRUE]
    /\ racing' = racing \cup {r \in Call : /\ StoreOf(r) = BrowserOf[t]
                                              /\ asking[r] \in {"refreshing", "renewed"}}
    /\ UNCHANGED <<hour, serverVars, asking, holds, other>>

\* The login page replaces the tab's document, which ends its requests.
Unload(t) ==
    /\ t \in leaving /\ leaving' = leaving \ {t}
    /\ asking' = [r \in Call |-> IF TabOf[r] = t THEN "none" ELSE asking[r]]
    /\ holds' = [r \in Call |-> IF TabOf[r] = t THEN NoToken ELSE holds[r]]
    /\ racing' = {r \in racing : TabOf[r] # t}
    /\ UNCHANGED <<hour, serverVars, access, refresh, other, signedOut>>

HourPasses ==
    /\ hour < MaxHour /\ hour' = hour + 1
    /\ leaving = {} /\ \A r \in Call : asking[r] = "none"
    /\ UNCHANGED <<serverVars, access, refresh, asking, holds, leaving, other, signedOut, racing>>

SignInNext ==
    \/ \E r \in Call :
          \/ Send(r) \/ Answer(r) \/ Renews(r) \/ Refreshed(r) \/ RefreshFails(r)
          \/ AskAgain(r) \/ AnsweredAgain(r) \/ RequestFails(r)
          \/ \E u \in User : Login(r, u)
          \/ LoggedIn(r)
    \/ \E t \in Tab : Logout(t) \/ Unload(t)
    \/ \E u \in User : OtherSigned(u)
    \/ OtherServed \/ ServerStart \/ HourPasses

SignInSpec == SignInInit /\ [][SignInNext]_signInVars

-----------------------------------------------------------------------------
\* The request of the web client would be served now.
LetThrough(r) == asking[r] \in {"sent", "again"} /\ Valid(holds[r])

(* A deleted user is served through the web client no longer than an       *)
(* access token lives, whoever of his tabs refreshes or logs in meanwhile, *)
(* and no client at all is served for him longer than a refresh token      *)
(* lives, which passes for an access token (middleware/auth.ts).  And as   *)
(* nobody deletes himself, the last account goes only in that time after   *)
(* the deletion of another.                                                *)
DeletionHolds ==
    /\ \A r \in Call : LetThrough(r) /\ deletedAt[holds[r].user] # Never
                          => hour < deletedAt[holds[r].user] + AccessLife
    /\ Valid(other) /\ deletedAt[other.user] # Never => hour < deletedAt[other.user] + RefreshLife
    /\ (\A u \in User : users[u] # "present") =>
          \E u, by \in User : /\ u # by /\ {users[u], users[by]} = {"deleted"}
                              /\ deletedAt[u] - deletedAt[by] \in 0..(RefreshLife - 1)

(* After a logout the browser has no token until somebody logs in, unless  *)
(* a refresh was on its way when the tokens were removed, in any tab, the  *)
(* one that logs out included: its answer puts a pair back                 *)
(* (web/src/lib/auth.ts).                                                  *)
LogoutEnds ==
    \A b \in Browser : signedOut[b] => access[b] = NoToken /\ refresh[b] = NoToken
=============================================================================
