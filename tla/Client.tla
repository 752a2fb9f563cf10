-------------------------------- MODULE Client --------------------------------
(***************************************************************************)
(* The web client's session (frontend/src/api/http.ts) over module         *)
(* Sessions: an access token in memory, the refresh token in the browser's *)
(* cookie jar, and concurrent flows, each an awaited call of authed() that *)
(* answers a 401 with one refresh and one retry.  wallet.store.fetchAll    *)
(* runs two flows at once.                                                 *)
(*                                                                         *)
(* A flow has one HTTP request outstanding at a time: a flow and the       *)
(* handler that serves it share a name.  An access token is named by the   *)
(* refresh token it was issued with.                                       *)
(***************************************************************************)
EXTENDS Sessions

VARIABLES
    cookie,       \* the refresh cookie, 0 when there is none
    access,       \* accessToken of the module http.ts, 0 for null
    signedIn,     \* auth.store: whether the app's pages can be reached
    current,      \* the access tokens that have not expired
    flow,         \* where each flow is
    carried,      \* the access token of its last request
    loggedOut     \* history: the user asked to log out

clientVars == <<cookie, access, signedIn, current, flow, carried, loggedOut>>
vars == <<tokens, clock, place, token, why, checked, reply, ended, raced, calls,
          faults, cookie, access, signedIn, current, flow, carried, loggedOut>>

Init ==
    /\ ServerInit
    /\ cookie = 0
    /\ access = 0
    /\ signedIn = FALSE
    /\ current = {}
    /\ flow = [f \in Procs |-> "idle"]
    /\ carried = [f \in Procs |-> 0]
    /\ loggedOut = FALSE

Step(f, where) == flow' = [flow EXCEPT ![f] = where]

(* A flow is over: what it carried and what was presented for it is gone.  *)
Finish(f) ==
    /\ Step(f, "idle")
    /\ carried' = [carried EXCEPT ![f] = 0]
    /\ token' = [token EXCEPT ![f] = 0]
    /\ UNCHANGED <<tokens, clock, place, why, checked, reply, ended, raced, calls>>

(* auth.store.login. *)
LogIn(f) ==
    /\ flow[f] = "idle" /\ ~signedIn
    /\ SignIn(f)
    /\ Step(f, "signing")
    /\ UNCHANGED <<cookie, access, signedIn, current, carried, loggedOut>>

(* auth.store.logout: the cookie goes with the request, if there is one. *)
LogOut(f) ==
    /\ flow[f] = "idle" /\ signedIn
    /\ \/ cookie # 0 /\ (Logout(f, cookie) \/ LogoutOutlived(f, cookie))
       \/ cookie = 0 /\ LogoutNoCookie(f)
    /\ Step(f, "leaving")
    /\ loggedOut' = TRUE
    /\ UNCHANGED <<cookie, access, signedIn, current, carried>>

(* authed(): the first request. *)
Send(f) ==
    /\ flow[f] = "idle" /\ signedIn
    /\ carried' = [carried EXCEPT ![f] = access]
    /\ Step(f, "sent")
    /\ UNCHANGED <<serverVars, cookie, access, signedIn, current, loggedOut>>

(* Middleware Authenticator lets a request through or answers 401. *)
Granted(f) ==
    /\ flow[f] \in {"sent", "resent"} /\ carried[f] \in current
    /\ Finish(f)
    /\ UNCHANGED <<faults, cookie, access, signedIn, current, loggedOut>>

Unauthorized(f) ==
    /\ flow[f] = "sent" /\ carried[f] \notin current
    /\ Step(f, "unauthorized")
    /\ UNCHANGED <<serverVars, cookie, access, signedIn, current, carried, loggedOut>>

RetryDenied(f) ==
    /\ flow[f] = "resent" /\ carried[f] \notin current
    /\ Step(f, "failed")
    /\ UNCHANGED <<serverVars, cookie, access, signedIn, current, carried, loggedOut>>

(* refresh(): the browser adds the cookie it has now. *)
StartRefresh(f) ==
    /\ flow[f] = "unauthorized" /\ cookie # 0
    /\ Refresh(f, cookie)
    /\ Step(f, "refreshing")
    /\ UNCHANGED <<cookie, access, signedIn, current, carried, loggedOut>>

(* Handler.Refresh without a cookie: 401, and refresh() drops the token. *)
NoCookie(f) ==
    /\ flow[f] = "unauthorized" /\ cookie = 0
    /\ access' = 0
    /\ Step(f, "failed")
    /\ UNCHANGED <<serverVars, cookie, signedIn, current, carried, loggedOut>>

(* The limiter or CSRF turns the refresh away before its handler runs: the *)
(* token is dropped, the cookie and the session stay.                      *)
RefreshThrottled(f) ==
    /\ flow[f] = "unauthorized"
    /\ Fault
    /\ access' = 0
    /\ Step(f, "failed")
    /\ UNCHANGED <<tokens, clock, place, token, why, checked, reply, ended, raced,
                   calls, cookie, signedIn, current, carried, loggedOut>>

(* The same happens to a logout, which does not look at its answer: the    *)
(* page believes it is logged out, the session and its cookie live on.     *)
LogoutThrottled(f) ==
    /\ flow[f] = "idle" /\ signedIn
    /\ Fault
    /\ access' = 0
    /\ signedIn' = FALSE
    /\ loggedOut' = TRUE
    /\ UNCHANGED <<tokens, clock, place, token, why, checked, reply, ended, raced,
                   calls, cookie, current, flow, carried>>

(* The reply's Set-Cookie: the new token, or Clear for every error. *)
ReplyArrives(f) ==
    /\ flow[f] \in {"signing", "refreshing", "leaving"}
    /\ reply[f] # NoReply
    /\ cookie' = reply[f].jti
    /\ Step(f, CASE flow[f] = "signing" -> "signed"
                 [] flow[f] = "leaving" -> "left"
                 [] flow[f] = "refreshing" /\ reply[f].jti # 0 -> "refreshed"
                 [] OTHER -> "refused")
    /\ carried' = [carried EXCEPT ![f] = reply[f].jti]
    /\ reply' = [reply EXCEPT ![f] = NoReply]
    /\ current' = current \cup ({reply[f].jti} \ {0})
    /\ UNCHANGED <<tokens, clock, place, token, why, checked, ended, raced, calls,
                   faults, access, signedIn, loggedOut>>

(* Mutation of KeepToken: the new access token is not kept.                *)
MutKeepToken(f) == access' = access

KeepToken(f) == access' = carried[f]

(* What the awaiting code does with the reply, in a later turn. *)
SignedIn(f) ==
    /\ flow[f] = "signed"
    /\ KeepToken(f)
    /\ signedIn' = TRUE
    /\ Finish(f)
    /\ UNCHANGED <<faults, cookie, current, loggedOut>>

(* refresh() keeps the token and authed() retries with it, in one turn. *)
Refreshed(f) ==
    /\ flow[f] = "refreshed"
    /\ KeepToken(f)
    /\ carried' = [carried EXCEPT ![f] = access']
    /\ Step(f, "resent")
    /\ UNCHANGED <<serverVars, cookie, signedIn, current, loggedOut>>

RefreshRefused(f) ==
    /\ flow[f] = "refused"
    /\ access' = 0
    /\ Step(f, "failed")
    /\ UNCHANGED <<serverVars, cookie, signedIn, current, carried, loggedOut>>

LoggedOut(f) ==
    /\ flow[f] = "left"
    /\ access' = 0
    /\ signedIn' = FALSE
    /\ Finish(f)
    /\ UNCHANGED <<faults, cookie, current, loggedOut>>

(* fetch rejects: the reply is lost, the cookie and the token stay; logout *)
(* drops the token in its finally, and the store keeps the user.           *)
ReplyLost(f) ==
    /\ flow[f] \in {"signing", "refreshing", "leaving"}
    /\ reply[f] # NoReply
    /\ Fault
    /\ reply' = [reply EXCEPT ![f] = NoReply]
    /\ access' = IF flow[f] = "leaving" THEN 0 ELSE access
    /\ Step(f, "failed")
    /\ UNCHANGED <<tokens, clock, place, token, why, checked, ended, raced, calls,
                   cookie, signedIn, current, carried, loggedOut>>

(* The page shows the error; the user may try again. *)
Acknowledge(f) ==
    /\ flow[f] = "failed"
    /\ Finish(f)
    /\ UNCHANGED <<faults, cookie, access, signedIn, current, loggedOut>>

(* An access token outlives the flow that fetched it: to expire between a  *)
(* refresh and its retry takes a stall, a failure that MaxFaults counts.   *)
BetweenRefreshAndRetry(f) == flow[f] \notin {"idle", "sent", "unauthorized", "failed"}

AccessExpires ==
    /\ access \in current
    /\ current' = current \ {access}
    /\ IF \E f \in Procs : BetweenRefreshAndRetry(f) THEN Fault ELSE UNCHANGED faults
    /\ UNCHANGED <<tokens, clock, place, token, why, checked, reply, ended, raced,
                   calls, cookie, access, signedIn, flow, carried, loggedOut>>

Flow(f) ==
    \/ LogIn(f) \/ LogOut(f) \/ Send(f) \/ Granted(f) \/ Unauthorized(f)
    \/ RetryDenied(f) \/ StartRefresh(f) \/ NoCookie(f)
    \/ RefreshThrottled(f) \/ LogoutThrottled(f) \/ ReplyArrives(f)
    \/ SignedIn(f) \/ Refreshed(f) \/ RefreshRefused(f)
    \/ LoggedOut(f) \/ ReplyLost(f) \/ Acknowledge(f)

Next ==
    \/ \E f \in Procs : Flow(f) \/ (Work(f) /\ UNCHANGED clientVars)
    \/ (Tick /\ UNCHANGED clientVars)
    \/ AccessExpires

Spec == Init /\ [][Next]_vars

-------------------------------------------------------------------------------
(* Properties.                                                             *)

TypeOK ==
    /\ ServerTypeOK
    /\ cookie \in 0 .. Len(tokens) /\ access \in 0 .. Len(tokens)
    /\ current \subseteq DOMAIN tokens
    /\ signedIn \in BOOLEAN /\ loggedOut \in BOOLEAN
    /\ carried \in [Procs -> 0 .. Len(tokens)]
    /\ \A f \in Procs : ~Free(f) => flow[f] \in {"signing", "refreshing", "leaving"}

(* The reasons a request of the app may fail for: the user logged out, the *)
(* session's windows passed, or something broke.                           *)
Lapsed(f) ==
    \/ token[f] # 0 /\ (Outlived(token[f]) \/ WindowsPassed(token[f]))
    \/ cookie = 0 /\ (clock > IdleTimeout \/ clock >= RefreshTTL)

Excused(f) == loggedOut \/ faults > 0 \/ Lapsed(f)

Fails(f) == flow[f] # "failed" /\ flow'[f] = "failed"

(* A request that finds its access token expired is answered after one     *)
(* refresh, unless there is an excuse or two refreshes were in flight.     *)
FailureIsDue ==
    [][\A f \in Procs : Fails(f) => Excused(f)' \/ raced' # {}]_vars

(* "Ante un 401 se intenta un unico refresh (rota la sesion) y se          *)
(* reintenta": without an excuse a refresh never ends the user's session.  *)
RefreshKeepsSession == [][\A f \in Procs : Fails(f) => Excused(f)']_vars
===============================================================================
