------------------------------- MODULE Sessions -------------------------------
(***************************************************************************)
(* Refresh-token rotation of backend/internal/auth: concurrent handlers of *)
(* Login, Refresh and Logout over the table refresh_tokens.  A refresh     *)
(* reads the presented token, judges it by what it read, marks it used and *)
(* inserts its child in three statements of their own; a reuse, an expiry  *)
(* or a logout revokes the family in one more.                             *)
(*                                                                         *)
(* A token's jti is its position in tokens, and a family is named by the   *)
(* jti of its first token.  Time is counted in ticks.                      *)
(***************************************************************************)
EXTENDS Integers, Sequences, FiniteSetsExt

CONSTANTS
    Procs,                    \* the concurrent HTTP handlers
    RefreshTTL, IdleTimeout,  \* the session windows
    LastTick,                 \* bound: the clock of a behaviour
    MaxCalls, MaxFaults       \* bounds: API calls; failures, lost replies, crashes

ASSUME WindowsAssumption == RefreshTTL \in Nat \ {0} /\ IdleTimeout \in Nat
ASSUME SessionBounds == LastTick \in Nat /\ MaxCalls \in Nat /\ MaxFaults \in Nat

VARIABLES
    tokens,             \* the rows: [family, parent, used, revoked, issued, origin,
                        \*            checked: when its parent was judged]
    clock,
    place, token, why,  \* each handler: where it is, the jti it was given, and
                        \* what it revokes the family for
    checked,            \* its s.now() when it judged the token
    reply,              \* its reply, until the client takes it: [kind, jti]
    ended, raced,       \* history: the families revoked, and those two requests
                        \* were in flight for at once
    calls, faults       \* what the bounds count

serverVars == <<tokens, clock, place, token, why, checked, reply, ended, raced,
                calls, faults>>

Kinds == {"none", "session", "revoked", "reuse", "expired", "error", "done"}
NoReply == [kind |-> "none", jti |-> 0]

ServerInit ==
    /\ tokens = <<>>
    /\ clock = 0
    /\ place = [p \in Procs |-> "idle"]
    /\ token = [p \in Procs |-> 0]
    /\ why = [p \in Procs |-> "none"]
    /\ checked = [p \in Procs |-> 0]
    /\ reply = [p \in Procs |-> NoReply]
    /\ ended = {}
    /\ raced = {}
    /\ calls = 0
    /\ faults = 0

-------------------------------------------------------------------------------
Goto(p, where) == place' = [place EXCEPT ![p] = where]

Answer(p, kind, jti) ==
    /\ Goto(p, "idle")
    /\ reply' = [reply EXCEPT ![p] = [kind |-> kind, jti |-> jti]]
    /\ why' = [why EXCEPT ![p] = "none"]
    /\ checked' = [checked EXCEPT ![p] = 0]

Fault == faults < MaxFaults /\ faults' = faults + 1

Free(p) == place[p] = "idle" /\ reply[p] = NoReply

(* The families some other request is in flight for. *)
Busy(p) == {tokens[token[q]].family : q \in {x \in Procs \ {p} : ~Free(x) /\ token[x] # 0}}

Serve(p, t, where, reason) ==
    /\ Free(p) /\ calls < MaxCalls
    /\ calls' = calls + 1
    /\ token' = [token EXCEPT ![p] = t]
    /\ why' = [why EXCEPT ![p] = reason]
    /\ raced' = raced \cup ({tokens[t].family} \cap Busy(p))
    /\ Goto(p, where)
    /\ UNCHANGED <<tokens, clock, checked, reply, ended, faults>>

(* mintSession: the first token of a family of its own. *)
SignIn(p) ==
    /\ Free(p) /\ calls < MaxCalls
    /\ calls' = calls + 1
    /\ tokens' = Append(tokens, [family |-> Len(tokens) + 1, parent |-> 0,
           used |-> FALSE, revoked |-> FALSE, issued |-> clock, origin |-> clock,
           checked |-> clock])
    /\ token' = [token EXCEPT ![p] = Len(tokens) + 1]
    /\ Answer(p, "session", Len(tokens) + 1)
    /\ UNCHANGED <<clock, ended, raced, faults>>

(* jwt.Parse refuses a refresh token past its own expiry. *)
Outlived(t) == clock >= tokens[t].issued + RefreshTTL

(* Refresh's own windows: the family's, and the idle one. *)
WindowsPassed(t) ==
    \/ clock > tokens[t].origin + RefreshTTL
    \/ clock > tokens[t].issued + IdleTimeout

Refresh(p, t) == Serve(p, t, "read", "none")

(* Parse fails, or GetRefresh finds the row revoked. *)
TokenDead(p) ==
    /\ place[p] = "read"
    /\ Outlived(token[p]) \/ tokens[token[p]].revoked
    /\ Answer(p, IF Outlived(token[p]) THEN "expired" ELSE "revoked", 0)
    /\ UNCHANGED <<tokens, clock, token, ended, raced, calls, faults>>

Alive(p) == place[p] = "read" /\ ~Outlived(token[p]) /\ ~tokens[token[p]].revoked

TokenReused(p) ==
    /\ Alive(p) /\ tokens[token[p]].used
    /\ why' = [why EXCEPT ![p] = "reuse"]
    /\ Goto(p, "revoke")
    /\ UNCHANGED <<tokens, clock, token, checked, reply, ended, raced, calls, faults>>

SessionExpired(p) ==
    /\ Alive(p) /\ ~tokens[token[p]].used /\ WindowsPassed(token[p])
    /\ why' = [why EXCEPT ![p] = "expired"]
    /\ Goto(p, "revoke")
    /\ UNCHANGED <<tokens, clock, token, checked, reply, ended, raced, calls, faults>>

TokenGood(p) ==
    /\ Alive(p) /\ ~tokens[token[p]].used /\ ~WindowsPassed(token[p])
    /\ checked' = [checked EXCEPT ![p] = clock]
    /\ Goto(p, "mark")
    /\ UNCHANGED <<tokens, clock, token, why, reply, ended, raced, calls, faults>>

(* Mutation of MarkRefreshUsed: the UPDATE matches no row.                 *)
MutMarkRefreshUsed(p) ==
    /\ place[p] = "mark"
    /\ Goto(p, "insert")
    /\ UNCHANGED <<tokens, clock, token, why, checked, reply, ended, raced, calls,
                   faults>>

(* UPDATE ... AND used_at IS NULL: whether a row was hit is not looked at. *)
MarkRefreshUsed(p) ==
    /\ place[p] = "mark"
    /\ tokens' = [tokens EXCEPT ![token[p]].used = TRUE]
    /\ Goto(p, "insert")
    /\ UNCHANGED <<clock, token, why, checked, reply, ended, raced, calls, faults>>

(* Mutation of Child: the child starts the family's window anew.           *)
MutChild(p) ==
    [family |-> tokens[token[p]].family, parent |-> token[p], used |-> FALSE,
     revoked |-> FALSE, issued |-> clock, origin |-> clock, checked |-> checked[p]]

Child(p) ==
    [family |-> tokens[token[p]].family, parent |-> token[p], used |-> FALSE,
     revoked |-> FALSE, issued |-> clock, origin |-> tokens[token[p]].origin,
     checked |-> checked[p]]

(* Mutation of Rotate: the cookie is set though the INSERT failed.         *)
MutRotate(p) ==
    /\ place[p] = "insert"
    /\ Answer(p, "session", Len(tokens) + 1)
    /\ UNCHANGED <<tokens, clock, token, ended, raced, calls, faults>>

(* rotate: the child is inserted whatever became of the family meanwhile. *)
Rotate(p) ==
    /\ place[p] = "insert"
    /\ tokens' = Append(tokens, Child(p))
    /\ Answer(p, "session", Len(tokens) + 1)
    /\ UNCHANGED <<clock, token, ended, raced, calls, faults>>

(* Logout parses the token and reads its family before it revokes it. *)
Logout(p, t) == ~Outlived(t) /\ Serve(p, t, "revoke", "done")

LogoutOutlived(p, t) ==
    /\ Outlived(t)
    /\ Free(p) /\ calls < MaxCalls
    /\ calls' = calls + 1
    /\ token' = [token EXCEPT ![p] = t]
    /\ Answer(p, "done", 0)
    /\ UNCHANGED <<tokens, clock, ended, raced, faults>>

(* Handler.Logout without a cookie. *)
LogoutNoCookie(p) ==
    /\ Free(p) /\ calls < MaxCalls
    /\ calls' = calls + 1
    /\ token' = [token EXCEPT ![p] = 0]
    /\ Answer(p, "done", 0)
    /\ UNCHANGED <<tokens, clock, ended, raced, faults>>

(* Mutation of Revoked: only the presented token is revoked.               *)
MutRevoked(p, t) == t = token[p]

(* UPDATE ... WHERE family_id = $1 AND revoked_at IS NULL *)
Revoked(p, t) == tokens[t].family = tokens[token[p]].family

RevokeFamily(p) ==
    /\ place[p] = "revoke"
    /\ tokens' = [t \in DOMAIN tokens |->
                     IF Revoked(p, t) THEN [tokens[t] EXCEPT !.revoked = TRUE]
                     ELSE tokens[t]]
    /\ ended' = ended \cup {tokens[token[p]].family}
    /\ Answer(p, why[p], 0)
    /\ UNCHANGED <<clock, token, raced, calls, faults>>

(* The error of RevokeFamily is dropped: the caller is told the same. *)
RevokeFails(p) ==
    /\ place[p] = "revoke"
    /\ Fault
    /\ Answer(p, why[p], 0)
    /\ UNCHANGED <<tokens, clock, token, ended, raced, calls>>

StatementFails(p) ==
    /\ place[p] \in {"read", "mark", "insert"}
    /\ Fault
    /\ Answer(p, "error", 0)
    /\ UNCHANGED <<tokens, clock, token, ended, raced, calls>>

Tick ==
    /\ clock < LastTick
    /\ clock' = clock + 1
    /\ UNCHANGED <<tokens, place, token, why, checked, reply, ended, raced, calls,
                   faults>>

Work(p) ==
    \/ TokenDead(p) \/ TokenReused(p) \/ SessionExpired(p) \/ TokenGood(p)
    \/ MarkRefreshUsed(p) \/ Rotate(p)
    \/ RevokeFamily(p) \/ RevokeFails(p) \/ StatementFails(p)

-------------------------------------------------------------------------------
(* Properties.                                                             *)

ServerTypeOK ==
    /\ tokens \in Seq([family : 1 .. Len(tokens), parent : 0 .. Len(tokens),
                       used : BOOLEAN, revoked : BOOLEAN, issued : 0 .. clock,
                       origin : 0 .. clock, checked : 0 .. clock])
    /\ place \in [Procs -> {"idle", "read", "mark", "insert", "revoke"}]
    /\ token \in [Procs -> 0 .. Len(tokens)]
    /\ \A p \in Procs : place[p] # "idle" => token[p] # 0
    /\ why \in [Procs -> {"none", "reuse", "expired", "done"}]
    /\ reply \in [Procs -> [kind : Kinds, jti : 0 .. Len(tokens)]]
    /\ \A p \in Procs : reply[p].kind = "session" <=> reply[p].jti # 0

(* The tokens a refresh of t was answered with. *)
Children(t) == {c \in DOMAIN tokens : tokens[c].parent = t}

(* "making a second use detectable as reuse": once a refresh has handed    *)
(* out the child of a token, whoever presents that token again finds it    *)
(* used; and unless two requests of the family were in flight at once, a   *)
(* token never has a second child.                                         *)
SecondUseIsDetected ==
    \A t \in DOMAIN tokens :
       /\ Children(t) # {} => tokens[t].used
       /\ tokens[t].family \notin raced => Cardinality(Children(t)) <= 1

(* However often a session is rotated, no rotation was granted later than  *)
(* RefreshTTL after the sign-in its family began with.                     *)
AbsoluteWindow ==
    \A t \in DOMAIN tokens :
       tokens[t].checked <= tokens[tokens[t].family].issued + RefreshTTL

Live(t) == ~tokens[t].revoked /\ ~tokens[t].used

(* "revoking the whole family": after a reuse, an expiry or a logout, no   *)
(* token of the family can be refreshed, unless another request of the     *)
(* family was in flight at the time.                                       *)
RevokedForGood ==
    \A t \in DOMAIN tokens : tokens[t].family \in ended \ raced => tokens[t].revoked

(* "Logout revokes the family of the presented refresh token": the same    *)
(* with no exception.                                                      *)
EndedIsOver == \A t \in DOMAIN tokens : tokens[t].family \in ended => ~Live(t)
===============================================================================
