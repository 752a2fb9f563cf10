---------------------------- MODULE Client_proofs ----------------------------
(***************************************************************************)
(* Theorems about refresh rotation and the client's session, for every set *)
(* of concurrent flows, all windows and every bound.                       *)
(***************************************************************************)
EXTENDS Client, FiniteSetTheorems, TLAPS

Rows == [family : Nat, parent : Nat, used : BOOLEAN, revoked : BOOLEAN,
         issued : Nat, origin : Nat, checked : Nat]

Waiting == {"signing", "refreshing", "leaving"}
FlowPlaces == Waiting \cup {"idle", "signed", "left", "sent", "unauthorized",
                            "refreshed", "refused", "resent", "failed"}

(* The range of every variable, and how a handler and the flow it serves   *)
(* go together: a request in flight has a flow that awaits its reply.      *)
Ranges ==
    /\ tokens \in Seq(Rows) /\ clock \in Nat /\ faults \in Nat
    /\ place \in [Procs -> {"idle", "read", "mark", "insert", "revoke"}]
    /\ token \in [Procs -> 0 .. Len(tokens)]
    /\ why \in [Procs -> {"none", "reuse", "expired", "done"}]
    /\ checked \in [Procs -> 0 .. clock]
    /\ reply \in [Procs -> [kind : Kinds, jti : 0 .. Len(tokens)]]
    /\ flow \in [Procs -> FlowPlaces]
    /\ carried \in [Procs -> 0 .. Len(tokens)]
    /\ cookie \in 0 .. Len(tokens) /\ access \in 0 .. Len(tokens)
    /\ current \subseteq 1 .. Len(tokens)
    /\ signedIn \in BOOLEAN /\ loggedOut \in BOOLEAN

Serving ==
    \A p \in Procs :
       /\ place[p] # "idle" => token[p] # 0 /\ reply[p] = NoReply
       /\ ~Free(p) => flow[p] \in Waiting
       /\ reply[p].kind = "session" <=> reply[p].jti # 0

Typing == Ranges /\ Serving

LEMMA TypingInit == Init => Typing
<1> SUFFICES ASSUME Init PROVE Typing
  OBVIOUS
<1>1. tokens = <<>> /\ <<>> \in Seq(Rows) /\ Len(<<>>) = 0
  BY DEF Init, ServerInit
<1>2. Ranges
  <2>1. 0 \in 0 .. 0
    OBVIOUS
  <2>2. reply \in [Procs -> [kind : Kinds, jti : 0 .. 0]]
    BY <2>1 DEF Init, ServerInit, NoReply, Kinds
  <2>3. flow \in [Procs -> FlowPlaces]
    BY DEF Init, FlowPlaces
  <2> QED
    BY <1>1, <2>1, <2>2, <2>3 DEF Init, ServerInit, Ranges
<1>3. Serving
  BY DEF Init, ServerInit, Serving, Free, NoReply
<1> QED
  BY <1>2, <1>3 DEF Typing

(* What becomes of the rows when one is added, used or revoked.            *)
LEMMA RowAdded ==
    ASSUME Ranges, NEW row \in Rows, tokens' = Append(tokens, row)
    PROVE  /\ tokens' \in Seq(Rows) /\ Len(tokens') = Len(tokens) + 1
           /\ Len(tokens) \in Nat
           /\ \A t \in 1 .. Len(tokens) : tokens'[t] = tokens[t]
           /\ tokens'[Len(tokens) + 1] = row
BY DEF Ranges

LEMMA RowUsed ==
    ASSUME Ranges, NEW u \in 1 .. Len(tokens),
           tokens' = [tokens EXCEPT ![u].used = TRUE]
    PROVE  /\ tokens' \in Seq(Rows) /\ Len(tokens') = Len(tokens)
           /\ \A t \in 1 .. Len(tokens) :
                 tokens'[t] = [tokens[t] EXCEPT !.used = (t = u \/ tokens[t].used)]
<1>1. /\ tokens \in [1 .. Len(tokens) -> Rows] /\ Len(tokens) \in Nat
  BY DEF Ranges
<1>2. tokens' \in [1 .. Len(tokens) -> Rows]
  BY <1>1 DEF Rows
<1>3. tokens' \in Seq(Rows) /\ Len(tokens') = Len(tokens)
  BY <1>1, <1>2
<1>4. ASSUME NEW t \in 1 .. Len(tokens)
      PROVE  tokens'[t] = [tokens[t] EXCEPT !.used = (t = u \/ tokens[t].used)]
  BY <1>1 DEF Rows
<1> QED
  BY <1>3, <1>4

LEMMA RowsRevoked ==
    ASSUME Ranges, NEW fam,
           tokens' = [t \in DOMAIN tokens |->
                         IF tokens[t].family = fam
                         THEN [tokens[t] EXCEPT !.revoked = TRUE] ELSE tokens[t]]
    PROVE  /\ tokens' \in Seq(Rows) /\ Len(tokens') = Len(tokens)
           /\ \A t \in 1 .. Len(tokens) :
                 tokens'[t] = [tokens[t] EXCEPT
                    !.revoked = (tokens[t].family = fam \/ tokens[t].revoked)]
<1>1. tokens \in [1 .. Len(tokens) -> Rows] /\ Len(tokens) \in Nat
      /\ DOMAIN tokens = 1 .. Len(tokens)
  BY DEF Ranges
<1>2. tokens' \in [1 .. Len(tokens) -> Rows]
  BY <1>1 DEF Rows
<1>3. tokens' \in Seq(Rows) /\ Len(tokens') = Len(tokens)
  BY <1>1, <1>2
<1>4. ASSUME NEW t \in 1 .. Len(tokens)
      PROVE  tokens'[t] = [tokens[t] EXCEPT
                !.revoked = (tokens[t].family = fam \/ tokens[t].revoked)]
  BY <1>1 DEF Rows
<1> QED
  BY <1>3, <1>4

LEMMA RangesStep == Typing /\ [Next]_vars => Ranges'
<1> SUFFICES ASSUME Typing, [Next]_vars PROVE Ranges'
  OBVIOUS
<1> USE DEF Typing, Ranges
<1>20. Len(tokens) \in Nat /\ 0 \in 0 .. Len(tokens)
  <2>1. Len(tokens) \in Nat
    OBVIOUS
  <2> QED
    BY <2>1
<1>0. ASSUME NEW f, NEW where \in FlowPlaces, Step(f, where)
      PROVE  flow' \in [Procs -> FlowPlaces]
  BY <1>0 DEF Step
<1>1. ASSUME NEW f \in Procs, LogIn(f) PROVE Ranges'
  <2> DEFINE row == [family |-> Len(tokens) + 1, parent |-> 0, used |-> FALSE,
                     revoked |-> FALSE, issued |-> clock, origin |-> clock,
                     checked |-> clock]
  <2>1. row \in Rows /\ tokens' = Append(tokens, row)
    BY <1>1 DEF LogIn, SignIn, Rows
  <2>2. tokens' \in Seq(Rows) /\ Len(tokens') = Len(tokens) + 1 /\ Len(tokens) \in Nat
    BY <2>1, RowAdded
  <2>3. flow' \in [Procs -> FlowPlaces]
    BY <1>0, <1>1 DEF LogIn, FlowPlaces, Waiting
  <2>4. Answer(f, "session", Len(tokens'))
    BY <1>1, <2>2 DEF LogIn, SignIn
  <2>5. /\ place' \in [Procs -> {"idle", "read", "mark", "insert", "revoke"}]
        /\ reply' \in [Procs -> [kind : Kinds, jti : 0 .. Len(tokens')]]
        /\ why' \in [Procs -> {"none", "reuse", "expired", "done"}]
        /\ checked' \in [Procs -> 0 .. clock]
    BY <2>2, <2>4 DEF Answer, Goto, Kinds
  <2>6. token' \in [Procs -> 0 .. Len(tokens')]
    BY <1>1, <2>2 DEF LogIn, SignIn
  <2>7. /\ carried' \in [Procs -> 0 .. Len(tokens')] /\ cookie' \in 0 .. Len(tokens')
        /\ access' \in 0 .. Len(tokens')
        /\ current' \subseteq 1 .. Len(tokens')
    BY <1>1, <2>2 DEF LogIn, SignIn
  <2>8. UNCHANGED <<clock, faults, signedIn, loggedOut>>
    BY <1>1 DEF LogIn, SignIn
  <2> QED
    BY <2>2, <2>3, <2>5, <2>6, <2>7, <2>8
<1>2. ASSUME NEW f \in Procs, LogOut(f) PROVE Ranges'
  <2>1. flow' \in [Procs -> FlowPlaces]
    BY <1>0, <1>2 DEF LogOut, FlowPlaces, Waiting
  <2>2. CASE Logout(f, cookie)
    BY <1>2, <2>1, <2>2 DEF LogOut, Logout, Serve, Goto
  <2>3. CASE LogoutOutlived(f, cookie)
    BY <1>2, <2>1, <2>3 DEF LogOut, LogoutOutlived, Answer, Goto, Kinds
  <2>4. CASE LogoutNoCookie(f)
    BY <1>2, <2>1, <2>4 DEF LogOut, LogoutNoCookie, Answer, Goto, Kinds
  <2> QED
    BY <1>2, <2>2, <2>3, <2>4 DEF LogOut
<1>3. ASSUME NEW f \in Procs, Send(f) \/ Unauthorized(f) \/ RetryDenied(f) PROVE Ranges'
  <2>1. flow' \in [Procs -> FlowPlaces]
    BY <1>0, <1>3 DEF Send, Unauthorized, RetryDenied, FlowPlaces, Waiting
  <2> QED
    BY <1>3, <2>1, ZenonT(30) DEF Send, Unauthorized, RetryDenied, serverVars
<1>4. ASSUME NEW f \in Procs, Granted(f) \/ SignedIn(f) \/ LoggedOut(f) \/ Acknowledge(f)
      PROVE  Ranges'
  <2>1. flow' \in [Procs -> FlowPlaces]
    BY <1>0, <1>4
    DEF Granted, SignedIn, LoggedOut, Acknowledge, Finish, FlowPlaces, Waiting
  <2>2. CASE Granted(f)
    BY <2>1, <2>2 DEF Granted, Finish
  <2>3. CASE SignedIn(f)
    BY <2>1, <2>3 DEF SignedIn, KeepToken, Finish
  <2>4. CASE LoggedOut(f)
    BY <1>20, <2>1, <2>4 DEF LoggedOut, Finish
  <2>5. CASE Acknowledge(f)
    BY <2>1, <2>5 DEF Acknowledge, Finish
  <2> QED
    BY <1>4, <2>2, <2>3, <2>4, <2>5
<1>5. ASSUME NEW f \in Procs, StartRefresh(f) PROVE Ranges'
  <2>1. flow' \in [Procs -> FlowPlaces]
    BY <1>0, <1>5 DEF StartRefresh, FlowPlaces, Waiting
  <2> QED
    BY <1>5, <2>1 DEF StartRefresh, Refresh, Serve, Goto
<1>6. ASSUME NEW f \in Procs, NoCookie(f) \/ RefreshRefused(f) \/ Refreshed(f)
      PROVE  Ranges'
  <2>1. flow' \in [Procs -> FlowPlaces]
    BY <1>0, <1>6 DEF NoCookie, RefreshRefused, Refreshed, FlowPlaces, Waiting
  <2>2. CASE NoCookie(f) \/ RefreshRefused(f)
    BY <1>20, <2>1, <2>2 DEF NoCookie, RefreshRefused, serverVars
  <2>3. CASE Refreshed(f)
    BY <2>1, <2>3 DEF Refreshed, KeepToken, serverVars
  <2> QED
    BY <1>6, <2>2, <2>3
<1>7. ASSUME NEW f \in Procs, RefreshThrottled(f) \/ LogoutThrottled(f) PROVE Ranges'
  <2>1. flow' \in [Procs -> FlowPlaces]
    BY <1>0, <1>7 DEF RefreshThrottled, LogoutThrottled, FlowPlaces, Waiting
  <2>2. CASE RefreshThrottled(f)
    BY <1>20, <2>1, <2>2 DEF RefreshThrottled, Fault
  <2>3. CASE LogoutThrottled(f)
    <3>1. signedIn' \in BOOLEAN
      BY <2>3 DEF LogoutThrottled
    <3>2. loggedOut' \in BOOLEAN
      BY <2>3 DEF LogoutThrottled
    <3>3. /\ access' = 0 /\ faults' \in Nat
          /\ UNCHANGED <<tokens, clock, place, token, why, checked, reply, cookie,
                         current, carried>>
      BY <2>3 DEF LogoutThrottled, Fault
    <3> QED
      BY <1>20, <2>1, <3>1, <3>2, <3>3
  <2> QED
    BY <1>7, <2>2, <2>3
<1>8. ASSUME NEW f \in Procs, ReplyArrives(f) PROVE Ranges'
  <2>1. flow' \in [Procs -> FlowPlaces]
    BY <1>8 DEF ReplyArrives, Step, FlowPlaces, Waiting
  <2>2. reply[f].jti \in 0 .. Len(tokens)
    OBVIOUS
  <2>3. current' \subseteq 1 .. Len(tokens)
    BY <1>8, <2>2 DEF ReplyArrives
  <2>4. reply' \in [Procs -> [kind : Kinds, jti : 0 .. Len(tokens)]]
    BY <1>8 DEF ReplyArrives, NoReply, Kinds
  <2> QED
    BY <1>8, <2>1, <2>2, <2>3, <2>4 DEF ReplyArrives
<1>9. ASSUME NEW f \in Procs, ReplyLost(f) PROVE Ranges'
  <2>1. flow' \in [Procs -> FlowPlaces]
    BY <1>0, <1>9 DEF ReplyLost, FlowPlaces, Waiting
  <2>2. reply' \in [Procs -> [kind : Kinds, jti : 0 .. Len(tokens)]]
    BY <1>9 DEF ReplyLost, NoReply, Kinds
  <2> QED
    BY <1>9, <2>1, <2>2 DEF ReplyLost, Fault
<1>10. CASE AccessExpires
  BY <1>10 DEF AccessExpires, Fault
<1>11. ASSUME Tick, UNCHANGED clientVars PROVE Ranges'
  BY <1>11 DEF Tick, clientVars
<1>12. ASSUME NEW p \in Procs, UNCHANGED clientVars, TokenDead(p) PROVE Ranges'
  BY <1>12 DEF TokenDead, Answer, Goto, Kinds, clientVars
<1>13. ASSUME NEW p \in Procs, UNCHANGED clientVars,
              TokenReused(p) \/ SessionExpired(p) \/ TokenGood(p)
       PROVE  Ranges'
  <2>1. CASE TokenReused(p)
    BY <1>13, <2>1 DEF TokenReused, Goto, clientVars
  <2>2. CASE SessionExpired(p)
    BY <1>13, <2>2 DEF SessionExpired, Goto, clientVars
  <2>3. CASE TokenGood(p)
    BY <1>13, <2>3 DEF TokenGood, Goto, clientVars
  <2> QED
    BY <1>13, <2>1, <2>2, <2>3
<1>14. ASSUME NEW p \in Procs, UNCHANGED clientVars, RevokeFails(p) PROVE Ranges'
  BY <1>14 DEF RevokeFails, Fault, Answer, Goto, Kinds, clientVars
<1>15. ASSUME NEW p \in Procs, UNCHANGED clientVars, StatementFails(p) PROVE Ranges'
  BY <1>15 DEF StatementFails, Fault, Answer, Goto, Kinds, clientVars
<1>16. ASSUME NEW p \in Procs, UNCHANGED clientVars, MarkRefreshUsed(p) PROVE Ranges'
  <2>1. token[p] \in 1 .. Len(tokens)
    BY <1>16 DEF MarkRefreshUsed, Serving
  <2>2. tokens' \in Seq(Rows) /\ Len(tokens') = Len(tokens)
    BY <1>16, <2>1, RowUsed DEF MarkRefreshUsed
  <2> QED
    BY <1>16, <2>2 DEF MarkRefreshUsed, Goto, clientVars
<1>17. ASSUME NEW p \in Procs, UNCHANGED clientVars, Rotate(p) PROVE Ranges'
  <2>1. Child(p) \in Rows
    <3>1. token[p] \in 1 .. Len(tokens) /\ checked[p] \in Nat
      BY <1>17 DEF Rotate, Serving
    <3>2. tokens[token[p]] \in Rows
      BY <3>1
    <3>3. token[p] \in Nat /\ clock \in Nat
      BY <3>1
    <3> HIDE DEF Ranges, Typing
    <3> QED
      BY <3>1, <3>2, <3>3 DEF Child, Rows
  <2>2. tokens' \in Seq(Rows) /\ Len(tokens') = Len(tokens) + 1 /\ Len(tokens) \in Nat
    BY <1>17, <2>1, RowAdded DEF Rotate
  <2>3. Answer(p, "session", Len(tokens'))
    BY <1>17, <2>2 DEF Rotate
  <2>4. /\ place' \in [Procs -> {"idle", "read", "mark", "insert", "revoke"}]
        /\ reply' \in [Procs -> [kind : Kinds, jti : 0 .. Len(tokens')]]
        /\ why' \in [Procs -> {"none", "reuse", "expired", "done"}]
        /\ checked' \in [Procs -> 0 .. clock]
    BY <2>2, <2>3 DEF Answer, Goto, Kinds
  <2>5. /\ carried' \in [Procs -> 0 .. Len(tokens')] /\ cookie' \in 0 .. Len(tokens')
        /\ access' \in 0 .. Len(tokens') /\ token' \in [Procs -> 0 .. Len(tokens')]
        /\ current' \subseteq 1 .. Len(tokens')
    BY <1>17, <2>2 DEF Rotate, clientVars
  <2>6. UNCHANGED <<clock, faults, flow, signedIn, loggedOut>>
    BY <1>17 DEF Rotate, clientVars
  <2> QED
    BY <2>2, <2>4, <2>5, <2>6
<1>18. ASSUME NEW p \in Procs, UNCHANGED clientVars, RevokeFamily(p) PROVE Ranges'
  <2>1. tokens' \in Seq(Rows) /\ Len(tokens') = Len(tokens)
    BY <1>18, RowsRevoked DEF RevokeFamily, Revoked
  <2>2. /\ place' \in [Procs -> {"idle", "read", "mark", "insert", "revoke"}]
        /\ reply' \in [Procs -> [kind : Kinds, jti : 0 .. Len(tokens)]]
        /\ why' \in [Procs -> {"none", "reuse", "expired", "done"}]
        /\ checked' \in [Procs -> 0 .. clock]
    BY <1>18 DEF RevokeFamily, Answer, Goto, Kinds
  <2> QED
    BY <1>18, <2>1, <2>2 DEF RevokeFamily, clientVars
<1>19. CASE UNCHANGED vars
  BY <1>19 DEF vars
<1> HIDE DEF Typing, Ranges
<1> QED
  BY <1>1, <1>2, <1>3, <1>4, <1>5, <1>6, <1>7, <1>8, <1>9, <1>10, <1>11, <1>12,
     <1>13, <1>14, <1>15, <1>16, <1>17, <1>18, <1>19
  DEF Next, Flow, Work

LEMMA ServingStep == Typing /\ [Next]_vars => Serving'
<1> SUFFICES ASSUME Typing, [Next]_vars PROVE Serving'
  OBVIOUS
<1> DEFINE Served(p) ==
              /\ place[p] # "idle" => token[p] # 0 /\ reply[p] = NoReply
              /\ ~Free(p) => flow[p] \in Waiting
              /\ reply[p].kind = "session" <=> reply[p].jti # 0
<1>0. \A p \in Procs : Served(p)
  BY DEF Typing, Serving
<1>1. Len(tokens) + 1 # 0 /\ NoReply.kind = "none" /\ NoReply.jti = 0
  BY DEF Typing, Ranges, NoReply
(* Handlers and replies as they were. *)
<1>2. ASSUME UNCHANGED <<place, token, reply>>,
             \A q \in Procs : flow'[q] = flow[q] \/ flow[q] \notin Waiting
      PROVE  Serving'
  BY <1>0, <1>2 DEF Serving, Free
(* One of them changed. *)
<1>3. ASSUME NEW p \in Procs,
             /\ place'[p] # "idle" => token'[p] # 0 /\ reply'[p] = NoReply,
             (place'[p] = "idle" /\ reply'[p] = NoReply) \/ flow'[p] \in Waiting,
             reply'[p].kind = "session" <=> reply'[p].jti # 0,
             \A q \in Procs \ {p} : /\ place'[q] = place[q] /\ token'[q] = token[q]
                                  /\ reply'[q] = reply[q] /\ flow'[q] = flow[q]
      PROVE  Serving'
  <2> SUFFICES ASSUME NEW q \in Procs PROVE Served(q)'
    BY DEF Serving
  <2>1. CASE q = p
    BY <1>3, <2>1 DEF Free
  <2>2. CASE q # p
    BY <1>0, <1>3, <2>2 DEF Free
  <2> QED
    BY <2>1, <2>2
<1> USE DEF Typing, Ranges
<1>4. ASSUME NEW f \in Procs, LogIn(f) PROVE Serving'
  BY <1>1, <1>3, <1>4 DEF LogIn, SignIn, Answer, Goto, Step, Waiting
<1>5. ASSUME NEW f \in Procs, LogOut(f) PROVE Serving'
  <2>1. CASE cookie # 0 /\ Logout(f, cookie)
    BY <1>1, <1>3, <1>5, <2>1 DEF LogOut, Logout, Serve, Free, Goto, Step, Waiting
  <2>2. CASE LogoutOutlived(f, cookie)
    BY <1>3, <1>5, <2>2 DEF LogOut, LogoutOutlived, Answer, Goto, Step, Waiting
  <2>3. CASE LogoutNoCookie(f)
    BY <1>3, <1>5, <2>3 DEF LogOut, LogoutNoCookie, Answer, Goto, Step, Waiting
  <2> QED
    BY <1>5, <2>1, <2>2, <2>3 DEF LogOut
<1>6. ASSUME NEW f \in Procs,
             Send(f) \/ Unauthorized(f) \/ RetryDenied(f) \/ NoCookie(f)
             \/ RefreshRefused(f) \/ Refreshed(f)
      PROVE  Serving'
  BY <1>2, <1>6
  DEF Send, Unauthorized, RetryDenied, NoCookie, RefreshRefused, Refreshed, Step,
      serverVars, Waiting
<1>7. ASSUME NEW f \in Procs, RefreshThrottled(f) \/ LogoutThrottled(f) PROVE Serving'
  BY <1>2, <1>7 DEF RefreshThrottled, LogoutThrottled, Step, Waiting
<1>8. ASSUME NEW f \in Procs, Granted(f) \/ SignedIn(f) \/ LoggedOut(f) \/ Acknowledge(f)
      PROVE  Serving'
  <2>1. /\ flow[f] \notin Waiting /\ UNCHANGED <<place, reply>>
        /\ \A q \in Procs \ {f} : token'[q] = token[q] /\ flow'[q] = flow[q]
    BY <1>8 DEF Granted, SignedIn, LoggedOut, Acknowledge, Finish, Step, Waiting
  <2>2. place[f] = "idle" /\ reply[f] = NoReply
    BY <1>0, <2>1 DEF Free
  <2> QED
    BY <1>1, <1>3, <2>1, <2>2
<1>9. ASSUME NEW f \in Procs, StartRefresh(f) PROVE Serving'
  BY <1>1, <1>3, <1>9 DEF StartRefresh, Refresh, Serve, Free, Goto, Step, Waiting
<1>10. ASSUME NEW f \in Procs, ReplyArrives(f) \/ ReplyLost(f) PROVE Serving'
  <2>1. place[f] = "idle"
    BY <1>0, <1>10 DEF ReplyArrives, ReplyLost
  <2> QED
    BY <1>1, <1>3, <1>10, <2>1 DEF ReplyArrives, ReplyLost, Step
<1>11. CASE AccessExpires
  BY <1>2, <1>11 DEF AccessExpires
<1>12. ASSUME Tick, UNCHANGED clientVars PROVE Serving'
  BY <1>2, <1>12 DEF Tick, clientVars
(* A handler at work has a flow that waits for it. *)
<1>13. ASSUME NEW p \in Procs, place[p] # "idle", UNCHANGED <<token, flow>>,
              \/ place'[p] # "idle" /\ reply' = reply
              \/ \E kind, jti : Answer(p, kind, jti) /\ (kind = "session" <=> jti # 0),
              \A q \in Procs \ {p} : place'[q] = place[q]
       PROVE  Serving'
  <2>1. flow[p] \in Waiting /\ token[p] # 0 /\ reply[p] = NoReply
    BY <1>0, <1>13 DEF Free
  <2>2. CASE place'[p] # "idle" /\ reply' = reply
    BY <1>1, <1>3, <1>13, <2>1, <2>2
  <2>3. ASSUME NEW kind, NEW jti, Answer(p, kind, jti), kind = "session" <=> jti # 0
        PROVE  Serving'
    BY <1>3, <1>13, <2>1, <2>3 DEF Answer, Goto
  <2> QED
    BY <1>13, <2>2, <2>3
<1>14. ASSUME NEW p \in Procs, UNCHANGED clientVars,
              TokenDead(p) \/ RevokeFamily(p) \/ RevokeFails(p) \/ StatementFails(p)
              \/ Rotate(p)
       PROVE  Serving'
  <2>1. /\ place[p] # "idle" /\ UNCHANGED <<token, flow>>
        /\ \E kind, jti : Answer(p, kind, jti) /\ (kind = "session" <=> jti # 0)
    <3>1. why[p] # "session"
      OBVIOUS
    <3>2. CASE TokenDead(p)
      BY <1>14, <3>2 DEF TokenDead, clientVars
    <3>3. CASE RevokeFamily(p)
      BY <1>14, <3>1, <3>3 DEF RevokeFamily, clientVars
    <3>4. CASE RevokeFails(p)
      BY <1>14, <3>1, <3>4 DEF RevokeFails, clientVars
    <3>5. CASE StatementFails(p)
      BY <1>14, <3>5 DEF StatementFails, clientVars
    <3>6. CASE Rotate(p)
      BY <1>1, <1>14, <3>6 DEF Rotate, clientVars
    <3> QED
      BY <1>14, <3>2, <3>3, <3>4, <3>5, <3>6
  <2>2. \A q \in Procs \ {p} : place'[q] = place[q]
    BY <2>1 DEF Answer, Goto
  <2> QED
    BY <1>13, <2>1, <2>2
<1>15. ASSUME NEW p \in Procs, UNCHANGED clientVars,
              TokenReused(p) \/ SessionExpired(p) \/ TokenGood(p) \/ MarkRefreshUsed(p)
       PROVE  Serving'
  BY <1>13, <1>15
  DEF TokenReused, SessionExpired, TokenGood, MarkRefreshUsed, Alive, Goto, clientVars
<1>16. CASE UNCHANGED vars
  BY <1>2, <1>16 DEF vars
<1> HIDE DEF Typing, Ranges
<1> QED
  BY <1>4, <1>5, <1>6, <1>7, <1>8, <1>9, <1>10, <1>11, <1>12, <1>14, <1>15, <1>16
  DEF Next, Flow, Work

LEMMA TypingStep == Typing /\ [Next]_vars => Typing'
BY RangesStep, ServingStep DEF Typing

-------------------------------------------------------------------------------
(* The rows form families: a token belongs to the family of the sign-in it *)
(* descends from, and no rotation moved that sign-in's window.             *)
Family(t) == tokens[t].family

Rooted(t) ==
    /\ Family(t) \in 1 .. t /\ Family(Family(t)) = Family(t)
    /\ tokens[t].parent \in 0 .. (t - 1)
    /\ tokens[t].issued <= clock /\ tokens[t].checked <= clock
    /\ tokens[t].origin = tokens[Family(t)].issued
    /\ tokens[t].checked <= tokens[t].origin + RefreshTTL

(* The judgement a rotation acts on may be old, never wrong about the window. *)
Judged(p) ==
    place[p] \in {"mark", "insert"} => checked[p] <= tokens[token[p]].origin + RefreshTTL

Tree == /\ ended \subseteq 1 .. Len(tokens)
        /\ \A t \in 1 .. Len(tokens) : Rooted(t)
        /\ \A p \in Procs : Judged(p)

(* Two handlers at work on one family are a race; and as long as there was *)
(* none, a handler between its judgement and its insert is on a token that *)
(* has no child yet, of a family that has not ended.                       *)
Rotating(p) ==
    /\ place[p] = "insert" => tokens[token[p]].used
    /\ place[p] \in {"mark", "insert"} /\ Family(token[p]) \notin raced =>
          /\ \A c \in 1 .. Len(tokens) : tokens[c].parent # token[p]
          /\ Family(token[p]) \notin ended

Lineage ==
    /\ \A c \in 1 .. Len(tokens) : tokens[c].parent # 0 => tokens[tokens[c].parent].used
    /\ \A c, d \in 1 .. Len(tokens) :
          /\ tokens[c].parent = tokens[d].parent /\ tokens[c].parent # 0
          /\ Family(tokens[c].parent) \notin raced
          => c = d
    /\ \A t \in 1 .. Len(tokens) : Family(t) \in ended \ raced => tokens[t].revoked
    /\ \A p \in Procs : Rotating(p)
    /\ \A p, q \in Procs :
          /\ p # q /\ place[p] # "idle" /\ place[q] # "idle"
          /\ Family(token[p]) = Family(token[q])
          => Family(token[p]) \in raced

History == Tree /\ Lineage

LEMMA HistoryInit == Init => History
BY DEF Init, ServerInit, History, Tree, Lineage, Judged, Rotating

LEMMA RowTypes ==
    ASSUME Ranges, NEW t \in 1 .. Len(tokens)
    PROVE  /\ tokens[t].family \in Nat /\ tokens[t].parent \in Nat
           /\ tokens[t].used \in BOOLEAN /\ tokens[t].revoked \in BOOLEAN
           /\ tokens[t].issued \in Nat /\ tokens[t].origin \in Nat
           /\ tokens[t].checked \in Nat
<1>1. tokens[t] \in Rows
  BY DEF Ranges
<1> QED
  BY <1>1 DEF Rows

LEMMA AtWork ==
    ASSUME Typing, NEW p \in Procs, place[p] # "idle"
    PROVE  token[p] \in 1 .. Len(tokens)
BY DEF Typing, Ranges, Serving

(* A step that leaves the rows and the history alone, and moves no handler *)
(* towards an insert.                                                      *)
LEMMA HistoryKept ==
    ASSUME Typing, History, UNCHANGED <<tokens, ended, raced>>,
           clock' \in {clock, clock + 1},
           \A q \in Procs :
              \/ place'[q] = "idle"
              \/ place'[q] = place[q] /\ token'[q] = token[q] /\ checked'[q] = checked[q]
              \/ place[q] = "read" /\ place'[q] = "revoke" /\ token'[q] = token[q]
    PROVE  History'
<1> USE DEF History
<1>1. ASSUME NEW t \in 1 .. Len(tokens) PROVE Rooted(t)'
  <2>1. /\ Rooted(t) /\ tokens[t].issued \in Nat /\ tokens[t].checked \in Nat
        /\ clock \in Nat
    BY RowTypes DEF Tree, Typing, Ranges
  <2>2. tokens[t].issued <= clock' /\ tokens[t].checked <= clock'
    BY <2>1 DEF Rooted
  <2> QED
    BY <2>1, <2>2 DEF Rooted, Family
<1>2. \A q \in Procs : Judged(q)'
  BY DEF Tree, Judged
<1>3. \A q \in Procs : Rotating(q)'
  BY DEF Lineage, Rotating, Family
<1>4. \A q \in Procs : place'[q] # "idle" => place[q] # "idle" /\ token'[q] = token[q]
  OBVIOUS
<1>5. Lineage'
  BY <1>3, <1>4 DEF Lineage, Family
<1> QED
  BY <1>1, <1>2, <1>5 DEF Tree

(* A request arrives: it races with the ones in flight for its family.     *)
LEMMA HistoryServes ==
    ASSUME Typing, History, NEW p \in Procs, NEW t \in 1 .. Len(tokens),
           NEW where \in {"read", "revoke"}, NEW reason, Serve(p, t, where, reason)
    PROVE  History'
<1> USE DEF History
<1>1. /\ UNCHANGED <<tokens, ended, clock, checked>> /\ raced \subseteq raced'
      /\ place' = [place EXCEPT ![p] = where] /\ token' = [token EXCEPT ![p] = t]
      /\ place[p] = "idle"
  BY DEF Serve, Goto, Free
<1>2. ASSUME NEW q \in Procs, q # p, place[q] # "idle", Family(token[q]) = Family(t)
      PROVE  Family(t) \in raced'
  <2>1. token[q] # 0 /\ ~Free(q)
    BY <1>2 DEF Typing, Serving, Free
  <2>2. Family(t) \in Busy(p)
    BY <1>2, <2>1 DEF Busy, Family
  <2> QED
    BY <2>2 DEF Serve, Family
<1>3. \A u \in 1 .. Len(tokens) : Rooted(u)'
  BY <1>1 DEF Tree, Rooted, Family
<1>4. \A q \in Procs : Judged(q)' /\ Rotating(q)'
  BY <1>1 DEF Tree, Judged, Lineage, Rotating, Family, Typing, Ranges
<1>5. ASSUME NEW q \in Procs, NEW u \in Procs, q # u, place'[q] # "idle",
             place'[u] # "idle", Family(token[q])' = Family(token[u])'
      PROVE  Family(token[q])' \in raced'
  <2>1. CASE q = p
    BY <1>1, <1>2, <1>5, <2>1 DEF Family, Typing, Ranges
  <2>2. CASE u = p
    BY <1>1, <1>2, <1>5, <2>2 DEF Family, Typing, Ranges
  <2>3. CASE q # p /\ u # p
    BY <1>1, <1>5, <2>3 DEF Lineage, Family
  <2> QED
    BY <2>1, <2>2, <2>3
<1>6. Lineage'
  BY <1>1, <1>4, <1>5 DEF Lineage, Family
<1> QED
  BY <1>1, <1>3, <1>4, <1>6 DEF Tree

LEMMA HistoryJudges ==
    ASSUME Typing, History, NEW p \in Procs, TokenGood(p) PROVE History'
<1> USE DEF History
<1> DEFINE u == token[p]
<1>1. /\ UNCHANGED <<tokens, ended, raced, clock, token>>
      /\ place' = [place EXCEPT ![p] = "mark"] /\ checked' = [checked EXCEPT ![p] = clock]
      /\ place[p] = "read" /\ ~tokens[u].used /\ ~tokens[u].revoked
      /\ clock <= tokens[u].origin + RefreshTTL /\ u \in 1 .. Len(tokens)
  <2>1. u \in 1 .. Len(tokens)
    BY AtWork DEF TokenGood, Alive
  <2>2. tokens[u].origin \in Nat /\ clock \in Nat
    BY <2>1, RowTypes DEF Typing, Ranges
  <2>3. clock <= tokens[u].origin + RefreshTTL
    BY <2>2, WindowsAssumption DEF TokenGood, WindowsPassed
  <2> QED
    BY <2>1, <2>3 DEF TokenGood, Alive, Goto
<1>2. \A t \in 1 .. Len(tokens) : Rooted(t)'
  BY <1>1 DEF Tree, Rooted, Family
<1>3. ASSUME NEW q \in Procs PROVE Judged(q)'
  BY <1>1 DEF Tree, Judged, Typing, Ranges
<1>4. ASSUME NEW q \in Procs PROVE Rotating(q)'
  <2>1. CASE q = p
    BY <1>1, <2>1 DEF Lineage, Rotating, Family, Typing, Ranges
  <2>2. CASE q # p
    BY <1>1, <2>2 DEF Lineage, Rotating, Family
  <2> QED
    BY <2>1, <2>2
<1>5. \A q \in Procs : place'[q] # "idle" => place[q] # "idle"
  BY <1>1 DEF Typing, Ranges
<1>6. Lineage'
  BY <1>1, <1>4, <1>5 DEF Lineage, Family
<1> QED
  BY <1>1, <1>2, <1>3, <1>6 DEF Tree

LEMMA HistoryMarks ==
    ASSUME Typing, History, NEW p \in Procs, MarkRefreshUsed(p) PROVE History'
<1> USE DEF History
<1> DEFINE u == token[p]
<1>1. /\ UNCHANGED <<ended, raced, clock, token, checked>>
      /\ place' = [place EXCEPT ![p] = "insert"] /\ place[p] = "mark"
      /\ tokens' = [tokens EXCEPT ![u].used = TRUE]
      /\ u \in 1 .. Len(tokens)
  BY AtWork DEF MarkRefreshUsed, Goto
<1>2. /\ Len(tokens') = Len(tokens)
      /\ \A t \in 1 .. Len(tokens) :
            tokens'[t] = [tokens[t] EXCEPT !.used = (t = u \/ tokens[t].used)]
  BY <1>1, RowUsed DEF Typing
<1>3. \A t \in 1 .. Len(tokens) :
         /\ tokens'[t].family = tokens[t].family /\ tokens'[t].parent = tokens[t].parent
         /\ tokens'[t].issued = tokens[t].issued /\ tokens'[t].origin = tokens[t].origin
         /\ tokens'[t].checked = tokens[t].checked
         /\ tokens'[t].revoked = tokens[t].revoked
         /\ tokens[t].used => tokens'[t].used
         /\ t = u => tokens'[t].used
  <2> SUFFICES ASSUME NEW t \in 1 .. Len(tokens)
               PROVE /\ tokens'[t].family = tokens[t].family
                     /\ tokens'[t].parent = tokens[t].parent
                     /\ tokens'[t].issued = tokens[t].issued
                     /\ tokens'[t].origin = tokens[t].origin
                     /\ tokens'[t].checked = tokens[t].checked
                     /\ tokens'[t].revoked = tokens[t].revoked
                     /\ tokens[t].used => tokens'[t].used
                     /\ t = u => tokens'[t].used
    OBVIOUS
  <2>1. tokens[t] \in Rows
    BY DEF Typing, Ranges
  <2> QED
    BY <1>2, <2>1 DEF Rows
<1>4. ASSUME NEW t \in 1 .. Len(tokens) PROVE Rooted(t)'
  BY <1>1, <1>2, <1>3 DEF Tree, Rooted, Family
<1>5. \A q \in Procs : place[q] # "idle" => token[q] \in 1 .. Len(tokens)
  BY AtWork
<1>6. \A q \in Procs : place'[q] # "idle" => place[q] # "idle"
  BY <1>1 DEF Typing, Ranges
<1>7. ASSUME NEW q \in Procs PROVE Judged(q)' /\ Rotating(q)'
  <2>1. CASE q = p
    BY <1>1, <1>2, <1>3, <2>1 DEF Tree, Judged, Lineage, Rotating, Family, Typing, Ranges
  <2>2. CASE q # p
    BY <1>1, <1>2, <1>3, <1>5, <2>2 DEF Tree, Judged, Lineage, Rotating, Family
  <2> QED
    BY <2>1, <2>2
<1>8. ASSUME NEW c \in 1 .. Len(tokens), tokens[c].parent # 0
      PROVE  tokens[c].parent \in 1 .. Len(tokens)
  BY <1>8 DEF Tree, Rooted
<1>9. Lineage'
  BY <1>1, <1>2, <1>3, <1>5, <1>6, <1>7, <1>8 DEF Lineage, Family
<1> QED
  BY <1>1, <1>2, <1>4, <1>7, <1>9 DEF Tree

LEMMA HistoryRevokes ==
    ASSUME Typing, History, NEW p \in Procs, RevokeFamily(p) PROVE History'
<1> USE DEF History
<1> DEFINE u == token[p]
           fam == Family(u)
<1>1. /\ UNCHANGED <<raced, clock, token>> /\ ended' = ended \cup {fam}
      /\ place' = [place EXCEPT ![p] = "idle"] /\ place[p] = "revoke"
      /\ checked' = [checked EXCEPT ![p] = 0]
      /\ u \in 1 .. Len(tokens)
  BY AtWork DEF RevokeFamily, Answer, Goto, Family
<1>2. /\ Len(tokens') = Len(tokens)
      /\ \A t \in 1 .. Len(tokens) :
            tokens'[t] = [tokens[t] EXCEPT
               !.revoked = (tokens[t].family = fam \/ tokens[t].revoked)]
  BY RowsRevoked DEF RevokeFamily, Revoked, Family, Typing
<1>3. \A t \in 1 .. Len(tokens) :
         /\ tokens'[t].family = tokens[t].family /\ tokens'[t].parent = tokens[t].parent
         /\ tokens'[t].issued = tokens[t].issued /\ tokens'[t].origin = tokens[t].origin
         /\ tokens'[t].checked = tokens[t].checked
         /\ tokens'[t].used = tokens[t].used
         /\ tokens[t].revoked => tokens'[t].revoked
         /\ Family(t) = fam => tokens'[t].revoked
  <2> SUFFICES ASSUME NEW t \in 1 .. Len(tokens)
               PROVE /\ tokens'[t].family = tokens[t].family
                     /\ tokens'[t].parent = tokens[t].parent
                     /\ tokens'[t].issued = tokens[t].issued
                     /\ tokens'[t].origin = tokens[t].origin
                     /\ tokens'[t].checked = tokens[t].checked
                     /\ tokens'[t].used = tokens[t].used
                     /\ tokens[t].revoked => tokens'[t].revoked
                     /\ Family(t) = fam => tokens'[t].revoked
    OBVIOUS
  <2>1. tokens[t] \in Rows
    BY DEF Typing, Ranges
  <2> QED
    BY <1>2, <2>1 DEF Rows, Family
<1>4. ASSUME NEW t \in 1 .. Len(tokens) PROVE Rooted(t)'
  BY <1>1, <1>2, <1>3 DEF Tree, Rooted, Family
<1>5. \A q \in Procs : place[q] # "idle" => token[q] \in 1 .. Len(tokens)
  BY AtWork
<1>6. \A q \in Procs : place'[q] # "idle" => place[q] # "idle" /\ q # p
  BY <1>1 DEF Typing, Ranges
<1>7. fam \in 1 .. Len(tokens)
  BY <1>1 DEF Tree, Rooted
<1>8. ASSUME NEW q \in Procs PROVE Judged(q)' /\ Rotating(q)'
  <2>1. CASE q = p
    BY <1>1, <2>1 DEF Judged, Rotating, Typing, Ranges
  <2>2. CASE q # p
    <3>1. place'[q] = place[q] /\ checked'[q] = checked[q]
      BY <1>1, <2>2
    <3>2. place[q] \in {"mark", "insert"} /\ Family(token[q]) \notin raced
             => Family(token[q]) # fam
      BY <1>1, <2>2 DEF Lineage
    <3> QED
      BY <1>1, <1>2, <1>3, <1>5, <3>1, <3>2 DEF Tree, Judged, Lineage, Rotating, Family
  <2> QED
    BY <2>1, <2>2
<1>9. ASSUME NEW c \in 1 .. Len(tokens), tokens[c].parent # 0
      PROVE  tokens[c].parent \in 1 .. Len(tokens)
  BY <1>9 DEF Tree, Rooted
<1> HIDE DEF fam
<1>10. Lineage'
  BY <1>1, <1>2, <1>3, <1>5, <1>6, <1>8, <1>9, SMTT(30) DEF Lineage, Family
<1> QED
  BY <1>1, <1>2, <1>4, <1>7, <1>8, <1>10 DEF Tree

(* A row joins the table and its handler is done with it.                  *)
LEMMA HistoryGrows ==
    ASSUME Typing, History, NEW p \in Procs, NEW row \in Rows,
           NEW n \in Nat, n = Len(tokens),
           tokens' = Append(tokens, row), UNCHANGED <<clock, ended, raced>>,
           place' = [place EXCEPT ![p] = "idle"],
           \A q \in Procs \ {p} : token'[q] = token[q] /\ checked'[q] = checked[q],
           Rooted(n + 1)',
           row.family \notin ended \ raced,
           row.parent # 0 =>
              /\ tokens[row.parent].used
              /\ Family(row.parent) \notin raced =>
                    /\ \A c \in 1 .. Len(tokens) : tokens[c].parent # row.parent
                    /\ \A q \in Procs \ {p} : place[q] # "idle" => token[q] # row.parent
    PROVE  History'
<1> USE DEF History
<1>1. /\ Len(tokens') = n + 1 /\ n \in Nat
      /\ \A t \in 1 .. n : tokens'[t] = tokens[t]
      /\ tokens'[n + 1] = row
  BY RowAdded DEF Typing
<1>2. \A t \in 1 .. n : Family(t) \in 1 .. n /\ tokens[t].parent \in 0 .. n
  BY <1>1 DEF Tree, Rooted
<1>3. row.parent \in 0 .. n
  BY <1>1 DEF Rooted
<1>4. ASSUME NEW t \in 1 .. n PROVE Rooted(t)'
  BY <1>1, <1>2 DEF Tree, Rooted, Family
<1>5. \A t \in 1 .. n + 1 : Rooted(t)'
  <2> SUFFICES ASSUME NEW t \in 1 .. n + 1 PROVE Rooted(t)'
    OBVIOUS
  <2>1. t \in 1 .. n \/ t = n + 1
    BY <1>1
  <2> QED
    BY <1>4, <2>1
<1>6. ASSUME NEW q \in Procs, place'[q] # "idle"
      PROVE  /\ q # p /\ place[q] = place'[q] /\ token'[q] = token[q]
             /\ checked'[q] = checked[q] /\ token[q] \in 1 .. n
  <2>1. q # p /\ place[q] = place'[q]
    BY <1>6 DEF Typing, Ranges
  <2> QED
    BY <1>6, <2>1, AtWork
<1>7. ASSUME NEW q \in Procs PROVE Judged(q)'
  BY <1>1, <1>6 DEF Tree, Judged
<1>8. ASSUME NEW q \in Procs PROVE Rotating(q)'
  <2>1. CASE place'[q] \notin {"mark", "insert"}
    BY <2>1 DEF Rotating
  <2>2. CASE place'[q] \in {"mark", "insert"}
    <3>1. Rotating(q) /\ place[q] = place'[q] /\ token'[q] = token[q]
          /\ token[q] \in 1 .. n /\ q # p /\ tokens'[token[q]] = tokens[token[q]]
      BY <1>1, <1>6, <2>2 DEF Lineage
    <3>2. Family(token[q])' = Family(token[q])
      BY <3>1 DEF Family
    <3>3. ASSUME Family(token[q]) \notin raced, NEW c \in 1 .. n + 1
          PROVE  tokens'[c].parent # token[q]
      <4>1. CASE c \in 1 .. n
        BY <1>1, <2>2, <3>1, <3>3, <4>1 DEF Rotating
      <4>2. CASE c = n + 1
        <5>1. CASE row.parent = 0
          BY <1>1, <3>1, <4>2, <5>1
        <5>2. CASE row.parent # 0 /\ row.parent = token[q]
          BY <1>6, <2>2, <3>1, <3>3, <5>2
        <5> QED
          BY <1>1, <4>2, <5>1, <5>2
      <4> QED
        BY <1>1, <4>1, <4>2
    <3> QED
      BY <1>1, <2>2, <3>1, <3>2, <3>3 DEF Rotating
  <2> QED
    BY <2>1, <2>2
<1>9. ASSUME NEW c \in 1 .. n + 1, tokens'[c].parent # 0
      PROVE  /\ tokens'[c].parent \in 1 .. n
             /\ tokens'[tokens'[c].parent].used
             /\ Family(tokens[c].parent)' = Family(tokens'[c].parent)
  <2>1. CASE c = n + 1
    BY <1>1, <1>3, <1>9, <2>1 DEF Family
  <2>2. CASE c \in 1 .. n
    BY <1>1, <1>2, <1>9, <2>2 DEF Lineage, Family
  <2> QED
    BY <1>1, <2>1, <2>2
<1>10. ASSUME NEW c \in 1 .. n + 1, NEW d \in 1 .. n + 1,
              tokens'[c].parent = tokens'[d].parent, tokens'[c].parent # 0,
              Family(tokens[c].parent)' \notin raced'
       PROVE  c = d
  <2>1. CASE c \in 1 .. n /\ d \in 1 .. n
    BY <1>1, <1>9, <1>10, <2>1 DEF Lineage
  <2>2. CASE c = n + 1 /\ d \in 1 .. n
    BY <1>1, <1>9, <1>10, <2>2
  <2>3. CASE c \in 1 .. n /\ d = n + 1
    BY <1>1, <1>9, <1>10, <2>3
  <2> QED
    BY <1>1, <2>1, <2>2, <2>3
<1>11. ASSUME NEW t \in 1 .. n + 1, Family(t)' \in ended' \ raced'
       PROVE  tokens'[t].revoked
  <2>1. CASE t \in 1 .. n
    BY <1>1, <1>11, <2>1 DEF Lineage, Family
  <2>2. CASE t = n + 1
    BY <1>1, <1>11, <2>2 DEF Family
  <2> QED
    BY <1>1, <2>1, <2>2
<1>12. ASSUME NEW q \in Procs, NEW u \in Procs, q # u, place'[q] # "idle",
              place'[u] # "idle", Family(token[q])' = Family(token[u])'
       PROVE  Family(token[q])' \in raced'
  BY <1>1, <1>6, <1>12 DEF Lineage, Family
<1>13. Lineage'
  BY <1>1, <1>8, <1>9, <1>10, <1>11, <1>12 DEF Lineage
<1>14. ended' \subseteq 1 .. Len(tokens')
  BY <1>1 DEF Tree
<1> QED
  BY <1>1, <1>5, <1>7, <1>13, <1>14 DEF Tree

LEMMA HistorySignsIn ==
    ASSUME Typing, History, NEW p \in Procs, SignIn(p) PROVE History'
<1> DEFINE row == [family |-> Len(tokens) + 1, parent |-> 0, used |-> FALSE,
                   revoked |-> FALSE, issued |-> clock, origin |-> clock,
                   checked |-> clock]
<1> DEFINE n == Len(tokens)
<1>1. n \in Nat /\ clock \in Nat
  BY DEF Typing, Ranges
<1>2. row \in Rows /\ tokens' = Append(tokens, row)
  BY <1>1 DEF SignIn, Rows
<1>3. /\ UNCHANGED <<clock, ended, raced>>
      /\ place' = [place EXCEPT ![p] = "idle"]
      /\ \A q \in Procs \ {p} : token'[q] = token[q] /\ checked'[q] = checked[q]
  BY DEF SignIn, Answer, Goto, Typing, Ranges
<1>4. tokens'[Len(tokens) + 1] = row
  BY <1>2, RowAdded DEF Typing
<1>5. ASSUME NEW m \in Nat, m = n PROVE Rooted(m + 1)'
  <2>1. tokens'[m + 1] = row /\ row.family = m + 1
    BY <1>4, <1>5
  <2>2. clock \in Nat /\ clock' = clock /\ clock <= clock + RefreshTTL
    BY <1>1, <1>3, WindowsAssumption
  <2> QED
    BY <1>5, <2>1, <2>2 DEF Rooted, Family
<1>6. row.family \notin ended
  BY <1>1 DEF History, Tree
<1>7. row.parent = 0
  OBVIOUS
<1> HIDE DEF row
<1> QED
  BY <1>1, <1>2, <1>3, <1>5, <1>6, <1>7, HistoryGrows

LEMMA HistoryRotates ==
    ASSUME Typing, History, NEW p \in Procs, Rotate(p) PROVE History'
<1> DEFINE u == token[p]
<1>1. /\ UNCHANGED <<clock, ended, raced>> /\ place[p] = "insert"
      /\ place' = [place EXCEPT ![p] = "idle"]
      /\ \A q \in Procs \ {p} : token'[q] = token[q] /\ checked'[q] = checked[q]
      /\ tokens' = Append(tokens, Child(p))
  BY DEF Rotate, Answer, Goto, Typing, Ranges
<1>2. u \in 1 .. Len(tokens) /\ checked[p] \in 0 .. clock /\ clock \in Nat
      /\ Len(tokens) \in Nat
  BY <1>1, AtWork DEF Typing, Ranges
<1>3. Child(p) \in Rows
  BY <1>2, RowTypes DEF Child, Rows, Typing
<1>4. /\ tokens'[Len(tokens) + 1] = Child(p)
      /\ \A t \in 1 .. Len(tokens) : tokens'[t] = tokens[t]
      /\ Len(tokens') = Len(tokens) + 1
  BY <1>1, <1>3, RowAdded DEF Typing
<1>5. Rooted(u) /\ Judged(p) /\ Rotating(p)
  BY <1>2 DEF History, Tree, Lineage
<1>6. /\ Child(p).family = Family(u) /\ Child(p).parent = u
      /\ Child(p).issued = clock /\ Child(p).checked = checked[p]
      /\ Child(p).origin = tokens[u].origin
  BY DEF Child, Family
<1>7. ASSUME NEW n \in Nat, n = Len(tokens) PROVE Rooted(n + 1)'
  <2>1. tokens'[n + 1] = Child(p)
    BY <1>4, <1>7
  <2>2. /\ Family(u) \in 1 .. n + 1 /\ u \in 0 .. n /\ Family(Family(u)) = Family(u)
        /\ tokens[u].origin = tokens[Family(u)].issued
    BY <1>2, <1>5, <1>7 DEF Rooted
  <2>3. tokens'[Family(u)] = tokens[Family(u)]
    BY <1>2, <1>4, <1>5 DEF Rooted
  <2>4. checked[p] <= tokens[u].origin + RefreshTTL
    BY <1>1, <1>5 DEF Judged
  <2>5. clock <= clock' /\ checked[p] <= clock' /\ (n + 1) - 1 = n
    BY <1>1, <1>2
  <2> HIDE DEF u
  <2> QED
    BY <1>6, <2>1, <2>2, <2>3, <2>4, <2>5 DEF Rooted, Family
<1>8. Child(p).family \notin ended \ raced
  BY <1>1, <1>5, <1>6 DEF Rotating
<1>9. /\ tokens[u].used
      /\ Family(u) \notin raced =>
            /\ \A c \in 1 .. Len(tokens) : tokens[c].parent # u
            /\ \A q \in Procs \ {p} : place[q] # "idle" => token[q] # u
  <2>1. Family(u) \notin raced
           => \A q \in Procs \ {p} : place[q] # "idle" => token[q] # u
    BY <1>1 DEF History, Lineage
  <2> QED
    BY <1>1, <1>5, <2>1 DEF Rotating
<1> HIDE DEF u
<1> QED
  BY <1>1, <1>2, <1>3, <1>6, <1>7, <1>8, <1>9, HistoryGrows

LEMMA HistoryStep == Typing /\ History /\ [Next]_vars => History'
<1> SUFFICES ASSUME Typing, History, [Next]_vars PROVE History'
  OBVIOUS
<1>0. /\ cookie \in 0 .. Len(tokens) /\ clock \in Nat
      /\ place \in [Procs -> {"idle", "read", "mark", "insert", "revoke"}]
      /\ token \in [Procs -> 0 .. Len(tokens)] /\ checked \in [Procs -> 0 .. clock]
  BY DEF Typing, Ranges
(* One handler ends, or none moves. *)
<1>1. ASSUME UNCHANGED <<tokens, ended, raced, clock>>, NEW p \in Procs,
             \A q \in Procs \ {p} : /\ place'[q] = place[q] /\ token'[q] = token[q]
                                  /\ checked'[q] = checked[q],
             place'[p] = "idle"
      PROVE  History'
  BY <1>1, HistoryKept
<1>2. ASSUME NEW p \in Procs, NEW kind, NEW jti, Answer(p, kind, jti),
             UNCHANGED <<tokens, ended, raced, clock>>,
             \A q \in Procs \ {p} : token'[q] = token[q]
      PROVE  History'
  BY <1>0, <1>1, <1>2 DEF Answer, Goto
<1>3. ASSUME UNCHANGED <<tokens, clock, ended, raced, place, token, checked>>
      PROVE  History'
  BY <1>3, HistoryKept
<1>4. ASSUME NEW f \in Procs, LogIn(f) PROVE History'
  BY <1>4, HistorySignsIn DEF LogIn
<1>5. ASSUME NEW f \in Procs, LogOut(f) PROVE History'
  <2>1. CASE cookie # 0 /\ Logout(f, cookie)
    <3>1. cookie \in 1 .. Len(tokens)
      BY <1>0, <2>1
    <3> QED
      BY <2>1, <3>1, HistoryServes DEF Logout
  <2>2. CASE LogoutOutlived(f, cookie)
    BY <1>0, <1>2, <2>2 DEF LogoutOutlived
  <2>3. CASE LogoutNoCookie(f)
    BY <1>0, <1>2, <2>3 DEF LogoutNoCookie
  <2> QED
    BY <1>5, <2>1, <2>2, <2>3 DEF LogOut
<1>6. ASSUME NEW f \in Procs, StartRefresh(f) PROVE History'
  <2>1. cookie \in 1 .. Len(tokens)
    BY <1>0, <1>6 DEF StartRefresh
  <2> QED
    BY <1>6, <2>1, HistoryServes DEF StartRefresh, Refresh
<1>7. ASSUME NEW f \in Procs,
             Granted(f) \/ SignedIn(f) \/ LoggedOut(f) \/ Acknowledge(f)
      PROVE  History'
  <2>1. Finish(f) /\ flow[f] \notin Waiting
    BY <1>7 DEF Granted, SignedIn, LoggedOut, Acknowledge, Waiting
  <2>2. place[f] = "idle"
    BY <2>1 DEF Typing, Serving, Free
  <2> QED
    BY <1>0, <1>1, <2>1, <2>2 DEF Finish
<1>8. ASSUME NEW f \in Procs,
             \/ Send(f) \/ Unauthorized(f) \/ RetryDenied(f) \/ NoCookie(f)
             \/ Refreshed(f) \/ RefreshRefused(f)
      PROVE  History'
  BY <1>3, <1>8
  DEF Send, Unauthorized, RetryDenied, NoCookie, Refreshed, RefreshRefused, serverVars
<1>9. ASSUME NEW f \in Procs,
             \/ RefreshThrottled(f) \/ LogoutThrottled(f) \/ ReplyArrives(f)
             \/ ReplyLost(f)
      PROVE  History'
  BY <1>3, <1>9 DEF RefreshThrottled, LogoutThrottled, ReplyArrives, ReplyLost
<1>10. CASE AccessExpires
  BY <1>3, <1>10 DEF AccessExpires
<1>11. ASSUME Tick PROVE History'
  BY <1>11, HistoryKept DEF Tick
<1>12. ASSUME NEW p \in Procs, TokenReused(p) \/ SessionExpired(p) PROVE History'
  <2>1. /\ UNCHANGED <<tokens, clock, ended, raced, token, checked>>
        /\ place' = [place EXCEPT ![p] = "revoke"] /\ place[p] = "read"
    BY <1>12 DEF TokenReused, SessionExpired, Alive, Goto
  <2> QED
    BY <1>0, <2>1, HistoryKept
<1>13. ASSUME NEW p \in Procs, TokenDead(p) \/ RevokeFails(p) \/ StatementFails(p)
       PROVE  History'
  <2>1. /\ \E kind, jti : Answer(p, kind, jti)
        /\ UNCHANGED <<tokens, clock, ended, raced, token>>
    BY <1>13 DEF TokenDead, RevokeFails, StatementFails
  <2> QED
    BY <1>2, <2>1
<1>14. ASSUME NEW p \in Procs,
              \/ TokenGood(p) \/ MarkRefreshUsed(p) \/ Rotate(p) \/ RevokeFamily(p)
       PROVE  History'
  BY <1>14, HistoryJudges, HistoryMarks, HistoryRotates, HistoryRevokes
<1>15. CASE UNCHANGED vars
  BY <1>3, <1>15 DEF vars
<1> QED
  BY <1>4, <1>5, <1>6, <1>7, <1>8, <1>9, <1>10, <1>11, <1>12, <1>13, <1>14, <1>15
  DEF Next, Flow, Work

(* What the theorems below rest on.                                        *)
THEOREM Invariance == Spec => [](Typing /\ History)
<1>1. Init => Typing /\ History
  BY TypingInit, HistoryInit
<1>2. Typing /\ History /\ [Next]_vars => (Typing /\ History)'
  BY TypingStep, HistoryStep
<1> QED
  BY <1>1, <1>2, PTL DEF Spec

(* Every row, request and reply keeps its range; a handler at work has a   *)
(* flow that waits for its reply (Refresh, Logout and rotate of service.go *)
(* against authed and refresh of http.ts).                                 *)
THEOREM TypeCorrect == Spec => []TypeOK
<1>1. Typing /\ History => TypeOK
  <2> SUFFICES ASSUME Typing, History PROVE TypeOK
    OBVIOUS
  <2> DEFINE n == Len(tokens)
             R == [family : 1 .. n, parent : 0 .. n, used : BOOLEAN, revoked : BOOLEAN,
                   issued : 0 .. clock, origin : 0 .. clock, checked : 0 .. clock]
  <2>1. n \in Nat /\ clock \in Nat /\ tokens \in [1 .. n -> Rows]
    BY DEF Typing, Ranges
  <2>2. ASSUME NEW t \in 1 .. n PROVE tokens[t] \in R
    <3>1. tokens[t] \in Rows
      BY <2>1
    <3>2. Rooted(t) /\ Rooted(Family(t))
      BY <2>1 DEF History, Tree, Rooted
    <3>3. /\ tokens[t].family \in 1 .. n /\ tokens[t].parent \in 0 .. n
          /\ tokens[t].issued \in 0 .. clock /\ tokens[t].checked \in 0 .. clock
      BY <2>1, <3>1, <3>2 DEF Rooted, Family, Rows
    <3>4. tokens[t].origin \in 0 .. clock
      BY <2>1, <3>1, <3>2 DEF Rooted, Family, Rows
    <3> QED
      BY <3>1, <3>3, <3>4 DEF Rows
  <2>3. tokens \in [1 .. n -> R]
    BY <2>1, <2>2
  <2>4. tokens \in Seq(R)
    <3> HIDE DEF R
    <3> QED
      BY <2>1, <2>3
  <2>5. ServerTypeOK
    BY <2>4 DEF ServerTypeOK, Typing, Ranges, Serving
  <2>6. current \subseteq DOMAIN tokens
    BY <2>1 DEF Typing, Ranges
  <2> QED
    BY <2>5, <2>6 DEF TypeOK, Typing, Ranges, Serving, Waiting
<1> QED
  BY <1>1, Invariance, PTL

(* MarkRefreshUsed before the insert of rotate: whoever presents a token   *)
(* again after its child was handed out finds it used, and without two     *)
(* requests of the family in flight at once no token has two children.     *)
THEOREM SecondUsesAreDetected == Spec => []SecondUseIsDetected
<1>1. Typing /\ History => SecondUseIsDetected
  <2> SUFFICES ASSUME Typing, History, NEW t \in DOMAIN tokens
               PROVE  /\ Children(t) # {} => tokens[t].used
                      /\ tokens[t].family \notin raced => Cardinality(Children(t)) <= 1
    BY DEF SecondUseIsDetected
  <2>1. DOMAIN tokens = 1 .. Len(tokens) /\ t # 0
    BY DEF Typing, Ranges
  <2>2. Children(t) # {} => tokens[t].used
    BY <2>1 DEF Children, History, Lineage
  <2>3. ASSUME tokens[t].family \notin raced PROVE Cardinality(Children(t)) <= 1
    <3>1. \A c, d \in Children(t) : c = d
      BY <2>1, <2>3 DEF Children, History, Lineage, Family
    <3>2. CASE Children(t) = {}
      <4>1. Cardinality(Children(t)) = 0
        BY <3>2, FS_EmptySet
      <4> QED
        BY <4>1
    <3>3. ASSUME NEW c \in Children(t) PROVE Cardinality(Children(t)) <= 1
      <4>1. Children(t) = {c}
        BY <3>1, <3>3
      <4> QED
        <5>1. Cardinality(Children(t)) = 1
          BY <4>1, FS_Singleton
        <5> QED
          BY <5>1
    <3> QED
      BY <3>2, <3>3
  <2> QED
    BY <2>2, <2>3
<1> QED
  BY <1>1, Invariance, PTL

(* However often it is rotated, a session is not renewed later than        *)
(* RefreshTTL after its sign-in: rotate carries origin over to the child.  *)
THEOREM WindowIsAbsolute == Spec => []AbsoluteWindow
<1>1. Typing /\ History => AbsoluteWindow
  <2>1. Typing => DOMAIN tokens = 1 .. Len(tokens)
    BY DEF Typing, Ranges
  <2> QED
    BY <2>1 DEF History, Tree, Rooted, Family, AbsoluteWindow
<1> QED
  BY <1>1, Invariance, PTL

(* A family revoked by a reuse, an expiry or a logout stays revoked: the   *)
(* only child that can join it is that of a request in flight at the time. *)
THEOREM RevocationIsFinal == Spec => []RevokedForGood
<1>1. Typing /\ History => RevokedForGood
  <2>1. Typing => DOMAIN tokens = 1 .. Len(tokens)
    BY DEF Typing, Ranges
  <2> QED
    BY <2>1 DEF History, Lineage, Family, RevokedForGood
<1> QED
  BY <1>1, Invariance, PTL

-------------------------------------------------------------------------------
(* Why a request fails: what holds as long as nothing excuses a failure.   *)
Spent(t) == Outlived(t) \/ WindowsPassed(t)
Late == clock > IdleTimeout \/ clock >= RefreshTTL
Clean == faults = 0 /\ ~loggedOut /\ raced = {}

(* Each family has at most one request in flight.                          *)
Alone ==
    \A p, q \in Procs : p # q /\ ~Free(p) /\ ~Free(q) => Family(token[p]) # Family(token[q])

(* A refresh presents a live token, and is refused only for its windows;   *)
(* what it is answered with is live, and the retry's access token is good. *)
Call(f) ==
    /\ flow[f] \notin {"leaving", "left"}
    /\ ~Free(f) => token[f] # 0
    /\ place[f] # "idle" => flow[f] = "refreshing"
    /\ place[f] = "read" => Live(token[f])
    /\ place[f] = "revoke" => Spent(token[f]) /\ why[f] # "none"
    /\ reply[f] # NoReply /\ reply[f].jti = 0 =>
          flow[f] = "refreshing" /\ Spent(token[f])
    /\ reply[f].jti # 0 => Live(reply[f].jti) /\ Family(reply[f].jti) = Family(token[f])
    /\ flow[f] = "refused" => token[f] # 0 /\ Spent(token[f])
    /\ flow[f] \in {"refreshed", "resent"} => carried[f] \in current

(* The browser's cookie can be refreshed, or its family's reply is coming. *)
CookieServes ==
    cookie # 0 /\ ~Live(cookie) =>
       \E q \in Procs : ~Free(q) /\ Family(token[q]) = Family(cookie)

(* Whoever signed in has a cookie until the session's windows are over.    *)
Started == {"signed", "sent", "unauthorized", "refreshing", "refreshed", "resent", "refused"}
CookieStays ==
    signedIn \/ (\E f \in Procs : flow[f] \in Started) => cookie # 0 \/ Late

Steady ==
    Clean => Alone /\ (\A f \in Procs : Call(f)) /\ CookieServes /\ CookieStays

LEMMA SteadyInit == Init => Steady
BY DEF Init, ServerInit, Steady, Alone, Call, CookieServes, CookieStays, Free, NoReply,
       Started

(* Rows stay where they are; only the request of p takes life from them.   *)
Extends ==
    /\ Len(tokens) <= Len(tokens')
    /\ \A t \in 1 .. Len(tokens) : /\ tokens'[t].family = tokens[t].family
                                   /\ tokens'[t].issued = tokens[t].issued
                                   /\ tokens'[t].origin = tokens[t].origin

Hurts(p) ==
    \A t \in 1 .. Len(tokens) :
       Live(t) => \/ ~tokens'[t].revoked /\ ~tokens'[t].used
                  \/ place[p] # "idle" /\ tokens[t].family = tokens[token[p]].family

LEMMA SpentIsLate ==
    ASSUME Typing, NEW t \in 1 .. Len(tokens), Spent(t) PROVE Late
<1>1. tokens[t].issued \in Nat /\ tokens[t].origin \in Nat /\ clock \in Nat
  BY RowTypes DEF Typing, Ranges
<1> QED
  BY <1>1, WindowsAssumption, SMTT(30) DEF Spent, Outlived, WindowsPassed, Late

LEMMA SpentForGood ==
    ASSUME Typing, Extends, clock' \in Nat, clock <= clock',
           NEW t \in 1 .. Len(tokens), Spent(t)
    PROVE  Spent(t)'
<1>1. /\ tokens[t].issued \in Nat /\ tokens[t].origin \in Nat /\ clock \in Nat
      /\ tokens'[t].issued = tokens[t].issued /\ tokens'[t].origin = tokens[t].origin
  BY RowTypes DEF Typing, Ranges, Extends
<1> QED
  BY <1>1, WindowsAssumption DEF Spent, Outlived, WindowsPassed

LEMMA InFlight ==
    ASSUME Typing, Steady, Clean, NEW q \in Procs
    PROVE  /\ ~Free(q) => token[q] \in 1 .. Len(tokens)
           /\ place[q] # "idle" => ~Free(q)
           /\ reply[q].jti \in 0 .. Len(tokens)
           /\ reply[q].jti # 0 => ~Free(q)
           /\ flow[q] = "refused" => token[q] \in 1 .. Len(tokens)
<1>1. Call(q)
  BY DEF Steady
<1>2. token[q] \in 0 .. Len(tokens) /\ reply[q].jti \in 0 .. Len(tokens)
      /\ Len(tokens) \in Nat
  BY DEF Typing, Ranges
<1> QED
  BY <1>1, <1>2 DEF Call, Free, NoReply

LEMMA SteadyMoves ==
    ASSUME Typing, Steady, Clean, Extends, clock' \in Nat, clock <= clock',
           NEW p \in Procs, Hurts(p),
           \A q \in Procs \ {p} :
              /\ place'[q] = place[q] /\ token'[q] = token[q] /\ reply'[q] = reply[q]
              /\ flow'[q] = flow[q] /\ carried'[q] = carried[q] /\ why'[q] = why[q],
           current \subseteq current',
           Call(p)',
           Free(p)' \/ \A q \in Procs \ {p} :
              ~Free(q) => Family(token[q]) # tokens'[token'[p]].family,
           \/ cookie' = cookie /\ (Free(p) \/ (~Free(p)' /\ token'[p] = token[p]))
           \/ cookie' # 0 => ~tokens'[cookie'].revoked /\ ~tokens'[cookie'].used,
           signedIn' \/ flow'[p] \in Started =>
              signedIn \/ flow[p] \in Started \/ cookie' # 0,
           cookie' = 0 => cookie = 0 \/ Late
    PROVE  Steady'
<1> DEFINE n == Len(tokens)
<1>1. n \in Nat /\ clock \in Nat /\ cookie \in 0 .. n
  BY DEF Typing, Ranges
<1>2. \A q \in Procs : Call(q)
  BY DEF Steady
<1>3. ASSUME NEW q \in Procs, q # p, ~Free(q)
      PROVE  /\ ~Free(q)' /\ token'[q] = token[q] /\ token[q] \in 1 .. n
             /\ Family(token[q])' = Family(token[q])
             /\ \A t \in 1 .. n : Live(t) /\ Family(t) = Family(token[q]) => Live(t)'
             /\ place[p] # "idle" => Family(token[p]) # Family(token[q])
  <2>1. ~Free(q)' /\ token'[q] = token[q]
    BY <1>3 DEF Free
  <2>2. token[q] \in 1 .. n
    BY <1>3, InFlight
  <2>3. Family(token[q])' = Family(token[q])
    BY <2>1, <2>2 DEF Family, Extends
  <2>4. place[p] # "idle" => Family(token[p]) # Family(token[q])
    BY <1>3 DEF Steady, Alone, Free
  <2>5. ASSUME NEW t \in 1 .. n, Live(t), Family(t) = Family(token[q]) PROVE Live(t)'
    BY <2>4, <2>5 DEF Hurts, Family, Live
  <2> QED
    BY <2>1, <2>2, <2>3, <2>4, <2>5
<1>4. ASSUME NEW q \in Procs, q # p PROVE Call(q)'
  <2>1. /\ place'[q] = place[q] /\ token'[q] = token[q] /\ reply'[q] = reply[q]
        /\ flow'[q] = flow[q] /\ carried'[q] = carried[q] /\ Call(q) /\ why'[q] = why[q]
        /\ Free(q)' = Free(q)
    BY <1>2, <1>4 DEF Free
  <2>2. place[q] = "read" => Live(token[q])'
    <3>1. ASSUME place[q] = "read" PROVE Live(token[q])'
      <4>1. ~Free(q) /\ Live(token[q])
        BY <2>1, <3>1 DEF Call, Free
      <4>2. tokens'[token[q]] = tokens'[token'[q]]
        BY <2>1
      <4> QED
        BY <1>3, <1>4, <2>1, <4>1, <4>2 DEF Live
    <3> QED
      BY <3>1
  <2>3. ASSUME NEW t \in 1 .. n, t = token[q], Spent(t) PROVE Spent(token[q])'
    <3>1. Spent(t)' /\ token'[q] = t
      BY <2>1, <2>3, SpentForGood
    <3> QED
      BY <3>1 DEF Spent, Outlived, WindowsPassed
  <2>4. place[q] = "revoke" => Spent(token[q])' /\ why'[q] # "none"
    BY <2>1, <2>3, InFlight DEF Call
  <2>5. reply[q] # NoReply /\ reply[q].jti = 0 => Spent(token[q])'
    <3>1. reply[q] # NoReply => ~Free(q)
      BY DEF Free
    <3> QED
      BY <2>1, <2>3, <3>1, InFlight DEF Call
  <2>6. flow[q] = "refused" => Spent(token[q])'
    BY <2>1, <2>3, InFlight DEF Call
  <2>7. ASSUME reply[q].jti # 0
        PROVE  Live(reply[q].jti)' /\ Family(reply[q].jti)' = Family(token[q])'
    <3>1. /\ ~Free(q) /\ reply[q].jti \in 1 .. n /\ reply'[q].jti = reply[q].jti
          /\ Live(reply[q].jti) /\ Family(reply[q].jti) = Family(token[q])
      BY <1>1, <2>1, <2>7, InFlight DEF Call
    <3>2. ASSUME NEW t \in 1 .. n, t = reply[q].jti
          PROVE  Live(t)' /\ tokens'[t].family = Family(token[q])'
      BY <1>3, <1>4, <3>1, <3>2 DEF Extends, Family
    <3> QED
      BY <3>1, <3>2 DEF Live, Family
  <2>8. flow[q] \in {"refreshed", "resent"} => carried'[q] \in current'
    BY <2>1 DEF Call
  <2> QED
    BY <2>1, <2>2, <2>4, <2>5, <2>6, <2>7, <2>8 DEF Call
<1>5. Alone'
  <2> SUFFICES ASSUME NEW q \in Procs, NEW u \in Procs, q # u, ~Free(q)', ~Free(u)'
               PROVE  Family(token[q])' # Family(token[u])'
    BY DEF Alone
  <2>1. \A x \in Procs : x # p => Free(x)' = Free(x)
    BY DEF Free
  <2>2. ASSUME NEW x \in Procs, x # p, ~Free(x)', ~Free(p)'
        PROVE  Family(token[x])' # Family(token[p])'
    <3>1. Family(token[x])' = Family(token[x]) /\ ~Free(x)
      BY <1>3, <2>1, <2>2
    <3>2. Family(token[x]) # tokens'[token'[p]].family
      BY <2>2, <3>1
    <3> QED
      BY <3>1, <3>2 DEF Family
  <2>3. CASE q # p /\ u # p
    BY <1>3, <2>1, <2>3 DEF Steady, Alone
  <2> QED
    BY <2>2, <2>3
<1>6. CookieServes'
  <2>1. CASE cookie' # 0 => ~tokens'[cookie'].revoked /\ ~tokens'[cookie'].used
    BY <2>1 DEF CookieServes, Live
  <2>2. CASE cookie' = cookie /\ (Free(p) \/ (~Free(p)' /\ token'[p] = token[p]))
    <3> SUFFICES ASSUME cookie # 0, ~(~tokens'[cookie].revoked /\ ~tokens'[cookie].used)
                 PROVE  \E q \in Procs : ~Free(q)' /\ Family(token[q])' = Family(cookie)'
      BY <2>2 DEF CookieServes, Live
    <3>1. cookie \in 1 .. n /\ Family(cookie)' = Family(cookie)
      BY <1>1, <2>2 DEF Extends, Family
    <3>2. ASSUME ~Free(p), Family(token[p]) = Family(cookie)
          PROVE  ~Free(p)' /\ Family(token[p])' = Family(cookie)'
      BY <2>2, <3>1, <3>2, InFlight DEF Extends, Family
    <3>3. CASE Live(cookie)
      <4>1. place[p] # "idle" /\ Family(token[p]) = Family(cookie)
        BY <3>1, <3>3 DEF Hurts, Family
      <4> QED
        BY <3>2, <4>1 DEF Free
    <3>4. CASE ~Live(cookie)
      <4>1. PICK q \in Procs : ~Free(q) /\ Family(token[q]) = Family(cookie)
        BY <3>4 DEF Steady, CookieServes
      <4> QED
        BY <1>3, <3>1, <3>2, <4>1
    <3> QED
      BY <3>3, <3>4
  <2> QED
    BY <2>1, <2>2
<1>7. CookieStays'
  <2>1. Late => Late'
    BY <1>1, WindowsAssumption DEF Late
  <2>2. signedIn' \/ (\E f \in Procs : flow'[f] \in Started)
           => signedIn \/ (\E f \in Procs : flow[f] \in Started) \/ cookie' # 0
    OBVIOUS
  <2> QED
    BY <2>1, <2>2 DEF Steady, CookieStays
<1> QED
  BY <1>4, <1>5, <1>6, <1>7 DEF Steady

(* Nothing was excusable before, either.                                   *)
LEMMA CleanBefore == Typing /\ [Next]_vars /\ Clean' => Clean
<1> SUFFICES ASSUME Typing, [Next]_vars, Clean' PROVE Clean
  OBVIOUS
<1>1. faults \in Nat /\ loggedOut \in BOOLEAN
  BY DEF Typing, Ranges
<1>2. (faults' = faults \/ faults' = faults + 1) /\ (loggedOut => loggedOut')
      /\ raced \subseteq raced'
  <2>1. ASSUME NEW f \in Procs, Flow(f)
        PROVE  (faults' = faults \/ faults' = faults + 1) /\ (loggedOut => loggedOut')
               /\ raced \subseteq raced'
    BY <2>1
    DEF Flow, LogIn, SignIn, LogOut, Logout, LogoutOutlived, LogoutNoCookie, Send,
        Granted, Unauthorized, RetryDenied, StartRefresh, Refresh, Serve, NoCookie,
        RefreshThrottled, LogoutThrottled, ReplyArrives, SignedIn, Refreshed,
        RefreshRefused, LoggedOut, ReplyLost, Acknowledge, Finish, Fault, serverVars
  <2>2. ASSUME NEW p \in Procs, Work(p), UNCHANGED clientVars
        PROVE  (faults' = faults \/ faults' = faults + 1) /\ (loggedOut => loggedOut')
               /\ raced \subseteq raced'
    BY <2>2
    DEF Work, TokenDead, TokenReused, SessionExpired, TokenGood, MarkRefreshUsed,
        Rotate, RevokeFamily, RevokeFails, StatementFails, Fault, clientVars
  <2>3. CASE Tick /\ UNCHANGED clientVars
    BY <2>3 DEF Tick, clientVars
  <2>4. CASE AccessExpires
    BY <2>4 DEF AccessExpires, Fault
  <2>5. CASE UNCHANGED vars
    BY <2>5 DEF vars
  <2> QED
    BY <2>1, <2>2, <2>3, <2>4, <2>5 DEF Next
<1> QED
  BY <1>1, <1>2 DEF Clean

LEMMA Unfaulty == ASSUME Typing, Clean, Clean' PROVE ~Fault
BY DEF Typing, Ranges, Clean, Fault

(* The rows of a step that leaves them alone.                              *)
LEMMA SameRows ==
    ASSUME Typing, UNCHANGED <<tokens, clock>>
    PROVE  /\ Extends /\ clock' \in Nat /\ clock <= clock'
           /\ \A p \in Procs : Hurts(p)
           /\ \A t : (Live(t) => ~tokens'[t].revoked /\ ~tokens'[t].used)
BY DEF Typing, Ranges, Extends, Hurts, Live

(* A flow that has no request in flight moves on by itself.                *)
LEMMA FlowMoves ==
    ASSUME Typing, Steady, Clean, NEW f \in Procs, NEW where \in FlowPlaces \ Waiting,
           flow[f] \notin Waiting,
           UNCHANGED <<tokens, clock, place, why, reply, cookie, current>>,
           flow' = [flow EXCEPT ![f] = where],
           \A q \in Procs \ {f} : token'[q] = token[q] /\ carried'[q] = carried[q],
           where \notin {"left", "refused"},
           where \in {"refreshed", "resent"} => carried'[f] \in current,
           signedIn' \/ where \in Started => signedIn \/ flow[f] \in Started
    PROVE  Steady'
<1>1. Free(f) /\ Free(f)'
  BY DEF Typing, Serving, Free
<1>2. place[f] = "idle" /\ reply[f] = NoReply /\ flow'[f] = where
  BY <1>1 DEF Free, Typing, Ranges
<1>3. Call(f)'
  BY <1>1, <1>2 DEF Call, NoReply, Waiting
<1>4. \A q \in Procs \ {f} : flow'[q] = flow[q] /\ why'[q] = why[q]
  OBVIOUS
<1> QED
  BY <1>1, <1>2, <1>3, <1>4, SameRows, SteadyMoves

(* A request of one family at a time reaches the server.                   *)
LEMMA SteadyServes ==
    ASSUME Typing, Steady, Clean, Clean', NEW f \in Procs, StartRefresh(f) PROVE Steady'
<1>1. /\ UNCHANGED <<tokens, clock, reply, cookie, current, carried, signedIn>>
      /\ place' = [place EXCEPT ![f] = "read"] /\ token' = [token EXCEPT ![f] = cookie]
      /\ why' = [why EXCEPT ![f] = "none"]
      /\ flow' = [flow EXCEPT ![f] = "refreshing"] /\ flow[f] = "unauthorized"
      /\ Free(f)
  BY DEF StartRefresh, Refresh, Serve, Goto, Step
<1>2. cookie \in 1 .. Len(tokens)
  BY DEF StartRefresh, Typing, Ranges
<1>3. ASSUME NEW q \in Procs \ {f}, ~Free(q) PROVE Family(token[q]) # Family(cookie)
  <2>1. token[q] # 0
    BY <1>3, InFlight
  <2>2. Family(token[q]) \in Busy(f)
    BY <1>3, <2>1 DEF Busy, Family
  <2>3. Family(cookie) \notin Busy(f)
    BY DEF Clean, StartRefresh, Refresh, Serve, Family
  <2> QED
    BY <2>2, <2>3
<1>4. Live(cookie)
  <2> SUFFICES ASSUME ~Live(cookie) PROVE FALSE
    OBVIOUS
  <2>1. PICK q \in Procs : ~Free(q) /\ Family(token[q]) = Family(cookie)
    BY <1>2 DEF Steady, CookieServes
  <2> QED
    BY <1>1, <1>3, <2>1
<1>5. /\ place'[f] = "read" /\ token'[f] = cookie /\ flow'[f] = "refreshing"
      /\ reply'[f] = NoReply
  BY <1>1 DEF Typing, Ranges, Free
<1>6. Call(f)'
  BY <1>1, <1>2, <1>4, <1>5 DEF Call, Live, NoReply
<1>7. \A q \in Procs \ {f} : Family(token[q]) # Family(cookie) \/ Free(q)
  BY <1>3
<1>8. tokens'[token'[f]].family = Family(cookie)
  BY <1>1, <1>5 DEF Family
<1>9. signedIn' \/ flow'[f] \in Started => signedIn \/ flow[f] \in Started \/ cookie' # 0
  BY <1>1, <1>2
<1>10. \A q \in Procs \ {f} :
          /\ place'[q] = place[q] /\ token'[q] = token[q] /\ reply'[q] = reply[q]
          /\ flow'[q] = flow[q] /\ carried'[q] = carried[q] /\ why'[q] = why[q]
  BY <1>1
<1> QED
  BY <1>1, <1>6, <1>7, <1>8, <1>9, <1>10, SameRows, SteadyMoves

(* The reply arrives: a live cookie, or none once the windows are over.    *)
LEMMA SteadyArrives ==
    ASSUME Typing, Steady, Clean, NEW f \in Procs, ReplyArrives(f) PROVE Steady'
<1> DEFINE j == reply[f].jti
<1>1. /\ UNCHANGED <<tokens, clock, place, token, why, signedIn>>
      /\ cookie' = j /\ reply' = [reply EXCEPT ![f] = NoReply]
      /\ carried' = [carried EXCEPT ![f] = j] /\ current' = current \cup ({j} \ {0})
      /\ reply[f] # NoReply /\ flow[f] \in Waiting
  BY DEF ReplyArrives, Waiting
<1>2. Call(f) /\ ~Free(f) /\ j \in 0 .. Len(tokens) /\ token[f] \in 1 .. Len(tokens)
  <2>1. ~Free(f)
    BY <1>1 DEF Free
  <2> QED
    BY <2>1, InFlight DEF Steady
<1>3. reply'[f] = NoReply /\ carried'[f] = j /\ place'[f] = "idle" /\ token'[f] = token[f]
  BY <1>1 DEF Typing, Ranges, Serving
<1>4. /\ j # 0 => flow'[f] \in {"signed", "refreshed"}
      /\ j = 0 => flow'[f] = "refused" /\ Spent(token[f])
  <2>1. flow[f] \in {"signing", "refreshing"}
    BY <1>1, <1>2 DEF Call, Waiting
  <2>2. flow'[f] = IF flow[f] = "signing" THEN "signed"
                   ELSE IF j # 0 THEN "refreshed" ELSE "refused"
    <3>1. flow[f] = "signing" => flow'[f] = "signed"
      BY DEF ReplyArrives, Step, Typing, Ranges
    <3>2. flow[f] = "refreshing" /\ j # 0 => flow'[f] = "refreshed"
      BY DEF ReplyArrives, Step, Typing, Ranges
    <3>3. flow[f] = "refreshing" /\ j = 0 => flow'[f] = "refused"
      BY DEF ReplyArrives, Step, Typing, Ranges
    <3> QED
      BY <2>1, <3>1, <3>2, <3>3
  <2> QED
    BY <1>1, <1>2, <2>1, <2>2 DEF Call
<1>5. Spent(token[f]) => Late /\ Spent(token[f])'
  <2>1. Spent(token[f]) => Late
    BY <1>2, SpentIsLate
  <2>2. Spent(token[f]) => Spent(token[f])'
    BY <1>1, <1>3 DEF Spent, Outlived, WindowsPassed
  <2> QED
    BY <2>1, <2>2
<1>6. Call(f)'
  BY <1>1, <1>2, <1>3, <1>4, <1>5 DEF Call, NoReply, Free
<1>7. Free(f)'
  BY <1>3 DEF Free
<1>8. \A q \in Procs \ {f} :
         /\ place'[q] = place[q] /\ token'[q] = token[q] /\ reply'[q] = reply[q]
         /\ flow'[q] = flow[q] /\ carried'[q] = carried[q] /\ why'[q] = why[q]
  BY <1>1 DEF ReplyArrives, Step
<1>9. cookie' # 0 => Live(j)
  BY <1>1, <1>2 DEF Call
<1>10. cookie' = 0 => Late
  BY <1>1, <1>4, <1>5
<1>11. signedIn' \/ flow'[f] \in Started => signedIn \/ flow[f] \in Started \/ cookie' # 0
  <2>1. j = 0 => flow[f] = "refreshing"
    BY <1>1, <1>2 DEF Call
  <2> QED
    BY <1>1, <2>1 DEF Started
<1> HIDE DEF j
<1>12. current \subseteq current'
  BY <1>1
<1> QED
  BY <1>1, <1>6, <1>7, <1>8, <1>9, <1>10, <1>11, <1>12, SameRows, SteadyMoves

LEMMA SteadySignsIn ==
    ASSUME Typing, History, Steady, Clean, NEW f \in Procs, LogIn(f) PROVE Steady'
<1> DEFINE n == Len(tokens)
           row == [family |-> n + 1, parent |-> 0, used |-> FALSE, revoked |-> FALSE,
                   issued |-> clock, origin |-> clock, checked |-> clock]
<1>1. /\ UNCHANGED <<clock, cookie, current, signedIn, carried>> /\ Free(f)
      /\ tokens' = Append(tokens, row) /\ token' = [token EXCEPT ![f] = n + 1]
      /\ place' = [place EXCEPT ![f] = "idle"] /\ why' = [why EXCEPT ![f] = "none"]
      /\ reply' = [reply EXCEPT ![f] = [kind |-> "session", jti |-> n + 1]]
      /\ flow' = [flow EXCEPT ![f] = "signing"]
  BY DEF LogIn, SignIn, Answer, Goto, Step
<1>2. n \in Nat /\ clock \in Nat
  BY DEF Typing, Ranges
<1>3. row \in Rows
  BY <1>2 DEF Rows
<1>4. /\ Len(tokens') = n + 1 /\ \A t \in 1 .. n : tokens'[t] = tokens[t]
      /\ tokens'[n + 1] = row
  BY <1>1, <1>3, RowAdded DEF Typing
<1>5. Extends /\ Hurts(f)
  BY <1>2, <1>4 DEF Extends, Hurts, Live
<1>6. /\ token'[f] = n + 1 /\ place'[f] = "idle" /\ flow'[f] = "signing"
      /\ reply'[f] = [kind |-> "session", jti |-> n + 1]
  BY <1>1 DEF Typing, Ranges
<1>7. ASSUME NEW m \in Nat, m = n + 1 PROVE Live(m)' /\ m # 0
  BY <1>2, <1>4, <1>7 DEF Live
<1>8. Call(f)'
  <2> DEFINE m == n + 1
  <2>1. m \in Nat /\ m # 0
    BY <1>2
  <2>2. ~tokens'[m].revoked /\ ~tokens'[m].used
    BY <1>4
  <2>3. token'[f] = m /\ reply'[f].jti = m
    BY <1>6
  <2> HIDE DEF m
  <2> QED
    BY <1>6, <2>1, <2>2, <2>3 DEF Call, Live, Family, NoReply
<1>9. ASSUME NEW q \in Procs \ {f}, ~Free(q)
      PROVE  Family(token[q]) # tokens'[token'[f]].family
  <2>1. token[q] \in 1 .. n
    BY <1>9, InFlight
  <2>2. Family(token[q]) \in 1 .. n
    BY <1>2, <2>1 DEF History, Tree, Rooted
  <2> QED
    BY <1>2, <1>4, <1>6, <2>2
<1>10. \A q \in Procs \ {f} :
          /\ place'[q] = place[q] /\ token'[q] = token[q] /\ reply'[q] = reply[q]
          /\ flow'[q] = flow[q] /\ carried'[q] = carried[q] /\ why'[q] = why[q]
  BY <1>1
<1>11. signedIn' \/ flow'[f] \in Started => signedIn \/ flow[f] \in Started \/ cookie' # 0
  BY <1>1, <1>6 DEF Started
<1>12. \A q \in Procs \ {f} : ~Free(q) => Family(token[q]) # tokens'[token'[f]].family
  BY <1>9
<1>13. clock' \in Nat /\ clock <= clock'
  BY <1>1, <1>2
<1> QED
  BY <1>1, <1>5, <1>8, <1>10, <1>11, <1>12, <1>13, SteadyMoves

(* A handler at work goes on with the token it was given.                  *)
LEMMA WorkMoves ==
    ASSUME Typing, Steady, Clean, NEW p \in Procs, place[p] # "idle",
           Extends, Hurts(p), Call(p)', ~Free(p)',
           UNCHANGED <<clock, token, cookie, flow, carried, current, signedIn>>,
           \A q \in Procs \ {p} :
              place'[q] = place[q] /\ reply'[q] = reply[q] /\ why'[q] = why[q]
    PROVE  Steady'
<1>1. ~Free(p) /\ token[p] \in 1 .. Len(tokens) /\ clock' \in Nat /\ clock <= clock'
  BY InFlight, AtWork DEF Free, Typing, Ranges
<1>2. tokens'[token'[p]].family = Family(token[p])
  BY <1>1 DEF Extends, Family
<1>3. \A q \in Procs \ {p} : ~Free(q) => Family(token[q]) # tokens'[token'[p]].family
  BY <1>1, <1>2 DEF Steady, Alone
<1>4. \A q \in Procs \ {p} :
         /\ place'[q] = place[q] /\ token'[q] = token[q] /\ reply'[q] = reply[q]
         /\ flow'[q] = flow[q] /\ carried'[q] = carried[q] /\ why'[q] = why[q]
  OBVIOUS
<1> QED
  BY <1>1, <1>3, <1>4, SteadyMoves

LEMMA CallAtWork ==
    ASSUME NEW p \in Procs, flow'[p] = "refreshing", token'[p] # 0, NEW kind,
           \/ place'[p] \in {"mark", "insert"} /\ reply'[p] = NoReply
           \/ /\ place'[p] = "revoke" /\ reply'[p] = NoReply
              /\ Spent(token[p])' /\ why'[p] # "none"
           \/ /\ place'[p] = "idle" /\ reply'[p] = [kind |-> kind, jti |-> 0]
              /\ kind # "none" /\ Spent(token[p])'
    PROVE  Call(p)' /\ ~Free(p)'
<1>1. CASE place'[p] # "idle" /\ reply'[p] = NoReply
  BY <1>1 DEF Call, Free, NoReply
<1>2. CASE place'[p] = "idle" /\ reply'[p] = [kind |-> kind, jti |-> 0] /\ kind # "none"
  <2>1. reply'[p] # NoReply /\ reply'[p].jti = 0
    BY <1>2 DEF NoReply
  <2> QED
    BY <1>2, <2>1 DEF Call, Free
<1> QED
  BY <1>1, <1>2

LEMMA SteadyWorks ==
    ASSUME Typing, History, Steady, Clean, Clean', NEW p \in Procs, Work(p),
           UNCHANGED clientVars
    PROVE  Steady'
<1>1. place[p] # "idle"
  BY DEF Work, TokenDead, TokenReused, SessionExpired, TokenGood, Alive,
         MarkRefreshUsed, Rotate, RevokeFamily, RevokeFails, StatementFails
<1>2. /\ Call(p) /\ flow[p] = "refreshing" /\ token[p] \in 1 .. Len(tokens)
      /\ reply[p] = NoReply
  BY <1>1, AtWork DEF Steady, Call, Typing, Serving
<1>3. UNCHANGED <<cookie, flow, carried, current, signedIn, clock, token>>
  BY DEF clientVars, Work, TokenDead, TokenReused, SessionExpired, TokenGood,
         MarkRefreshUsed, Rotate, RevokeFamily, RevokeFails, StatementFails
<1>4. ASSUME NEW kind, NEW jti, Answer(p, kind, jti)
      PROVE  /\ \A q \in Procs \ {p} :
                   place'[q] = place[q] /\ reply'[q] = reply[q] /\ why'[q] = why[q]
             /\ place'[p] = "idle" /\ reply'[p] = [kind |-> kind, jti |-> jti]
  BY <1>4 DEF Answer, Goto, Typing, Ranges
<1>5. ASSUME NEW where, NEW reason, Goto(p, where), reply' = reply,
             why' = [why EXCEPT ![p] = reason]
      PROVE  /\ \A q \in Procs \ {p} :
                   place'[q] = place[q] /\ reply'[q] = reply[q] /\ why'[q] = why[q]
             /\ place'[p] = where /\ reply'[p] = NoReply /\ why'[p] = reason
  BY <1>2, <1>5 DEF Goto, Typing, Ranges
<1>14. [why EXCEPT ![p] = why[p]] = why
  BY DEF Typing, Ranges
<1>16. token'[p] # 0 /\ flow'[p] = "refreshing"
  BY <1>2, <1>3
<1>15. ASSUME UNCHANGED tokens PROVE Extends /\ Hurts(p)
  BY <1>3, <1>15, SameRows
<1>6. CASE TokenDead(p)
  <2>1. place[p] = "read" /\ Live(token[p])
    BY <1>2, <1>6 DEF TokenDead, Call
  <2>2. Outlived(token[p])
    BY <1>6, <2>1 DEF TokenDead, Live
  <2>3. Spent(token[p])'
    BY <1>3, <1>6, <2>2 DEF TokenDead, Spent, Outlived
  <2>4. Answer(p, "expired", 0)
    BY <1>6, <2>2 DEF TokenDead
  <2>5. Extends /\ Hurts(p)
    BY <1>6, <1>15 DEF TokenDead
  <2>6. Call(p)' /\ ~Free(p)'
    <3>1. reply'[p] = [kind |-> "expired", jti |-> 0] /\ place'[p] = "idle"
      BY <1>4, <2>4
    <3> QED
      BY <1>16, <2>3, <3>1, CallAtWork
  <2> QED
    BY <1>1, <1>3, <1>4, <2>4, <2>5, <2>6, WorkMoves
<1>7. CASE TokenReused(p)
  BY <1>2, <1>7 DEF TokenReused, Alive, Call, Live
<1>8. CASE SessionExpired(p)
  <2>1. /\ Goto(p, "revoke") /\ UNCHANGED <<tokens, reply>>
        /\ why' = [why EXCEPT ![p] = "expired"]
        /\ Spent(token[p])'
    BY <1>3, <1>8 DEF SessionExpired, Spent, WindowsPassed, Outlived
  <2>2. Call(p)' /\ ~Free(p)'
    BY <1>5, <1>16, <2>1, CallAtWork, ZenonT(30)
  <2> QED
    BY <1>1, <1>3, <1>5, <1>15, <2>1, <2>2, WorkMoves
<1>9. CASE TokenGood(p)
  <2>1. Goto(p, "mark") /\ UNCHANGED <<tokens, reply, why>>
    BY <1>9 DEF TokenGood
  <2>2. Call(p)' /\ ~Free(p)'
    BY <1>5, <1>14, <1>16, <2>1, CallAtWork
  <2> QED
    BY <1>1, <1>3, <1>5, <1>14, <1>15, <2>1, <2>2, WorkMoves
<1>10. CASE MarkRefreshUsed(p)
  <2>1. Goto(p, "insert") /\ UNCHANGED <<reply, why>>
    BY <1>10 DEF MarkRefreshUsed
  <2>2. /\ Len(tokens') = Len(tokens)
        /\ \A t \in 1 .. Len(tokens) :
              tokens'[t] = [tokens[t] EXCEPT !.used = (t = token[p] \/ tokens[t].used)]
    BY <1>2, <1>10, RowUsed DEF MarkRefreshUsed, Typing
  <2>3. ASSUME NEW t \in 1 .. Len(tokens)
        PROVE  /\ tokens'[t].family = tokens[t].family
               /\ tokens'[t].issued = tokens[t].issued
               /\ tokens'[t].origin = tokens[t].origin
               /\ tokens'[t].revoked = tokens[t].revoked
               /\ tokens'[t].used => tokens[t].used \/ t = token[p]
    <3>1. tokens[t] \in Rows
      BY DEF Typing, Ranges
    <3> QED
      BY <2>2, <3>1 DEF Rows
  <2>4. Extends /\ Hurts(p)
    <3>1. Len(tokens) <= Len(tokens')
      BY <2>2 DEF Typing, Ranges
    <3> QED
      BY <1>1, <2>3, <3>1 DEF Extends, Hurts, Live
  <2>5. Call(p)' /\ ~Free(p)'
    BY <1>5, <1>14, <1>16, <2>1, CallAtWork
  <2> QED
    BY <1>1, <1>3, <1>5, <1>14, <2>1, <2>4, <2>5, WorkMoves
<1>11. CASE Rotate(p)
  <2> DEFINE m == Len(tokens) + 1
  <2>1. Answer(p, "session", m) /\ tokens' = Append(tokens, Child(p))
    BY <1>11 DEF Rotate
  <2>2. Child(p) \in Rows
    <3>1. checked[p] \in Nat /\ clock \in Nat /\ token[p] \in Nat
      BY <1>2 DEF Typing, Ranges
    <3> QED
      BY <1>2, <3>1, RowTypes DEF Child, Rows, Typing
  <2>3. /\ Len(tokens') = m /\ m \in Nat /\ m # 0 /\ Len(tokens) <= m
        /\ \A t \in 1 .. Len(tokens) : tokens'[t] = tokens[t]
        /\ tokens'[m] = Child(p)
    BY <2>1, <2>2, RowAdded DEF Typing
  <2> HIDE DEF m
  <2>4. Extends /\ Hurts(p)
    BY <2>3 DEF Extends, Hurts, Live
  <2>5. reply'[p] = [kind |-> "session", jti |-> m] /\ place'[p] = "idle"
    BY <1>4, <2>1
  <2>6. ~tokens'[m].revoked /\ ~tokens'[m].used /\ tokens'[m].family = Family(token[p])
    BY <2>3 DEF Child, Family
  <2>7. tokens'[token'[p]].family = Family(token[p])
    BY <1>2, <1>3, <2>3 DEF Family
  <2>8. Call(p)' /\ ~Free(p)'
    BY <1>2, <1>3, <2>3, <2>5, <2>6, <2>7 DEF Call, Free, NoReply, Live, Family
  <2> QED
    BY <1>1, <1>3, <1>4, <2>1, <2>4, <2>8, WorkMoves
<1>12. CASE RevokeFamily(p)
  <2>1. Answer(p, why[p], 0) /\ why[p] # "none" /\ Spent(token[p])
    BY <1>2, <1>12 DEF RevokeFamily, Call
  <2>2. /\ Len(tokens') = Len(tokens)
        /\ \A t \in 1 .. Len(tokens) :
              tokens'[t] = [tokens[t] EXCEPT
                 !.revoked = (tokens[t].family = Family(token[p]) \/ tokens[t].revoked)]
    BY <1>12, RowsRevoked DEF RevokeFamily, Revoked, Family, Typing
  <2>3. ASSUME NEW t \in 1 .. Len(tokens)
        PROVE  /\ tokens'[t].family = tokens[t].family
               /\ tokens'[t].issued = tokens[t].issued
               /\ tokens'[t].origin = tokens[t].origin
               /\ tokens'[t].used = tokens[t].used
               /\ tokens'[t].revoked
                     => tokens[t].revoked \/ tokens[t].family = Family(token[p])
    <3>1. tokens[t] \in Rows
      BY DEF Typing, Ranges
    <3> QED
      BY <2>2, <3>1 DEF Rows
  <2>4. Extends /\ Hurts(p)
    <3>1. Len(tokens) <= Len(tokens')
      BY <2>2 DEF Typing, Ranges
    <3> QED
      BY <1>1, <2>3, <3>1 DEF Extends, Hurts, Live, Family
  <2>5. Spent(token[p])'
    BY <1>2, <1>3, <2>1, <2>3 DEF Spent, Outlived, WindowsPassed
  <2>6. Call(p)' /\ ~Free(p)'
    <3>1. reply'[p] = [kind |-> why[p], jti |-> 0] /\ place'[p] = "idle"
      BY <1>4, <2>1
    <3> QED
      BY <1>16, <2>1, <2>5, <3>1, CallAtWork
  <2> QED
    BY <1>1, <1>3, <1>4, <2>1, <2>4, <2>6, WorkMoves
<1>13. CASE RevokeFails(p) \/ StatementFails(p)
  BY <1>13, Unfaulty DEF RevokeFails, StatementFails
<1> QED
  BY <1>6, <1>7, <1>8, <1>9, <1>10, <1>11, <1>12, <1>13 DEF Work

(* Nothing moves but the clock, or an access token no retry waits for.     *)
LEMMA SteadyPasses ==
    ASSUME Typing, Steady, Clean, clock' \in {clock, clock + 1},
           UNCHANGED <<tokens, place, why, token, reply, flow, carried, cookie, signedIn>>,
           \A f \in Procs : flow[f] \in {"refreshed", "resent"} =>
              (carried[f] \in current => carried[f] \in current')
    PROVE  Steady'
<1>1. clock \in Nat /\ clock' \in Nat /\ clock <= clock'
  BY DEF Typing, Ranges
<1>2. Extends
  BY DEF Extends, Typing, Ranges
<1>3. ASSUME NEW f \in Procs PROVE Call(f)'
  <2>1. Call(f)
    BY DEF Steady
  <2>2. ~Free(f) \/ flow[f] = "refused" => (Spent(token[f]) => Spent(token[f])')
    <3>1. ASSUME NEW t \in 1 .. Len(tokens), t = token[f], Spent(t) PROVE Spent(token[f])'
      BY <1>1, <1>2, <3>1, SpentForGood DEF Spent, Outlived, WindowsPassed
    <3> QED
      BY <3>1, InFlight
  <2>3. (place[f] # "idle" \/ reply[f] # NoReply) => ~Free(f)
    BY DEF Free
  <2>4. Free(f)' = Free(f) /\ (Live(token[f]) => Live(token[f])')
        /\ (Live(reply[f].jti) => Live(reply[f].jti)')
        /\ Family(reply[f].jti)' = Family(reply[f].jti)
        /\ Family(token[f])' = Family(token[f])
    BY DEF Free, Live, Family
  <2> QED
    BY <2>1, <2>2, <2>3, <2>4 DEF Call
<1>4. Alone'
  BY DEF Steady, Alone, Free, Family
<1>5. CookieServes'
  BY DEF Steady, CookieServes, Free, Family, Live
<1>6. CookieStays'
  <2>1. Late => Late'
    BY <1>1, WindowsAssumption DEF Late
  <2> QED
    BY <2>1 DEF Steady, CookieStays
<1> QED
  BY <1>3, <1>4, <1>5, <1>6 DEF Steady

LEMMA SteadyStep == Typing /\ History /\ Steady /\ [Next]_vars => Steady'
<1> SUFFICES ASSUME Typing, History, Steady, [Next]_vars, Clean' PROVE Steady'
  BY DEF Steady
<1>0. Clean
  BY CleanBefore
<1>1. \A f \in Procs : Call(f)
  BY <1>0 DEF Steady
<1>2. ASSUME NEW f \in Procs, LogIn(f) PROVE Steady'
  BY <1>0, <1>2, SteadySignsIn
<1>3. ASSUME NEW f \in Procs, LogOut(f) \/ LogoutThrottled(f) PROVE FALSE
  BY <1>3 DEF LogOut, LogoutThrottled, Clean
<1>4. ASSUME NEW f \in Procs, RefreshThrottled(f) \/ ReplyLost(f) PROVE FALSE
  BY <1>0, <1>4, Unfaulty DEF RefreshThrottled, ReplyLost
<1>5. ASSUME NEW f \in Procs, LoggedOut(f) PROVE FALSE
  BY <1>1, <1>5 DEF LoggedOut, Call
<1>6. ASSUME NEW f \in Procs, StartRefresh(f) PROVE Steady'
  BY <1>0, <1>6, SteadyServes
<1>7. ASSUME NEW f \in Procs, ReplyArrives(f) PROVE Steady'
  BY <1>0, <1>7, SteadyArrives
<1> DEFINE Alike(f) == \A q \in Procs \ {f} : token'[q] = token[q] /\ carried'[q] = carried[q]
<1>8. ASSUME NEW f \in Procs,
             Send(f) \/ Unauthorized(f) \/ RetryDenied(f) \/ NoCookie(f) \/ RefreshRefused(f)
      PROVE  Steady'
  <2>1. /\ flow[f] \in {"idle", "sent", "resent", "unauthorized", "refused"}
        /\ Alike(f) /\ UNCHANGED <<tokens, clock, place, why, reply, cookie, current, signedIn>>
    <3>1. CASE Send(f)
      BY <3>1 DEF Send, serverVars, Alike
    <3>2. CASE Unauthorized(f)
      BY <3>2 DEF Unauthorized, serverVars, Alike
    <3>3. CASE RetryDenied(f)
      BY <3>3 DEF RetryDenied, serverVars, Alike
    <3>4. CASE NoCookie(f)
      BY <3>4 DEF NoCookie, serverVars, Alike
    <3>5. CASE RefreshRefused(f)
      BY <3>5 DEF RefreshRefused, serverVars, Alike
    <3> QED
      BY <1>8, <3>1, <3>2, <3>3, <3>4, <3>5
  <2>2. PICK where \in {"sent", "unauthorized", "failed"} :
           /\ Step(f, where)
           /\ where \in Started => signedIn \/ flow[f] \in Started
    BY <1>8 DEF Send, Unauthorized, RetryDenied, NoCookie, RefreshRefused, Started
  <2>3. /\ where \in FlowPlaces \ Waiting /\ flow[f] \notin Waiting
        /\ where \notin {"left", "refused"} /\ where \notin {"refreshed", "resent"}
    BY <2>1, <2>2 DEF FlowPlaces, Waiting
  <2> QED
    BY <1>0, <2>1, <2>2, <2>3, FlowMoves DEF Step
<1>9. ASSUME NEW f \in Procs, Granted(f) \/ SignedIn(f) \/ Acknowledge(f) PROVE Steady'
  <2>1. /\ flow[f] \in {"sent", "resent", "signed", "failed"} /\ Finish(f)
        /\ UNCHANGED <<cookie, current>>
        /\ (signedIn' => signedIn \/ flow[f] \in Started)
    <3>1. CASE Granted(f)
      BY <3>1 DEF Granted
    <3>2. CASE SignedIn(f)
      BY <3>2 DEF SignedIn, Started
    <3>3. CASE Acknowledge(f)
      BY <3>3 DEF Acknowledge
    <3> QED
      BY <1>9, <3>1, <3>2, <3>3
  <2>2. Alike(f) /\ UNCHANGED <<tokens, clock, place, why, reply>> /\ Step(f, "idle")
    BY <2>1 DEF Finish
  <2>3. "idle" \in FlowPlaces \ Waiting /\ flow[f] \notin Waiting /\ "idle" \notin Started
    BY <2>1 DEF FlowPlaces, Waiting, Started
  <2> QED
    BY <1>0, <2>1, <2>2, <2>3, FlowMoves DEF Step
<1>10. ASSUME NEW f \in Procs, Refreshed(f) PROVE Steady'
  <2>1. /\ flow[f] = "refreshed" /\ Step(f, "resent") /\ Alike(f)
        /\ carried' = [carried EXCEPT ![f] = carried[f]]
        /\ UNCHANGED <<tokens, clock, place, why, reply, cookie, current, signedIn>>
    BY <1>10 DEF Refreshed, KeepToken, serverVars
  <2>2. carried'[f] \in current
    BY <1>1, <2>1 DEF Call, Typing, Ranges
  <2>3. "resent" \in FlowPlaces \ Waiting /\ flow[f] \notin Waiting /\ flow[f] \in Started
    BY <2>1 DEF FlowPlaces, Waiting, Started
  <2> QED
    BY <1>0, <2>1, <2>2, <2>3, FlowMoves DEF Step
<1>11. CASE AccessExpires
  <2>1. \A f \in Procs : ~BetweenRefreshAndRetry(f)
    BY <1>0, <1>11, Unfaulty DEF AccessExpires
  <2>2. \A f \in Procs : flow[f] \notin {"refreshed", "resent"}
    BY <2>1 DEF BetweenRefreshAndRetry
  <2> QED
    BY <1>0, <1>11, <2>2, SteadyPasses DEF AccessExpires
<1>12. ASSUME NEW p \in Procs, Work(p), UNCHANGED clientVars PROVE Steady'
  BY <1>0, <1>12, SteadyWorks
<1>13. ASSUME Tick, UNCHANGED clientVars PROVE Steady'
  BY <1>0, <1>13, SteadyPasses DEF Tick, clientVars
<1>14. CASE UNCHANGED vars
  BY <1>0, <1>14, SteadyPasses DEF vars
<1> QED
  BY <1>2, <1>3, <1>4, <1>5, <1>6, <1>7, <1>8, <1>9, <1>10, <1>11, <1>12, <1>13, <1>14
  DEF Next, Flow

LEMMA FailingIsDue ==
    Typing /\ Steady /\ [Next]_vars
       => \A f \in Procs : Fails(f) => Excused(f)' \/ raced' # {}
<1> SUFFICES ASSUME Typing, Steady, [Next]_vars, NEW g \in Procs, Fails(g),
                    ~loggedOut', ~(faults' > 0), ~Lapsed(g)', raced' = {}
             PROVE  FALSE
  BY DEF Excused
<1>0. Clean' /\ Clean
  <2>1. faults \in Nat /\ faults' \in Nat
    BY RangesStep DEF Typing, Ranges
  <2>2. Clean'
    BY <2>1 DEF Clean
  <2> QED
    BY <2>2, CleanBefore
<1>1. flow[g] # "failed" /\ flow'[g] = "failed" /\ Call(g)
  BY <1>0 DEF Fails, Steady
<1>2. ASSUME NEW f \in Procs, Flow(f) PROVE f = g /\ flow' = [flow EXCEPT ![f] = "failed"]
  <2>1. PICK where \in FlowPlaces : Step(f, where) \/ flow' = flow
    <3>1. ASSUME ReplyArrives(f) PROVE \E where \in FlowPlaces : Step(f, where)
      <4>1. flow[f] \in Waiting
        BY <3>1 DEF ReplyArrives, Waiting
      <4> QED
        BY <3>1, <4>1 DEF ReplyArrives, FlowPlaces, Waiting
    <3> QED
      BY <1>2, <3>1
      DEF Flow, LogIn, LogOut, Send, Granted, Unauthorized, RetryDenied, StartRefresh,
          NoCookie, RefreshThrottled, LogoutThrottled, SignedIn, Refreshed,
          RefreshRefused, LoggedOut, ReplyLost, Acknowledge, Finish, FlowPlaces, Waiting
  <2> QED
    BY <1>1, <2>1 DEF Step, Typing, Ranges
<1>3. ASSUME NEW f \in Procs, RetryDenied(f) PROVE FALSE
  BY <1>0, <1>3 DEF RetryDenied, Steady, Call
<1>4. ASSUME NEW f \in Procs, NoCookie(f) PROVE FALSE
  <2>1. Late /\ cookie' = 0 /\ clock' = clock
    BY <1>0, <1>4 DEF NoCookie, Steady, CookieStays, Started, serverVars
  <2> QED
    BY <2>1 DEF Late, Lapsed
<1>5. ASSUME NEW f \in Procs, RefreshThrottled(f) \/ ReplyLost(f) PROVE FALSE
  BY <1>0, <1>5, Unfaulty DEF RefreshThrottled, ReplyLost
<1>6. ASSUME NEW f \in Procs, RefreshRefused(f) PROVE FALSE
  <2>1. f = g
    BY <1>2, <1>6 DEF Flow
  <2>2. token[g] # 0 /\ Spent(token[g]) /\ UNCHANGED <<tokens, token, clock>>
    BY <1>1, <1>6, <2>1 DEF RefreshRefused, Call, serverVars
  <2> QED
    BY <2>2 DEF Spent, Lapsed, Outlived, WindowsPassed
<1>7. ASSUME NEW f \in Procs, Flow(f),
             ~(RetryDenied(f) \/ NoCookie(f) \/ RefreshThrottled(f) \/ RefreshRefused(f)
               \/ ReplyLost(f))
      PROVE  FALSE
  <2>1. f = g /\ flow'[f] = "failed" /\ flow[f] # "failed"
    BY <1>1, <1>2, <1>7
  <2>2. CASE ReplyArrives(f)
    <3>1. flow'[f] # "failed"
      <4>1. flow' = [flow EXCEPT ![f] = flow'[f]] /\ flow[f] \in Waiting
        BY <2>2 DEF ReplyArrives, Step, Typing, Ranges, Waiting
      <4> QED
        BY <2>2, <4>1 DEF ReplyArrives, Step, Typing, Ranges, Waiting
    <3> QED
      BY <2>1, <3>1
  <2>3. CASE LogIn(f) \/ LogOut(f) \/ StartRefresh(f) \/ Refreshed(f) \/ Send(f)
             \/ Unauthorized(f)
    BY <2>1, <2>3
    DEF LogIn, LogOut, StartRefresh, Refreshed, Send, Unauthorized, Step, Typing, Ranges
  <2>4. CASE LogoutThrottled(f)
    BY <2>1, <2>4 DEF LogoutThrottled
  <2>5. CASE Granted(f) \/ SignedIn(f) \/ LoggedOut(f) \/ Acknowledge(f)
    BY <2>1, <2>5 DEF Granted, SignedIn, LoggedOut, Acknowledge, Finish, Step, Typing, Ranges
  <2> QED
    BY <1>7, <2>2, <2>3, <2>4, <2>5 DEF Flow
<1>8. flow' # flow
  BY <1>1
<1>9. ~(\E f \in Procs : Flow(f)) => flow' = flow
  BY DEF Next, AccessExpires, vars, clientVars
<1> QED
  BY <1>3, <1>4, <1>5, <1>6, <1>7, <1>8, <1>9

(* authed and refresh of http.ts over Refresh and rotate of service.go: a  *)
(* request that finds its access token expired is answered after one       *)
(* refresh, whatever the other flows of the page do, unless something      *)
(* broke, the windows passed, the user left or two refreshes were raced.   *)
THEOREM FailuresAreDue == Spec => FailureIsDue
<1>1. Init => Typing /\ History /\ Steady
  BY TypingInit, HistoryInit, SteadyInit
<1>2. Typing /\ History /\ Steady /\ [Next]_vars => (Typing /\ History /\ Steady)'
  BY TypingStep, HistoryStep, SteadyStep
<1>3. Typing /\ Steady /\ [Next]_vars
         => [\A f \in Procs : Fails(f) => Excused(f)' \/ raced' # {}]_vars
  BY FailingIsDue
<1> QED
  BY <1>1, <1>2, <1>3, PTL DEF Spec, FailureIsDue
==============================================================================
