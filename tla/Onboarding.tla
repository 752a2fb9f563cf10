------------------------------ MODULE Onboarding ------------------------------
(***************************************************************************)
(* Sign-up of backend/internal/auth and the one-time codes of              *)
(* backend/internal/otp: Register, ResendCode, VerifyPhone and Login, each *)
(* an HTTP handler that runs one SQL statement after another with no       *)
(* transaction around them, so that any two handlers interleave between    *)
(* statements and any failure leaves the earlier statements done.          *)
(*                                                                         *)
(* The four share one rate limiter, with refresh, logout and every other   *)
(* browser behind the same address.                                        *)
(*                                                                         *)
(* A user's id is its position in users, a challenge's id its position in  *)
(* challenges, both in the order of created_at.                            *)
(***************************************************************************)
EXTENDS RateLimiter, FiniteSetsExt

CONSTANTS
    Procs,         \* the concurrent HTTP handlers
    Phones,        \* the phone numbers
    Codes,         \* the one-time codes
    None,          \* a handler that serves nothing
    MaxAttempts,   \* MaxAttempts of otp.Config
    MaxCalls,      \* bound: API calls in a behaviour
    MaxFaults      \* bound: failed statements, lost replies and crashes

ASSUME ProcsAssumption == IsFiniteSet(Procs)
ASSUME AttemptsAssumption == MaxAttempts \in Nat \ {0}
ASSUME CallBounds == MaxCalls \in Nat /\ MaxFaults \in Nat

VARIABLES
    users,        \* [phone, verified], a row of the table users
    challenges,   \* [phone, code, attempts, consumed, expired, sent], and how
                  \* often its code was missed and used: misses, uses
    sessions,     \* how many sessions each user was issued
    known,        \* ids of users that Register's replies carried to a client
    place, call,  \* each handler: where it is, and what it serves
    seen,         \* the challenge it read or created
    outcome,      \* its reply
    calls, faults \* what the bounds count

vars == <<users, challenges, sessions, known, place, call, seen, outcome, calls,
          faults, limiter>>
tables == <<users, challenges, sessions>>

Idle == [op |-> "none", user |-> 0, phone |-> None, code |-> None]

Init ==
    /\ LimiterInit
    /\ users = <<>>
    /\ challenges = <<>>
    /\ sessions = <<>>
    /\ known = {}
    /\ place = [p \in Procs |-> "idle"]
    /\ call = [p \in Procs |-> Idle]
    /\ seen = [p \in Procs |-> 0]
    /\ outcome = [p \in Procs |-> "none"]
    /\ calls = 0
    /\ faults = 0

-------------------------------------------------------------------------------
Goto(p, where) == place' = [place EXCEPT ![p] = where]

(* The handler writes its reply, and its locals are gone. *)
Respond(p, result) ==
    /\ Goto(p, "idle")
    /\ outcome' = [outcome EXCEPT ![p] = result]
    /\ call' = [call EXCEPT ![p] = Idle]
    /\ seen' = [seen EXCEPT ![p] = 0]

Fault == faults < MaxFaults /\ faults' = faults + 1

Serve(p, c, where) ==
    /\ place[p] = "idle" /\ calls < MaxCalls
    /\ calls' = calls + 1
    /\ \E cl \in Clients : Admit(cl)
    /\ call' = [call EXCEPT ![p] = c]
    /\ outcome' = [outcome EXCEPT ![p] = "none"]
    /\ Goto(p, where)
    /\ UNCHANGED <<tables, known, seen, faults>>

(* 429 before any handler runs. *)
Throttled(p) ==
    /\ place[p] = "idle" /\ calls < MaxCalls
    /\ \E cl \in Clients : Refuse(cl)
    /\ outcome' = [outcome EXCEPT ![p] = "rate_limited"]
    /\ UNCHANGED <<tables, known, place, call, seen, calls, faults>>

(* A refresh, a logout or a stranger's request spends the same budget. *)
Elsewhere(cl) ==
    /\ calls < MaxCalls
    /\ calls' = calls + 1
    /\ Admit(cl)
    /\ UNCHANGED <<tables, known, place, call, seen, outcome, faults>>

-------------------------------------------------------------------------------
(* Register.                                                               *)

Register(p, ph) == Serve(p, [Idle EXCEPT !.op = "register", !.phone = ph], "find")

(* FindByPhoneIndex. *)
PhoneTaken(p) ==
    /\ place[p] = "find"
    /\ \E u \in DOMAIN users : users[u].phone = call[p].phone
    /\ Respond(p, "phone_taken")
    /\ UNCHANGED <<tables, known, calls, faults>>

PhoneAbsent(p) ==
    /\ place[p] = "find"
    /\ \A u \in DOMAIN users : users[u].phone # call[p].phone
    /\ Goto(p, "create")
    /\ UNCHANGED <<tables, known, call, seen, outcome, calls, faults>>

(* Mutation of PhoneIsFree: phone_hmac without its UNIQUE constraint.      *)
MutPhoneIsFree(ph) == TRUE

(* phone_hmac bytea NOT NULL UNIQUE *)
PhoneIsFree(ph) == \A u \in DOMAIN users : users[u].phone # ph

CreateUser(p) ==
    /\ place[p] = "create"
    /\ PhoneIsFree(call[p].phone)
    /\ users' = Append(users, [phone |-> call[p].phone, verified |-> FALSE])
    /\ sessions' = Append(sessions, 0)
    /\ call' = [call EXCEPT ![p].user = Len(users) + 1]
    /\ Goto(p, "save")
    /\ UNCHANGED <<challenges, known, seen, outcome, calls, faults>>

(* The INSERT loses the race: the unique violation is an internal error. *)
CreateRaceLost(p) ==
    /\ place[p] = "create"
    /\ ~PhoneIsFree(call[p].phone)
    /\ Respond(p, "error")
    /\ UNCHANGED <<tables, known, calls, faults>>

-------------------------------------------------------------------------------
(* otp.Issue, for Register and ResendCode.                                 *)

Resend(p, u) ==
    Serve(p, [Idle EXCEPT !.op = "resend", !.user = u, !.phone = users[u].phone], "save")

(* Mutation of SaveChallenge: the INSERT does nothing, and says nothing.    *)
MutSaveChallenge(p, code) ==
    /\ place[p] = "save"
    /\ seen' = [seen EXCEPT ![p] = Len(challenges) + 1]
    /\ Goto(p, "send")
    /\ UNCHANGED <<tables, known, call, outcome, calls, faults>>

SaveChallenge(p, code) ==
    /\ place[p] = "save"
    /\ challenges' = Append(challenges,
           [phone |-> call[p].phone, code |-> code, attempts |-> 0,
            consumed |-> FALSE, expired |-> FALSE, sent |-> FALSE,
            misses |-> 0, uses |-> 0])
    /\ seen' = [seen EXCEPT ![p] = Len(challenges) + 1]
    /\ Goto(p, "send")
    /\ UNCHANGED <<users, sessions, known, call, outcome, calls, faults>>

SendCode(p) ==
    /\ place[p] = "send"
    /\ challenges' = [challenges EXCEPT ![seen[p]].sent = TRUE]
    /\ Goto(p, "reply")
    /\ UNCHANGED <<users, sessions, known, call, seen, outcome, calls, faults>>

(* Register's reply carries the new user's id to the client. *)
Reply(p) ==
    /\ place[p] = "reply"
    /\ known' = known \cup {call[p].user}
    /\ Respond(p, "ok")
    /\ UNCHANGED <<tables, calls, faults>>

-------------------------------------------------------------------------------
(* VerifyPhone and otp.Verify.                                             *)

Verify(p, u, code) ==
    Serve(p, [op |-> "verify", user |-> u, phone |-> users[u].phone, code |-> code],
          "active")

(* Mutation of Active: the query without consumed_at IS NULL.              *)
MutActive(ph) == Max({0} \cup {c \in DOMAIN challenges : challenges[c].phone = ph})

(* Active: the most recent unconsumed challenge of the phone, 0 if none. *)
Active(ph) ==
    Max({0} \cup {c \in DOMAIN challenges : /\ challenges[c].phone = ph
                                            /\ ~challenges[c].consumed})

(* Mutation of Spent: the attempts are counted and never compared.         *)
MutSpent(c) == challenges[c].expired

(* ErrExpired, ErrTooMany. *)
Spent(c) == challenges[c].expired \/ challenges[c].attempts >= MaxAttempts

Usable(c) == c # 0 /\ ~Spent(c)

NoUsableChallenge(p) ==
    /\ place[p] = "active"
    /\ ~Usable(Active(call[p].phone))
    /\ Respond(p, "invalid")
    /\ UNCHANGED <<tables, known, calls, faults>>

WrongCode(p) ==
    /\ place[p] = "active"
    /\ LET c == Active(call[p].phone)
       IN /\ Usable(c) /\ challenges[c].code # call[p].code
          /\ challenges' = [challenges EXCEPT ![c].misses = @ + 1]
          /\ seen' = [seen EXCEPT ![p] = c]
    /\ Goto(p, "miss")
    /\ UNCHANGED <<users, sessions, known, call, outcome, calls, faults>>

IncrementAttempts(p) ==
    /\ place[p] = "miss"
    /\ challenges' = [challenges EXCEPT ![seen[p]].attempts = @ + 1]
    /\ Respond(p, "invalid")
    /\ UNCHANGED <<users, sessions, known, calls, faults>>

(* The error of IncrementAttempts is dropped. *)
IncrementFails(p) ==
    /\ place[p] = "miss"
    /\ Fault
    /\ Respond(p, "invalid")
    /\ UNCHANGED <<tables, known, calls>>

RightCode(p) ==
    /\ place[p] = "active"
    /\ LET c == Active(call[p].phone)
       IN /\ Usable(c) /\ challenges[c].code = call[p].code
          /\ seen' = [seen EXCEPT ![p] = c]
    /\ Goto(p, "consume")
    /\ UNCHANGED <<tables, known, call, outcome, calls, faults>>

(* The UPDATE does not ask whether consumed_at is still NULL. *)
Consume(p) ==
    /\ place[p] = "consume"
    /\ challenges' = [challenges EXCEPT ![seen[p]].consumed = TRUE,
                                        ![seen[p]].uses = @ + 1]
    /\ Goto(p, "verify")
    /\ UNCHANGED <<users, sessions, known, call, seen, outcome, calls, faults>>

SetPhoneVerified(p) ==
    /\ place[p] = "verify"
    /\ users' = [users EXCEPT ![call[p].user].verified = TRUE]
    /\ Goto(p, "mint")
    /\ UNCHANGED <<challenges, sessions, known, call, seen, outcome, calls, faults>>

(* mintSession: the refresh token is inserted, and the session returned. *)
MintSession(p) ==
    /\ place[p] = "mint"
    /\ sessions' = [sessions EXCEPT ![call[p].user] = @ + 1]
    /\ Respond(p, "session")
    /\ UNCHANGED <<users, challenges, known, calls, faults>>

-------------------------------------------------------------------------------
(* Login: one read, and the checks on what it read.                        *)

Login(p, ph, right) ==
    Serve(p, [Idle EXCEPT !.op = IF right THEN "login" ELSE "mistyped", !.phone = ph],
          "login")

(* Mutation of MayLogIn: the password is enough.                           *)
MutMayLogIn(p, u) == users[u].phone = call[p].phone /\ call[p].op = "login"

MayLogIn(p, u) ==
    users[u].phone = call[p].phone /\ call[p].op = "login" /\ users[u].verified

LoginAccepted(p) ==
    /\ place[p] = "login"
    /\ \E u \in DOMAIN users :
          MayLogIn(p, u) /\ call' = [call EXCEPT ![p].user = u]
    /\ Goto(p, "mint")
    /\ UNCHANGED <<tables, known, seen, outcome, calls, faults>>

LoginRefused(p) ==
    /\ place[p] = "login"
    /\ \A u \in DOMAIN users : ~MayLogIn(p, u)
    /\ Respond(p, IF /\ call[p].op = "login"
                     /\ \E u \in DOMAIN users : users[u].phone = call[p].phone
                  THEN "phone_unverified" ELSE "invalid")
    /\ UNCHANGED <<tables, known, calls, faults>>

-------------------------------------------------------------------------------
(* A statement fails, or the one before it was done and its answer lost:   *)
(* the handler returns the error, and nothing that was done is undone.     *)
(* VerifyPhone reports every error of otp.Verify as an invalid code.       *)
StatementFails(p) ==
    /\ place[p] \notin {"idle", "miss"}
    /\ Fault
    /\ \/ place[p] # "consume" /\ Respond(p, "error")
       \/ place[p] \in {"active", "consume"} /\ Respond(p, "invalid")
    /\ UNCHANGED <<tables, known, calls>>

(* The process dies, and with it the handlers and the limiter's counters.  *)
Crash ==
    /\ Fault
    /\ NewLimiter
    /\ place' = [p \in Procs |-> "idle"]
    /\ call' = [p \in Procs |-> Idle]
    /\ seen' = [p \in Procs |-> 0]
    /\ outcome' = [p \in Procs |-> IF place[p] = "idle" THEN outcome[p] ELSE "none"]
    /\ UNCHANGED <<tables, known, calls>>

(* Five minutes pass after a challenge was issued. *)
Expire(c) ==
    /\ ~challenges[c].expired
    /\ challenges' = [challenges EXCEPT ![c].expired = TRUE]
    /\ UNCHANGED <<users, sessions, known, place, call, seen, outcome, calls, faults>>

Request(p) ==
    \/ Throttled(p)
    \/ \E ph \in Phones : Register(p, ph) \/ \E right \in BOOLEAN : Login(p, ph, right)
    \/ \E u \in known : Resend(p, u) \/ \E code \in Codes : Verify(p, u, code)

Handle(p) ==
    \/ PhoneTaken(p) \/ PhoneAbsent(p) \/ CreateUser(p) \/ CreateRaceLost(p)
    \/ \E code \in Codes : SaveChallenge(p, code)
    \/ SendCode(p) \/ Reply(p)
    \/ NoUsableChallenge(p) \/ WrongCode(p) \/ RightCode(p)
    \/ IncrementAttempts(p) \/ IncrementFails(p)
    \/ Consume(p) \/ SetPhoneVerified(p) \/ MintSession(p)
    \/ LoginAccepted(p) \/ LoginRefused(p)
    \/ StatementFails(p)

Next ==
    \/ \E p \in Procs : Request(p) \/ (Handle(p) /\ UNCHANGED limiter)
    \/ \E cl \in Clients : Elsewhere(cl)
    \/ \E c \in DOMAIN challenges : Expire(c) /\ UNCHANGED limiter
    \/ Tick /\ UNCHANGED <<tables, known, place, call, seen, outcome, calls, faults>>
    \/ Crash

Spec == Init /\ [][Next]_vars

-------------------------------------------------------------------------------
(* Properties.                                                             *)

TypeOK ==
    /\ LimiterTypeOK
    /\ users \in Seq([phone : Phones, verified : BOOLEAN])
    /\ challenges \in Seq([phone : Phones, code : Codes, attempts : Nat,
                           consumed : BOOLEAN, expired : BOOLEAN, sent : BOOLEAN,
                           misses : Nat, uses : Nat])
    /\ sessions \in Seq(Nat) /\ Len(sessions) = Len(users)
    /\ known \subseteq DOMAIN users
    /\ place \in [Procs -> {"idle", "find", "create", "save", "send", "reply",
                            "active", "miss", "consume", "verify", "mint", "login"}]
    /\ \A p \in Procs :
          /\ call[p].user \in {0} \cup DOMAIN users
          /\ place[p] \in {"save", "reply", "verify", "mint"} => call[p].user # 0
          /\ seen[p] \in {0} \cup DOMAIN challenges
          /\ place[p] \in {"send", "miss", "consume"} => seen[p] # 0

(* Two sign-ups with one phone that both find it free leave one user: the  *)
(* UNIQUE constraint settles the race that the check does not.             *)
OneUserPerPhone ==
    \A u, v \in DOMAIN users : users[u].phone = users[v].phone => u = v

(* "no session is issued until the phone is verified", and a phone counts  *)
(* as verified only when a code issued for it was consumed, whatever fails *)
(* or interleaves between the statements of a verification.                *)
NoSessionBeforeVerification ==
    \A u \in DOMAIN users :
       /\ sessions[u] > 0 => users[u].verified
       /\ users[u].verified =>
             \E c \in DOMAIN challenges :
                challenges[c].phone = users[u].phone /\ challenges[c].consumed

(* The handlers that found the code of c right and have yet to mark it.    *)
LetIn(c) == {p \in Procs : place[p] = "consume" /\ seen[p] = c}

(* A code is not quite "single-use": the check of consumed_at and the      *)
(* UPDATE are two statements, and a second call may be let in between.     *)
(* But once a code was used nobody comes in any more, and each further use *)
(* is that of a call that was let in before the first one.                 *)
CodeIsSpent ==
    [][\A c \in DOMAIN challenges : challenges[c].uses > 0 =>
          /\ LetIn(c)' \subseteq LetIn(c)
          /\ challenges'[c].uses + Cardinality(LetIn(c)')
                <= challenges[c].uses + Cardinality(LetIn(c))]_vars

(* "Wrong codes count against MaxAttempts": beyond the limit a challenge   *)
(* compares at most one wrong code more for each other call in flight, and *)
(* each fault loses at most the counts of the calls that were in flight.   *)
GuessesBounded ==
    \A c \in DOMAIN challenges :
       challenges[c].misses < MaxAttempts + (1 + faults) * Cardinality(Procs)

(* The limiter over a run of the process: a client never has more than     *)
(* twice its budget within a window's length, less one, and nobody gets a  *)
(* 429 whose address did not spend the whole budget in the last window.    *)
LimiterIsFair ==
    [][/\ BudgetKept'
       /\ \A p \in Procs :
             outcome'[p] = "rate_limited" /\ outcome[p] # "rate_limited" =>
                \E cl \in Clients : RefusedForCause(cl)]_vars

(* "Register creates a Level 0 user (unverified) and dispatches a phone    *)
(* OTP": once no handler is at work for a user, a code was sent to it.     *)
RegisteredHasCode ==
    \A u \in DOMAIN users :
       \/ \E p \in Procs : place[p] # "idle" /\ call[p].user = u
       \/ \E c \in DOMAIN challenges :
             challenges[c].phone = users[u].phone /\ challenges[c].sent
===============================================================================
