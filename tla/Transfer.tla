------------------------------- MODULE Transfer -------------------------------
(***************************************************************************)
(* The transfer service of backend/internal/transfer: concurrent HTTP      *)
(* handlers that resolve the recipient, read the sender's balance, read    *)
(* what he spent in the day and in the month, and only then call           *)
(* Engine.Post.  Every read is a statement of its own, outside the         *)
(* posting's transaction.  The ledger is module AbstractLedger, which the  *)
(* engine implements (see Ledger); a wallet is named by its user, in one   *)
(* currency.  Time is counted in UTC days.  The read models of             *)
(* backend/internal/wallet are operators over the same ledger.             *)
(***************************************************************************)
EXTENDS AbstractLedger

CONSTANTS
    Calls,          \* the API calls: [op, from, to, amount, currency, key]
    Supported,      \* the currencies of package money
    Verified,       \* the users whose phone is verified
    Level,          \* each user's kyc_level, which no code changes
    LimitsByLevel,  \* the table of package kyc: level -> [daily, monthly]
    External,       \* the account SYSTEM:EXTERNAL:<currency>
    DaysPerMonth, LastDay,   \* bound: the calendar of a behaviour
    MaxCalls,       \* bound: API calls in a behaviour
    Overlap         \* whether two calls of one sender may be in flight

ASSUME CalendarAssumption == DaysPerMonth \in Nat \ {0} /\ LastDay \in Nat
ASSUME LimitsAssumption ==
    /\ Level \in [Wallets -> Int]
    /\ LimitsByLevel \in [DOMAIN LimitsByLevel ->
                             [daily : 0 .. Half - 1, monthly : 0 .. Half - 1]]
    /\ 0 \in DOMAIN LimitsByLevel
    /\ \A l \in DOMAIN LimitsByLevel :
          /\ LimitsByLevel[0].daily <= LimitsByLevel[l].daily
          /\ LimitsByLevel[0].monthly <= LimitsByLevel[l].monthly
(* A sender is the user signed in; a top-up is credited to that user.     *)
ASSUME CallsAssumption ==
    /\ External \notin Wallets /\ None \notin Calls
    /\ \A c \in Calls :
          /\ c.amount \in Int64
          /\ \/ c.op = "p2p" /\ c.from \in Wallets
             \/ c.op = "topup" /\ c.from = External /\ c.to \in Wallets

VARIABLES
    created,              \* created_at of each posting, beside journal
    clock,                \* the day, for the application and the database
    place, call, outcome, \* each handler: where it is, what it serves, its reply
    today, began,         \* its s.now() and the day its posting may begin
    received              \* what the bound MaxCalls counts

ledgerVars == <<journal, balance, status, req, posting, answer>>
handlerVars == <<place, call, outcome, today, began, received>>
allVars == <<journal, balance, status, req, posting, answer, created, clock,
             place, call, outcome, today, began, received>>

StartOfMonth(day) == day - (day % DaysPerMonth)

(* The PostingInput of a call: two legs of the same amount. *)
Leg(c, acc, dir) ==
    [account |-> acc, direction |-> dir, amount |-> c.amount, currency |-> c.currency]
PostingInput(c) ==
    [key |-> c.key, entries |-> <<Leg(c, c.from, "debit"), Leg(c, c.to, "credit")>>]

(* What the user's wallet was debited in the postings made since a day. *)
Debited(r, u) ==
    SumFunction([i \in {j \in DOMAIN r.entries : /\ r.entries[j].account = u
                                                 /\ r.entries[j].direction = "debit"}
                   |-> r.entries[i].amount])
OutgoingSince(u, day) ==
    SumFunction([i \in {j \in DOMAIN journal : created[j] >= day}
                   |-> Debited(journal[i], u)])

(* GET /wallets shows the cached balance, GET /transactions the entries of *)
(* the user's wallet (the newest fifty; all of them here).                 *)
Balances(u) == balance[u]
Kind(e) == IF e.direction = "credit" THEN "in" ELSE "out"
Line(i, kind, n) == [posting |-> i, kind |-> kind, amount |-> n]
EntriesOf(r, u) == {e \in Range(r.entries) : e.account = u}
Transactions(u) ==
    UNION {{Line(i, Kind(e), e.amount) : e \in EntriesOf(journal[i], u)} : i \in DOMAIN journal}

ServiceInit ==
    /\ Init
    /\ created = <<>>
    /\ clock = 0
    /\ place = [p \in Procs |-> "idle"]
    /\ call = [p \in Procs |-> None]
    /\ outcome = [p \in Procs |-> "none"]
    /\ today = [p \in Procs |-> 0]
    /\ began = [p \in Procs |-> 0]
    /\ received = 0

-------------------------------------------------------------------------------
(* The handler up to Engine.Post.                                          *)

Goto(p, where) == place' = [place EXCEPT ![p] = where]

(* The handler returns, and its locals are gone. *)
Respond(p, result) ==
    /\ Goto(p, "idle")
    /\ outcome' = [outcome EXCEPT ![p] = result]
    /\ today' = [today EXCEPT ![p] = 0]
    /\ began' = [began EXCEPT ![p] = 0]

(* With Overlap, nothing stops a sender from having two calls in flight. *)
MayStart(c) ==
    \/ Overlap
    \/ c.op = "topup"
    \/ \A q \in Procs : place[q] # "idle" => call[q].from # c.from

(* What Transfer, TransferToUser and execute refuse before any read of     *)
(* the sender: the amount, the recipient's existence and verification.     *)
Refused(c) ==
    \/ c.amount <= 0
    \/ c.currency \notin Supported
    \/ c.op = "p2p" /\ (c.to \notin Verified \/ c.to = c.from)

Receive(p, c) ==
    /\ place[p] = "idle" /\ received < MaxCalls
    /\ MayStart(c)
    /\ ~Refused(c)
    /\ received' = received + 1
    /\ call' = [call EXCEPT ![p] = c]
    /\ outcome' = [outcome EXCEPT ![p] = "none"]
    /\ Goto(p, IF c.op = "topup" THEN "engine" ELSE "balance")
    /\ UNCHANGED <<ledgerVars, created, clock, today, began>>

Refuse(p, c) ==
    /\ place[p] = "idle" /\ received < MaxCalls
    /\ Refused(c)
    /\ received' = received + 1
    /\ call' = [call EXCEPT ![p] = None]
    /\ Respond(p, "invalid")
    /\ UNCHANGED <<ledgerVars, created, clock>>

(* Mutation of CanPay: any money at all is enough.                         *)
MutCanPay(c) == balance[c.from] > 0

(* WalletBalanceMinor reads the cached balance, 0 when there is no wallet. *)
CanPay(c) == balance[c.from] >= c.amount

FundsSuffice(p) ==
    /\ place[p] = "balance"
    /\ CanPay(call[p])
    /\ Goto(p, "limits")
    /\ UNCHANGED <<ledgerVars, created, clock, call, outcome, today, began, received>>

InsufficientFunds(p) ==
    /\ place[p] = "balance"
    /\ ~CanPay(call[p])
    /\ Respond(p, "insufficient")
    /\ UNCHANGED <<ledgerVars, created, clock, call, received>>

(* checkLimits takes the day and the month from one reading of the clock. *)
ReadClock(p) ==
    /\ place[p] = "limits"
    /\ today' = [today EXCEPT ![p] = clock]
    /\ Goto(p, "day")
    /\ UNCHANGED <<ledgerVars, created, clock, call, outcome, began, received>>

(* LimitsFor: an unknown level gets the limits of level 0. *)
LimitsFor(u) == LimitsByLevel[IF Level[u] \in DOMAIN LimitsByLevel THEN Level[u] ELSE 0]

(* daySum + amountMinor and monthSum + amountMinor are int64 additions. *)
DayTotal(p) == Wrap(OutgoingSince(call[p].from, today[p]) + call[p].amount)

(* Mutation of MonthTotal: the month is taken from the day.                *)
MutMonthTotal(p) == Wrap(OutgoingSince(call[p].from, today[p]) + call[p].amount)

MonthTotal(p) ==
    Wrap(OutgoingSince(call[p].from, StartOfMonth(today[p])) + call[p].amount)

WithinDaily(p) ==
    /\ place[p] = "day"
    /\ DayTotal(p) <= LimitsFor(call[p].from).daily
    /\ Goto(p, "month")
    /\ UNCHANGED <<ledgerVars, created, clock, call, outcome, today, began, received>>

WithinMonthly(p) ==
    /\ place[p] = "month"
    /\ MonthTotal(p) <= LimitsFor(call[p].from).monthly
    /\ Goto(p, "engine")
    /\ UNCHANGED <<ledgerVars, created, clock, call, outcome, today, began, received>>

LimitExceeded(p) ==
    /\ \/ place[p] = "day" /\ DayTotal(p) > LimitsFor(call[p].from).daily
       \/ place[p] = "month" /\ MonthTotal(p) > LimitsFor(call[p].from).monthly
    /\ Respond(p, "limit")
    /\ UNCHANGED <<ledgerVars, created, clock, call, received>>

ReadFails(p) ==
    /\ place[p] \in {"balance", "limits", "day", "month"}
    /\ Respond(p, "error")
    /\ UNCHANGED <<ledgerVars, created, clock, call, received>>

-------------------------------------------------------------------------------
(* Engine.Post, and what its result becomes.                               *)

CallEngine(p) ==
    /\ place[p] = "engine"
    /\ Call(p, PostingInput(call[p]))
    /\ began' = [began EXCEPT ![p] = clock]
    /\ Goto(p, "posting")
    /\ UNCHANGED <<created, clock, call, outcome, today, received>>

(* created_at is now() of the posting's transaction: the day it began.     *)
EngineRecords(p) ==
    /\ Record(p)
    /\ \E day \in began[p] .. clock : created' = Append(created, day)
    /\ UNCHANGED <<clock, handlerVars>>

EngineAnswers(p) ==
    /\ AnswerPosted(p) \/ AnswerReplayed(p) \/ AnswerFailed(p)
    /\ UNCHANGED <<created, clock, handlerVars>>

(* Mutation of Succeed: the error of Engine.Post is ignored.               *)
MutSucceed(p) ==
    /\ place[p] = "posting" /\ status[p] = "idle"
    /\ Respond(p, "ok")
    /\ UNCHANGED <<ledgerVars, created, clock, call, received>>

Succeed(p) ==
    /\ place[p] = "posting" /\ status[p] = "idle"
    /\ answer[p] \in {"posted", "replayed"}
    /\ Respond(p, "ok")
    /\ UNCHANGED <<ledgerVars, created, clock, call, received>>

EngineFailed(p) ==
    /\ place[p] = "posting" /\ status[p] = "idle"
    /\ answer[p] = "failed"
    /\ Respond(p, "error")
    /\ UNCHANGED <<ledgerVars, created, clock, call, received>>

NextDay ==
    /\ clock < LastDay
    /\ clock' = clock + 1
    /\ UNCHANGED <<ledgerVars, created, handlerVars>>

(* Mutation of ServerCrash: the engine goes on for a handler that is gone. *)
MutServerCrash ==
    /\ place' = [p \in Procs |-> "idle"]
    /\ outcome' = [p \in Procs |-> IF place[p] = "idle" THEN outcome[p] ELSE "none"]
    /\ today' = [p \in Procs |-> 0]
    /\ began' = [p \in Procs |-> 0]
    /\ UNCHANGED <<ledgerVars, created, clock, call, received>>

ServerCrash ==
    /\ Crash
    /\ place' = [p \in Procs |-> "idle"]
    /\ outcome' = [p \in Procs |-> IF place[p] = "idle" THEN outcome[p] ELSE "none"]
    /\ today' = [p \in Procs |-> 0]
    /\ began' = [p \in Procs |-> 0]
    /\ UNCHANGED <<created, clock, call, received>>

Handle(p) ==
    \/ \E c \in Calls : Receive(p, c) \/ Refuse(p, c)
    \/ FundsSuffice(p) \/ InsufficientFunds(p)
    \/ ReadClock(p) \/ WithinDaily(p) \/ WithinMonthly(p) \/ LimitExceeded(p)
    \/ ReadFails(p)
    \/ CallEngine(p) \/ EngineRecords(p) \/ EngineAnswers(p)
    \/ Succeed(p) \/ EngineFailed(p)

ServiceNext == NextDay \/ ServerCrash \/ \E p \in Procs : Handle(p)

ServiceSpec == ServiceInit /\ [][ServiceNext]_allVars

-------------------------------------------------------------------------------
(* Properties.                                                             *)

ServiceTypeOK ==
    /\ journal \in Seq({PostingInput(c) : c \in Calls})
    /\ Len(created) = Len(journal)
    /\ created \in Seq(0 .. clock)
    /\ place \in [Procs -> {"idle", "balance", "limits", "day", "month", "engine",
                            "posting"}]
    /\ outcome \in [Procs -> {"none", "ok", "invalid", "insufficient", "limit",
                              "error"}]
    /\ call \in [Procs -> Calls \cup {None}]
    /\ \A p \in Procs : status[p] # "idle" => place[p] = "posting"

(* "Guarded by a balance check": no sequence of transfers, retries, lost   *)
(* replies and crashes takes a user's wallet below zero.                   *)
NoOverdraft == \A u \in Wallets : balance[u] >= 0

SpentIn(u, days) ==
    SumFunction([i \in {j \in DOMAIN journal : created[j] \in days}
                   |-> Debited(journal[i], u)])

(* "and the sender's KYC spending limits": what the journal says a user    *)
(* spent in a day and in a calendar month, even when the check and the     *)
(* posting are on two days; "an unknown level never grants more access"    *)
(* than any known one.                                                     *)
SpendingCaps ==
    \A u \in Wallets, day \in {created[i] : i \in DOMAIN created} :
       LET first == StartOfMonth(day)
           daily == SpentIn(u, {day})
           monthly == SpentIn(u, first .. first + DaysPerMonth - 1)
       IN \A l \in DOMAIN LimitsByLevel :
             Level[u] = l \/ Level[u] \notin DOMAIN LimitsByLevel =>
                /\ daily <= LimitsByLevel[l].daily
                /\ monthly <= LimitsByLevel[l].monthly

(* A call that was answered "ok" moved exactly the money it asked for, in  *)
(* the posting whose id it returned, whichever attempt recorded it; both   *)
(* parties find it in their history, and every history adds up to the      *)
(* balance that is shown next to it.                                       *)
ReceiptMatches ==
    /\ \A p \in Procs : outcome[p] = "ok" =>
          /\ posting[p] \in DOMAIN journal /\ journal[posting[p]] = PostingInput(call[p])
          /\ Line(posting[p], "in", call[p].amount) \in Transactions(call[p].to)
          /\ call[p].from \in Wallets =>
                Line(posting[p], "out", call[p].amount) \in Transactions(call[p].from)
    /\ \A u \in Wallets :
          Balances(u) = SumFunction([t \in Transactions(u) |->
                                        IF t.kind = "in" THEN t.amount ELSE -t.amount])

(* "idempotencyKey makes retries safe": a call whose posting is already in *)
(* the journal is not refused for lack of the money it has itself moved.   *)
RetryIsSafe ==
    \A p \in Procs : outcome[p] \in {"insufficient", "limit"} =>
       \A i \in DOMAIN journal : journal[i] # PostingInput(call[p])
===============================================================================
