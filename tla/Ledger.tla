-------------------------------- MODULE Ledger --------------------------------
(***************************************************************************)
(* Engine.Post of backend/internal/ledger: concurrent calls that resolve   *)
(* and provision accounts outside a transaction, then try a READ COMMITTED *)
(* transaction up to MaxRetries times, and turn a collision on the         *)
(* idempotency key into a replay of the recorded posting.                  *)
(*                                                                         *)
(* The tables are wallets (which user_wallet rows exist), cached (their    *)
(* cached_balance_minor) and journal (the committed postings, in commit    *)
(* order; a posting's position stands for its id).  What a transaction has *)
(* written and not committed is visible to others only through the locks   *)
(* it holds: rowLock on ledger_accounts rows, and keyLock on the entry of  *)
(* the unique index on idempotency_key.                                    *)
(***************************************************************************)
EXTENDS Posting

CONSTANTS
    Procs,            \* the concurrent calls of Engine.Post (HTTP handlers)
    Keys,             \* idempotency keys
    SystemAccounts,   \* the system accounts the migration created
    Requests,         \* the posting inputs callers may submit
    None,             \* no owner of a lock; no request yet
    MaxRetries,       \* maxRetries of the code
    MaxCalls,         \* bound: calls of Post in a behaviour
    MaxFaults         \* bound: database errors, lost replies and crashes

ASSUME NoneAssumption == None \notin Procs /\ None \notin Requests
ASSUME SystemAssumption == SystemAccounts \cap Wallets = {}
ASSUME RequestsAssumption ==
    \A r \in Requests :
       /\ r.key \in Keys
       /\ Len(r.entries) \in Nat /\ DOMAIN r.entries = 1 .. Len(r.entries)
       /\ \A i \in DOMAIN r.entries : r.entries[i].amount \in Int64
(* The callers of Post (transfer.go 124 and 150) submit two legs of one    *)
(* int64 amount: what a balanced posting does to one wallet fits an int64. *)
ASSUME EffectsAssumption ==
    \A r \in Requests, w \in Wallets : Balanced(r) => Effect(r, w) \in Int64
ASSUME BoundsAssumption ==
    MaxRetries \in Nat \ {0} /\ MaxCalls \in Nat /\ MaxFaults \in Nat

VARIABLES
    wallets, cached, journal,          \* committed tables
    rowLock, keyLock,                  \* locks of open transactions
    pc, req, cursor, todo, attempt,    \* locals of each call
    failure,                           \* why a call's transaction rolls back
    posting, answer,                   \* the posting id and the outcome of a call
    calls, faults                      \* what the bounds count

tables == <<wallets, cached, journal>>
locks == <<rowLock, keyLock>>
vars == <<wallets, cached, journal, rowLock, keyLock, pc, req, cursor, todo,
          attempt, failure, posting, answer, calls, faults>>

(* The places of a call that has a transaction open. *)
InTx == {"lock", "insert", "entries", "update", "commit"}
Places == InTx \cup {"idle", "resolve", "provision", "begin", "rollback",
                     "replay", "backoff", "committed"}

Init ==
    /\ wallets = {}
    /\ cached = [w \in Wallets |-> 0]
    /\ journal = <<>>
    /\ rowLock = [w \in Wallets |-> None]
    /\ keyLock = [k \in Keys |-> None]
    /\ pc = [p \in Procs |-> "idle"]
    /\ req = [p \in Procs |-> None]
    /\ cursor = [p \in Procs |-> 1]
    /\ todo = [p \in Procs |-> {}]
    /\ attempt = [p \in Procs |-> 0]
    /\ failure = [p \in Procs |-> "none"]
    /\ posting = [p \in Procs |-> 0]
    /\ answer = [p \in Procs |-> "none"]
    /\ calls = 0
    /\ faults = 0

-------------------------------------------------------------------------------
(* Helpers.                                                                *)

Recorded(k) == \E i \in DOMAIN journal : journal[i].key = k
(* Mutation of RecordedAt: the SELECT of the replay without its WHERE.     *)
MutRecordedAt(k) == Len(journal)

RecordedAt(k) == CHOOSE i \in DOMAIN journal : journal[i].key = k

Goto(p, place) == pc' = [pc EXCEPT ![p] = place]

(* Post returns to its caller: a posting, a replayed posting or an error.  *)
Return(p, outcome) ==
    /\ Goto(p, "idle")
    /\ answer' = [answer EXCEPT ![p] = outcome]
    /\ cursor' = [cursor EXCEPT ![p] = 1]
    /\ attempt' = [attempt EXCEPT ![p] = 0]
    /\ failure' = [failure EXCEPT ![p] = "none"]

(* Mutation of ReleaseLocks: the deferred Rollback is missing.             *)
MutReleaseLocks(p) == UNCHANGED locks

(* The transaction of p is over: the server drops every lock it held.      *)
ReleaseLocks(p) ==
    /\ rowLock' = [w \in Wallets |-> IF rowLock[w] = p THEN None ELSE rowLock[w]]
    /\ keyLock' = [k \in Keys |-> IF keyLock[k] = p THEN None ELSE keyLock[k]]

(* A statement of the transaction fails: postOnce returns and rolls back.  *)
Fail(p, why) ==
    /\ Goto(p, "rollback")
    /\ failure' = [failure EXCEPT ![p] = why]

(* One more of the faults a behaviour may have. *)
Fault == faults < MaxFaults /\ faults' = faults + 1

-------------------------------------------------------------------------------
(* Validate and resolveAccounts: before the transaction.                   *)

Post(p, r) ==
    /\ pc[p] = "idle" /\ calls < MaxCalls
    /\ Validate(r)
    /\ calls' = calls + 1
    /\ req' = [req EXCEPT ![p] = r]
    /\ posting' = [posting EXCEPT ![p] = 0]
    /\ answer' = [answer EXCEPT ![p] = "none"]
    /\ Goto(p, "resolve")
    /\ UNCHANGED <<tables, locks, cursor, todo, attempt, failure, faults>>

Reject(p, r) ==
    /\ pc[p] = "idle" /\ calls < MaxCalls
    /\ ~Validate(r)
    /\ calls' = calls + 1
    /\ req' = [req EXCEPT ![p] = r]
    /\ posting' = [posting EXCEPT ![p] = 0]
    /\ Return(p, "failed")
    /\ UNCHANGED <<tables, locks, todo, faults>>

Account(p) == req[p].entries[cursor[p]].account

(* On to the next entry, or to the first attempt after the last one. *)
NextEntry(p) ==
    IF cursor[p] < Len(req[p].entries)
    THEN Goto(p, "resolve") /\ cursor' = [cursor EXCEPT ![p] = @ + 1]
    ELSE Goto(p, "begin") /\ cursor' = [cursor EXCEPT ![p] = 1]

ResolveAccount(p) ==
    /\ pc[p] = "resolve"
    /\ Account(p) \in SystemAccounts \cup wallets
    /\ NextEntry(p)
    /\ UNCHANGED <<tables, locks, req, todo, attempt, failure, posting, answer,
                   calls, faults>>

SystemAccountMissing(p) ==
    /\ pc[p] = "resolve"
    /\ Account(p) \notin SystemAccounts \cup Wallets
    /\ Return(p, "failed")
    /\ UNCHANGED <<tables, locks, req, todo, posting, calls, faults>>

WalletMissing(p) ==
    /\ pc[p] = "resolve"
    /\ Account(p) \in Wallets \ wallets
    /\ Goto(p, "provision")
    /\ UNCHANGED <<tables, locks, req, cursor, todo, attempt, failure, posting,
                   answer, calls, faults>>

(* Mutation of WalletAbsent: ON CONFLICT DO UPDATE takes the lost race.     *)
MutWalletAbsent(p) == TRUE

(* Whether the INSERT finds no row under uq_user_wallet. *)
WalletAbsent(p) == Account(p) \notin wallets

CreateWallet(p) ==
    /\ pc[p] = "provision"
    /\ WalletAbsent(p)
    /\ wallets' = wallets \cup {Account(p)}
    /\ cached' = [cached EXCEPT ![Account(p)] = 0]
    /\ NextEntry(p)
    /\ UNCHANGED <<journal, locks, req, todo, attempt, failure, posting, answer,
                   calls, faults>>

(* Mutation of ProvisionRaceLost: the lost race is returned as an error.   *)
MutProvisionRaceLost(p) ==
    /\ pc[p] = "provision"
    /\ ~WalletAbsent(p)
    /\ Return(p, "failed")
    /\ UNCHANGED <<tables, locks, req, todo, posting, calls, faults>>

(* The insert hits uq_user_wallet: the call reads the winner's row. *)
ProvisionRaceLost(p) ==
    /\ pc[p] = "provision"
    /\ ~WalletAbsent(p)
    /\ NextEntry(p)
    /\ UNCHANGED <<tables, locks, req, todo, attempt, failure, posting, answer,
                   calls, faults>>

ResolveFails(p) ==
    /\ pc[p] \in {"resolve", "provision"}
    /\ Fault
    /\ Return(p, "failed")
    /\ UNCHANGED <<tables, locks, req, todo, posting, calls>>

-------------------------------------------------------------------------------
(* postOnce: one attempt, one transaction.                                 *)

Begin(p) ==
    /\ pc[p] = "begin"
    /\ todo' = [todo EXCEPT ![p] = WalletsOf(req[p])]
    /\ Goto(p, IF WalletsOf(req[p]) = {} THEN "insert" ELSE "lock")
    /\ UNCHANGED <<tables, locks, req, cursor, attempt, failure, posting, answer,
                   calls, faults>>

(* Mutation of NextRow: rows are locked in the order of the entries.       *)
MutNextRow(p) ==
    LET first == Min({i \in DOMAIN req[p].entries :
                        req[p].entries[i].account \in todo[p]})
    IN req[p].entries[first].account

(* SELECT ... ORDER BY id FOR UPDATE locks the rows in the order of ids. *)
NextRow(p) == Min(todo[p])

LockRow(p) ==
    /\ pc[p] = "lock"
    /\ LET w == NextRow(p)
       IN /\ rowLock[w] = None
          /\ rowLock' = [rowLock EXCEPT ![w] = p]
          /\ todo' = [todo EXCEPT ![p] = @ \ {w}]
          /\ Goto(p, IF todo[p] = {w} THEN "insert" ELSE "lock")
    /\ UNCHANGED <<tables, keyLock, req, cursor, attempt, failure, posting,
                   answer, calls, faults>>

(* Mutation of KeyIsFree: idempotency_key without its UNIQUE index.        *)
MutKeyIsFree(k) == TRUE

(* The unique index: an INSERT waits while another open transaction has    *)
(* inserted the key, and fails when a committed one has.                   *)
KeyIsFree(k) == keyLock[k] = None /\ ~Recorded(k)

InsertPosting(p) ==
    /\ pc[p] = "insert"
    /\ KeyIsFree(req[p].key)
    /\ keyLock' = [keyLock EXCEPT ![req[p].key] = p]
    /\ Goto(p, "entries")
    /\ UNCHANGED <<tables, rowLock, req, cursor, todo, attempt, failure, posting,
                   answer, calls, faults>>

KeyCollides(p) ==
    /\ pc[p] = "insert"
    /\ keyLock[req[p].key] = None /\ Recorded(req[p].key)
    /\ Fail(p, "unique")
    /\ UNCHANGED <<tables, locks, req, cursor, todo, attempt, posting, answer,
                   calls, faults>>

InsertEntries(p) ==
    /\ pc[p] = "entries"
    /\ todo' = [todo EXCEPT ![p] = WalletsOf(req[p])]
    /\ Goto(p, IF WalletsOf(req[p]) = {} THEN "commit" ELSE "update")
    /\ UNCHANGED <<tables, locks, req, cursor, attempt, failure, posting, answer,
                   calls, faults>>

NewBalance(p, w) == cached[w] + Delta(req[p], w)

(* Mutation of Storable: a bigint that wraps instead of raising an error.  *)
MutStorable(n) == TRUE

(* Whether the bigint column can hold a sum. *)
Storable(n) == n \in Int64

(* One UPDATE, which takes the row lock too; the Go map gives the order. *)
UpdateCached(p, w) ==
    /\ pc[p] = "update"
    /\ rowLock[w] \in {None, p}
    /\ Storable(NewBalance(p, w))
    /\ rowLock' = [rowLock EXCEPT ![w] = p]
    /\ todo' = [todo EXCEPT ![p] = @ \ {w}]
    /\ Goto(p, IF todo[p] = {w} THEN "commit" ELSE "update")
    /\ UNCHANGED <<tables, keyLock, req, cursor, attempt, failure, posting,
                   answer, calls, faults>>

BigintOverflow(p, w) ==
    /\ pc[p] = "update"
    /\ rowLock[w] \in {None, p}
    /\ ~Storable(NewBalance(p, w))
    /\ Fail(p, "fatal")
    /\ UNCHANGED <<tables, locks, req, cursor, todo, attempt, posting, answer,
                   calls, faults>>

(* Mutation of TriggerPasses: no trigger on journal_entries.               *)
MutTriggerPasses(p) == TRUE

(* The deferred trigger fn_journal_balanced, run at COMMIT. *)
TriggerPasses(p) == Balanced(req[p])

Commit(p) ==
    /\ pc[p] = "commit"
    /\ TriggerPasses(p)
    /\ journal' = Append(journal, req[p])
    /\ cached' = [w \in Wallets |-> IF w \in WalletsOf(req[p])
                                    THEN NewBalance(p, w) ELSE cached[w]]
    /\ posting' = [posting EXCEPT ![p] = Len(journal) + 1]
    /\ ReleaseLocks(p)
    /\ Goto(p, "committed")
    /\ UNCHANGED <<wallets, req, cursor, todo, attempt, failure, answer, calls,
                   faults>>

TriggerRejects(p) ==
    /\ pc[p] = "commit"
    /\ ~TriggerPasses(p)
    /\ Fail(p, "fatal")
    /\ UNCHANGED <<tables, locks, req, cursor, todo, attempt, posting, answer,
                   calls, faults>>

(* A statement or the connection fails; 40001 and 40P01 are retryable. *)
TxFails(p, why) ==
    /\ pc[p] \in InTx \/ (pc[p] = "begin" /\ why = "fatal")
    /\ Fault
    /\ Fail(p, why)
    /\ UNCHANGED <<tables, locks, req, cursor, todo, attempt, posting, answer,
                   calls>>

-------------------------------------------------------------------------------
(* The loop of Post around postOnce.                                       *)

ReturnPosted(p) ==
    /\ pc[p] = "committed"
    /\ Return(p, "posted")
    /\ UNCHANGED <<tables, locks, req, todo, posting, calls, faults>>

(* The server committed, but the client of the database saw an error. *)
LoseCommitReply(p) ==
    /\ pc[p] = "committed"
    /\ Fault
    /\ Return(p, "failed")
    /\ UNCHANGED <<tables, locks, req, todo, posting, calls>>

(* The deferred tx.Rollback, then the error decides what Post does next. *)
RollbackThen(p, next) ==
    /\ pc[p] = "rollback"
    /\ ReleaseLocks(p)
    /\ todo' = [todo EXCEPT ![p] = {}]
    /\ Goto(p, next)
    /\ failure' = [failure EXCEPT ![p] = "none"]
    /\ UNCHANGED <<tables, req, cursor, attempt, posting, answer, calls, faults>>

RollbackToReplay(p) == failure[p] = "unique" /\ RollbackThen(p, "replay")
RollbackToRetry(p) == failure[p] = "retryable" /\ RollbackThen(p, "backoff")
RollbackAfterCrash(p) == failure[p] = "crash" /\ RollbackThen(p, "idle")

RollbackAndReturn(p) ==
    /\ pc[p] = "rollback" /\ failure[p] = "fatal"
    /\ ReleaseLocks(p)
    /\ todo' = [todo EXCEPT ![p] = {}]
    /\ Return(p, "failed")
    /\ UNCHANGED <<tables, req, posting, calls, faults>>

Replay(p) ==
    /\ pc[p] = "replay"
    /\ Recorded(req[p].key)
    /\ posting' = [posting EXCEPT ![p] = RecordedAt(req[p].key)]
    /\ Return(p, "replayed")
    /\ UNCHANGED <<tables, locks, req, todo, calls, faults>>

(* The SELECT of the recorded posting fails: the 23505 is not retryable. *)
ReplayFails(p) ==
    /\ pc[p] = "replay"
    /\ Fault
    /\ Return(p, "failed")
    /\ UNCHANGED <<tables, locks, req, todo, posting, calls>>

Retry(p) ==
    /\ pc[p] = "backoff"
    /\ attempt[p] + 1 < MaxRetries
    /\ attempt' = [attempt EXCEPT ![p] = @ + 1]
    /\ Goto(p, "begin")
    /\ UNCHANGED <<tables, locks, req, cursor, todo, failure, posting, answer,
                   calls, faults>>

(* Mutation of RetriesExhausted: the last error is dropped after the loop. *)
MutRetriesExhausted(p) ==
    /\ pc[p] = "backoff"
    /\ attempt[p] + 1 >= MaxRetries
    /\ Return(p, "posted")
    /\ UNCHANGED <<tables, locks, req, todo, posting, calls, faults>>

RetriesExhausted(p) ==
    /\ pc[p] = "backoff"
    /\ attempt[p] + 1 >= MaxRetries
    /\ Return(p, "failed")
    /\ UNCHANGED <<tables, locks, req, todo, posting, calls, faults>>

(* The API server dies: every call is gone, and the database rolls back    *)
(* the transactions it left open only when it notices.                     *)
Crash ==
    LET open(p) == pc[p] \in InTx \cup {"rollback"} IN
    /\ Fault
    /\ pc' = [p \in Procs |-> IF open(p) THEN "rollback" ELSE "idle"]
    /\ failure' = [p \in Procs |-> IF open(p) THEN "crash" ELSE "none"]
    /\ cursor' = [p \in Procs |-> 1]
    /\ attempt' = [p \in Procs |-> 0]
    /\ answer' = [p \in Procs |-> IF pc[p] = "idle" THEN answer[p] ELSE "none"]
    /\ UNCHANGED <<tables, locks, req, todo, posting, calls>>

-------------------------------------------------------------------------------
(* What the Go scheduler and the database keep running. *)
Step(p) ==
    \/ ResolveAccount(p) \/ SystemAccountMissing(p) \/ WalletMissing(p)
    \/ CreateWallet(p) \/ ProvisionRaceLost(p)
    \/ Begin(p) \/ LockRow(p) \/ InsertPosting(p) \/ KeyCollides(p)
    \/ InsertEntries(p)
    \/ \E w \in todo[p] : UpdateCached(p, w) \/ BigintOverflow(p, w)
    \/ Commit(p) \/ TriggerRejects(p)
    \/ ReturnPosted(p)
    \/ RollbackToReplay(p) \/ RollbackToRetry(p) \/ RollbackAfterCrash(p)
    \/ RollbackAndReturn(p)
    \/ Replay(p) \/ Retry(p) \/ RetriesExhausted(p)

(* What callers and the environment may do, and need not. *)
Environment(p) ==
    \/ \E r \in Requests : Post(p, r) \/ Reject(p, r)
    \/ \E why \in {"retryable", "fatal"} : TxFails(p, why)
    \/ ResolveFails(p) \/ LoseCommitReply(p) \/ ReplayFails(p)

Next == Crash \/ \E p \in Procs : Step(p) \/ Environment(p)

Spec == Init /\ [][Next]_vars
FairSpec == Spec /\ \A p \in Procs : WF_vars(Step(p))

-------------------------------------------------------------------------------
(* Properties.                                                             *)

TypeOK ==
    /\ wallets \subseteq Wallets
    /\ cached \in [Wallets -> Int64]
    /\ journal \in Seq(Requests)
    /\ rowLock \in [Wallets -> Procs \cup {None}]
    /\ keyLock \in [Keys -> Procs \cup {None}]
    /\ pc \in [Procs -> Places]
    /\ req \in [Procs -> Requests \cup {None}]
    /\ cursor \in [Procs -> Nat]
    /\ todo \in [Procs -> SUBSET Wallets]
    /\ attempt \in [Procs -> 0 .. MaxRetries - 1]
    /\ failure \in [Procs -> {"none", "unique", "retryable", "fatal", "crash"}]
    /\ posting \in [Procs -> 0 .. Len(journal)]
    /\ answer \in [Procs -> {"none", "posted", "replayed", "failed"}]
    /\ calls \in 0 .. MaxCalls
    /\ faults \in 0 .. MaxFaults

(* Whatever was lost, retried or raced, the journal never holds two        *)
(* postings of one idempotency key.                                        *)
AtMostOncePerKey ==
    \A i, j \in DOMAIN journal : journal[i].key = journal[j].key => i = j

(* The view ledger_account_balances: what the journal says a wallet holds. *)
JournalBalance(w) ==
    SumFunction([i \in DOMAIN journal |-> Effect(journal[i], w)])

(* The view wallet_journal_drift is empty (Engine.DriftCount is zero): the *)
(* cache kept by racing updates agrees with the journal.                   *)
NoDrift == \A w \in wallets : cached[w] = JournalBalance(w)

(* No posting whose int64 nets only wrapped to zero gets past the trigger: *)
(* every recorded posting balances exactly in every currency.              *)
JournalBalances == \A i \in DOMAIN journal : Balanced(journal[i])

(* A call that answers with a posting id answers with one that is in the   *)
(* journal under its own key; a fresh answer, with its own payload.        *)
AnswerIsRecorded ==
    \A p \in Procs :
       /\ answer[p] \in {"posted", "replayed"} =>
             posting[p] \in DOMAIN journal /\ journal[posting[p]].key = req[p].key
       /\ answer[p] = "posted" => journal[posting[p]] = req[p]

(* p needs a row or a key that another open transaction holds. *)
WaitsFor(p, q) ==
    /\ p # q
    /\ \/ pc[p] = "lock" /\ rowLock[NextRow(p)] = q
       \/ pc[p] = "insert" /\ keyLock[req[p].key] = q
       \/ pc[p] = "update" /\ \E w \in todo[p] : rowLock[w] = q

(* "Deterministic lock order prevents deadlocks": no set of calls in which *)
(* each waits for another of the set, over row locks and key inserts.      *)
NoWaitCycle ==
    ~ \E S \in SUBSET Procs :
         S # {} /\ \A p \in S : \E q \in S : WaitsFor(p, q)

(* Without a fault, a call fails only for a reason of its own: an input    *)
(* that does not balance, an unknown system account or a balance that      *)
(* bigint cannot hold.  A lost race is never reported to the caller.       *)
FailureIsExplained ==
    [][\A p \in Procs :
         answer[p] = "none" /\ answer'[p] = "failed" /\ faults' = 0 =>
            LET r == req'[p] IN
            \/ ~Validate(r) \/ ~Balanced(r)
            \/ \E a \in Accounts(r) : a \notin SystemAccounts \cup Wallets
            \/ \E w \in WalletsOf(r) : cached[w] + Delta(r, w) \notin Int64]_vars

(* Every call of Post returns: no lock, key wait or retry holds it forever. *)
EveryCallReturns == \A p \in Procs : pc[p] # "idle" ~> pc[p] = "idle"

-------------------------------------------------------------------------------
(* Refinement: the call is over for its caller once it is idle, and from   *)
(* the crash on when the server died.                                      *)

Status(p) ==
    IF pc[p] = "idle" \/ failure[p] = "crash" THEN "idle"
    ELSE IF pc[p] = "committed" THEN "recorded" ELSE "called"

Abstract == INSTANCE AbstractLedger WITH
                balance <- cached, status <- [p \in Procs |-> Status(p)]

(* Every step of the concurrent, retrying, crashing engine is a step of    *)
(* AbstractLedger or invisible to its callers.                             *)
ImplementsAbstract == Abstract!Spec
===============================================================================
