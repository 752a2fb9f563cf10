---------------------------- MODULE Ledger_proofs ----------------------------
(***************************************************************************)
(* Theorems about Engine.Post, for every set of callers, keys, wallets and *)
(* posting inputs and every bound.                                         *)
(***************************************************************************)
EXTENDS Ledger, Collections_proofs, WellFoundedInduction, TLAPS

(* The range of every variable but cached, whose range rests on the locks; *)
(* and what a call that is under way is working on.                        *)
Typing ==
    /\ wallets \subseteq Wallets
    /\ journal \in Seq(Requests)
    /\ rowLock \in [Wallets -> Procs \cup {None}]
    /\ keyLock \in [Keys -> Procs \cup {None}]
    /\ pc \in [Procs -> Places]
    /\ req \in [Procs -> Requests \cup {None}]
    /\ cursor \in [Procs -> Nat]
    /\ todo \in [Procs -> SUBSET Wallets]
    /\ attempt \in [Procs -> 0 .. MaxRetries - 1]
    /\ failure \in [Procs -> {"none", "unique", "retryable", "fatal", "crash"}]
    /\ posting \in [Procs -> 0 .. Len(journal)]
    /\ answer \in [Procs -> {"none", "posted", "replayed", "failed"}]
    /\ calls \in 0 .. MaxCalls
    /\ faults \in 0 .. MaxFaults
    /\ \A p \in Procs : pc[p] # "idle" => req[p] \in Requests
    /\ \A p \in Procs : pc[p] = "provision" => Account(p) \in Wallets

LEMMA RecordedAtType ==
    ASSUME NEW k, Recorded(k)
    PROVE  RecordedAt(k) \in DOMAIN journal /\ journal[RecordedAt(k)].key = k
BY DEF Recorded, RecordedAt

(* NextEntry moves the call p alone, and never to the provisioning step. *)
LEMMA NextEntryMoves ==
    ASSUME Typing, NEW p \in Procs, NextEntry(p)
    PROVE  /\ pc' \in [Procs -> Places]
           /\ cursor' \in [Procs -> Nat]
           /\ pc'[p] \in {"resolve", "begin"}
           /\ \A q \in Procs : q # p => pc'[q] = pc[q] /\ cursor'[q] = cursor[q]
<1>1. CASE Goto(p, "resolve") /\ cursor' = [cursor EXCEPT ![p] = @ + 1]
  BY <1>1 DEF Typing, Places, Goto
<1>2. CASE Goto(p, "begin") /\ cursor' = [cursor EXCEPT ![p] = 1]
  BY <1>2 DEF Typing, Places, Goto
<1> QED
  BY <1>1, <1>2, Zenon DEF NextEntry

LEMMA TypingInit == Init => Typing
BY BoundsAssumption, NoneAssumption DEF Init, Typing, Places, InTx

LEMMA TypingStep == Typing /\ [Next]_vars => Typing'
<1> SUFFICES ASSUME Typing, [Next]_vars PROVE Typing'
  OBVIOUS
<1> USE BoundsAssumption DEF Typing, Places, InTx
<1>1. ASSUME NEW p \in Procs, NEW r \in Requests, Post(p, r) PROVE Typing'
  BY <1>1 DEF Post, Account, Goto, tables, locks
<1>2. ASSUME NEW p \in Procs, NEW r \in Requests, Reject(p, r) PROVE Typing'
  BY <1>2 DEF Reject, Account, Return, Goto, tables, locks
<1>3. ASSUME NEW p \in Procs, ResolveAccount(p) PROVE Typing'
  BY <1>3, NextEntryMoves DEF ResolveAccount, Account, tables, locks
<1>4. ASSUME NEW p \in Procs, SystemAccountMissing(p) PROVE Typing'
  BY <1>4 DEF SystemAccountMissing, Account, Return, Goto, tables, locks
<1>5. ASSUME NEW p \in Procs, WalletMissing(p) PROVE Typing'
  BY <1>5 DEF WalletMissing, Account, Goto, tables, locks
<1>6. ASSUME NEW p \in Procs, CreateWallet(p) PROVE Typing'
  BY <1>6, NextEntryMoves DEF CreateWallet, Account, locks
<1>7. ASSUME NEW p \in Procs, ProvisionRaceLost(p) PROVE Typing'
  BY <1>7, NextEntryMoves DEF ProvisionRaceLost, WalletAbsent, Account, tables, locks
<1>8. ASSUME NEW p \in Procs, ResolveFails(p) PROVE Typing'
  BY <1>8 DEF ResolveFails, Fault, Return, Account, Goto, tables, locks
<1>9. ASSUME NEW p \in Procs, Begin(p) PROVE Typing'
  BY <1>9 DEF Begin, WalletsOf, Account, Goto, tables, locks
<1>10. ASSUME NEW p \in Procs, LockRow(p) PROVE Typing'
  BY <1>10 DEF LockRow, Account, Goto, tables
<1>11. ASSUME NEW p \in Procs, InsertPosting(p) PROVE Typing'
  BY <1>11 DEF InsertPosting, Account, Goto, tables
<1>12. ASSUME NEW p \in Procs, KeyCollides(p) PROVE Typing'
  BY <1>12 DEF KeyCollides, Fail, Account, Goto, tables, locks
<1>13. ASSUME NEW p \in Procs, InsertEntries(p) PROVE Typing'
  BY <1>13 DEF InsertEntries, WalletsOf, Account, Goto, tables, locks
<1>14. ASSUME NEW p \in Procs, NEW w \in todo[p], UpdateCached(p, w) PROVE Typing'
  BY <1>14 DEF UpdateCached, Account, Goto, tables
<1>15. ASSUME NEW p \in Procs, NEW w \in todo[p], BigintOverflow(p, w) PROVE Typing'
  BY <1>15 DEF BigintOverflow, Fail, Account, Goto, tables, locks
<1>16. ASSUME NEW p \in Procs, Commit(p) PROVE Typing'
  <2>1. journal' \in Seq(Requests) /\ Len(journal') = Len(journal) + 1
    BY <1>16 DEF Commit
  <2> QED
    BY <2>1, <1>16 DEF Commit, ReleaseLocks, Account, Goto
<1>17. ASSUME NEW p \in Procs, TriggerRejects(p) PROVE Typing'
  BY <1>17 DEF TriggerRejects, Fail, Account, Goto, tables, locks
<1>18. ASSUME NEW p \in Procs, NEW why \in {"retryable", "fatal"}, TxFails(p, why)
       PROVE Typing'
  BY <1>18 DEF TxFails, Fault, Fail, Account, Goto, tables, locks
<1>19. ASSUME NEW p \in Procs, ReturnPosted(p) PROVE Typing'
  BY <1>19 DEF ReturnPosted, Return, Account, Goto, tables, locks
<1>20. ASSUME NEW p \in Procs, LoseCommitReply(p) PROVE Typing'
  BY <1>20 DEF LoseCommitReply, Fault, Return, Account, Goto, tables, locks
<1>21. ASSUME NEW p \in Procs, NEW next \in {"replay", "backoff", "idle"},
              RollbackThen(p, next)
       PROVE Typing'
  BY <1>21 DEF RollbackThen, ReleaseLocks, Account, Goto, tables
<1>22. ASSUME NEW p \in Procs, RollbackAndReturn(p) PROVE Typing'
  BY <1>22 DEF RollbackAndReturn, ReleaseLocks, Return, Account, Goto, tables
<1>23. ASSUME NEW p \in Procs, Replay(p) PROVE Typing'
  <2>1. RecordedAt(req[p].key) \in 1 .. Len(journal)
    BY <1>23, RecordedAtType DEF Replay
  <2> QED
    BY <2>1, <1>23 DEF Replay, Return, Account, Goto, tables, locks
<1>24. ASSUME NEW p \in Procs, ReplayFails(p) PROVE Typing'
  BY <1>24 DEF ReplayFails, Fault, Return, Account, Goto, tables, locks
<1>25. ASSUME NEW p \in Procs, Retry(p) PROVE Typing'
  BY <1>25 DEF Retry, Account, Goto, tables, locks
<1>26. ASSUME NEW p \in Procs, RetriesExhausted(p) PROVE Typing'
  BY <1>26 DEF RetriesExhausted, Return, Account, Goto, tables, locks
<1>27. CASE Crash
  BY <1>27 DEF Crash, Fault, Account, tables, locks
<1>28. CASE UNCHANGED vars
  BY <1>28 DEF vars, Account
<1> QED
  BY <1>1, <1>2, <1>3, <1>4, <1>5, <1>6, <1>7, <1>8, <1>9, <1>10, <1>11, <1>12,
     <1>13, <1>14, <1>15, <1>16, <1>17, <1>18, <1>19, <1>20, <1>21, <1>22, <1>23,
     <1>24, <1>25, <1>26, <1>27, <1>28
  DEF Next, Step, Environment, RollbackToReplay, RollbackToRetry,
      RollbackAfterCrash

-------------------------------------------------------------------------------
(* Once a call has resolved its accounts, every wallet it will touch has a *)
(* row, and rows are never deleted.                                        *)
ProvisionedFor(p) ==
       /\ pc[p] \in {"resolve", "provision"} =>
             /\ cursor[p] \in 1 .. Len(req[p].entries)
             /\ \A i \in 1 .. (cursor[p] - 1) :
                   req[p].entries[i].account \in SystemAccounts \cup wallets
       /\ pc[p] \notin {"idle", "resolve", "provision"} =>
             WalletsOf(req[p]) \subseteq wallets
       /\ pc[p] \notin {"resolve", "provision"} => cursor[p] = 1

Provisioned == \A p \in Procs : ProvisionedFor(p)

LEMMA ProvisionedInit == Init => Provisioned
BY DEF Init, Provisioned, ProvisionedFor

(* Nothing another call does to its own locals unsettles it: rows stay.    *)
LEMMA ProvisionedFrame ==
    ASSUME NEW q \in Procs, ProvisionedFor(q), wallets \subseteq wallets',
           req'[q] = req[q], pc'[q] = pc[q], cursor'[q] = cursor[q]
    PROVE  ProvisionedFor(q)'
BY DEF ProvisionedFor

(* Stepping past an entry whose account is known keeps Provisioned.        *)
LEMMA NextEntryProvisioned ==
    ASSUME Typing, Provisioned, NEW p \in Procs,
           pc[p] \in {"resolve", "provision"},
           Account(p) \in SystemAccounts \cup wallets',
           wallets \subseteq wallets', req' = req, NextEntry(p)
    PROVE  Provisioned'
<1> DEFINE r == req[p]
<1>0. /\ r \in Requests /\ Len(r.entries) \in Nat /\ DOMAIN r.entries = 1 .. Len(r.entries)
      /\ cursor[p] \in 1 .. Len(r.entries)
  BY RequestsAssumption DEF Typing, Provisioned, ProvisionedFor
<1>1. \A i \in 1 .. cursor[p] : r.entries[i].account \in SystemAccounts \cup wallets'
  BY <1>0 DEF Provisioned, ProvisionedFor, Account
<1>2. CASE cursor[p] < Len(r.entries)
  <2>1. Goto(p, "resolve") /\ cursor' = [cursor EXCEPT ![p] = @ + 1]
    BY <1>2, Zenon DEF NextEntry
  <2>2. ProvisionedFor(p)'
    <3>1. /\ pc'[p] = "resolve" /\ cursor'[p] = cursor[p] + 1 /\ req'[p] = r
          /\ (cursor[p] + 1) - 1 = cursor[p] /\ cursor[p] + 1 \in 1 .. Len(r.entries)
      BY <1>0, <1>2, <2>1 DEF Goto, Typing
    <3> QED
      BY <1>1, <3>1 DEF ProvisionedFor
  <2>3. ASSUME NEW q \in Procs, q # p PROVE ProvisionedFor(q)'
    BY <2>1, <2>3, ProvisionedFrame DEF Provisioned, Goto, Typing
  <2> QED
    BY <2>2, <2>3 DEF Provisioned
<1>3. CASE ~(cursor[p] < Len(r.entries))
  <2>1. Goto(p, "begin") /\ cursor' = [cursor EXCEPT ![p] = 1]
    BY <1>3, Zenon DEF NextEntry
  <2>2. cursor[p] = Len(r.entries)
    BY <1>0, <1>3
  <2>3. WalletsOf(r) \subseteq wallets'
    BY <1>0, <1>1, <2>2, SystemAssumption DEF WalletsOf, Accounts
  <2>4. ProvisionedFor(p)'
    BY <2>1, <2>3 DEF ProvisionedFor, Goto, Typing
  <2>5. ASSUME NEW q \in Procs, q # p PROVE ProvisionedFor(q)'
    BY <2>1, <2>5, ProvisionedFrame DEF Provisioned, Goto, Typing
  <2> QED
    BY <2>4, <2>5 DEF Provisioned
<1> QED
  BY <1>2, <1>3

LEMMA ProvisionedStep ==
    Typing /\ Provisioned /\ [Next]_vars => Provisioned'
<1> SUFFICES ASSUME Typing, Provisioned, [Next]_vars PROVE Provisioned'
  OBVIOUS
<1>1. ASSUME NEW p \in Procs, NEW r \in Requests, Post(p, r) PROVE Provisioned'
  <2>1. ProvisionedFor(p)'
    <3>1. /\ Len(r.entries) \in Nat /\ Len(r.entries) >= 2
          /\ cursor'[p] = 1 /\ req'[p] = r /\ pc'[p] = "resolve"
      BY <1>1, RequestsAssumption
      DEF Post, Validate, Goto, Typing, Provisioned, ProvisionedFor
    <3> QED
      BY <3>1 DEF ProvisionedFor
  <2>2. ASSUME NEW q \in Procs, q # p PROVE ProvisionedFor(q)'
    BY <1>1, <2>2, ProvisionedFrame DEF Post, Provisioned, Goto, Typing, tables
  <2> QED
    BY <2>1, <2>2 DEF Provisioned
<1>2. ASSUME NEW p \in Procs, NEW r \in Requests, Reject(p, r) PROVE Provisioned'
  BY <1>2 DEF Reject, Return, Goto, tables, Typing, Provisioned, ProvisionedFor
<1>3. ASSUME NEW p \in Procs, ResolveAccount(p) PROVE Provisioned'
  BY <1>3, NextEntryProvisioned DEF ResolveAccount, tables
<1>4. ASSUME NEW p \in Procs, ProvisionRaceLost(p) PROVE Provisioned'
  BY <1>4, NextEntryProvisioned DEF ProvisionRaceLost, WalletAbsent, tables
<1>5. ASSUME NEW p \in Procs, CreateWallet(p) PROVE Provisioned'
  BY <1>5, NextEntryProvisioned DEF CreateWallet
<1>6. ASSUME wallets' = wallets, req' = req,
             \A q \in Procs : \/ pc'[q] = "idle" /\ cursor'[q] = 1
                              \/ pc'[q] = pc[q] /\ cursor'[q] = cursor[q]
                              \/ pc[q] = "resolve" /\ pc'[q] = "provision"
                                 /\ cursor'[q] = cursor[q]
                              \/ /\ pc[q] \notin {"idle", "resolve", "provision"}
                                 /\ pc'[q] \notin {"resolve", "provision"}
                                 /\ cursor'[q] \in {1, cursor[q]}
      PROVE  Provisioned'
  BY <1>6 DEF Typing, Provisioned, ProvisionedFor
<1> USE DEF Typing, Goto, tables
<1>7. ASSUME NEW p \in Procs, WalletMissing(p) PROVE Provisioned'
  BY <1>6, <1>7 DEF WalletMissing
<1>8. ASSUME NEW p \in Procs,
             SystemAccountMissing(p) \/ ResolveFails(p) \/ ReturnPosted(p)
             \/ LoseCommitReply(p) \/ RollbackAndReturn(p) \/ Replay(p)
             \/ ReplayFails(p) \/ RetriesExhausted(p)
      PROVE  Provisioned'
  BY <1>6, <1>8
  DEF SystemAccountMissing, ResolveFails, ReturnPosted, LoseCommitReply,
      RollbackAndReturn, Replay, ReplayFails, RetriesExhausted, Return
<1>9. ASSUME NEW p \in Procs,
             Begin(p) \/ LockRow(p) \/ InsertPosting(p) \/ KeyCollides(p)
             \/ InsertEntries(p) \/ Commit(p) \/ TriggerRejects(p) \/ Retry(p)
      PROVE  Provisioned'
  BY <1>6, <1>9
  DEF Begin, LockRow, InsertPosting, KeyCollides, InsertEntries, Commit,
      TriggerRejects, Retry, Fail
<1>10. ASSUME NEW p \in Procs, NEW w \in todo[p],
              UpdateCached(p, w) \/ BigintOverflow(p, w)
       PROVE  Provisioned'
  BY <1>6, <1>10 DEF UpdateCached, BigintOverflow, Fail
<1>11. ASSUME NEW p \in Procs, NEW why \in {"retryable", "fatal"}, TxFails(p, why)
       PROVE  Provisioned'
  BY <1>6, <1>11 DEF TxFails, Fail, InTx
<1>12. ASSUME NEW p \in Procs, NEW next \in {"replay", "backoff", "idle"},
              RollbackThen(p, next)
       PROVE  Provisioned'
  BY <1>6, <1>12 DEF RollbackThen
<1>13. CASE Crash
  BY <1>6, <1>13 DEF Crash, InTx
<1>14. CASE UNCHANGED vars
  BY <1>6, <1>14 DEF vars
<1> QED
  BY <1>1, <1>2, <1>3, <1>4, <1>5, <1>7, <1>8, <1>9, <1>10, <1>11, <1>12, <1>13,
     <1>14
  DEF Next, Step, Environment, RollbackToReplay, RollbackToRetry,
      RollbackAfterCrash

-------------------------------------------------------------------------------
(* The locks of a call follow its place: a transaction that is locking     *)
(* holds the rows before the ones it still needs; from the insert on it    *)
(* holds all of them; and it holds its key from its insert to its end.     *)
RowLocksOf(p) ==
    /\ \A w \in Wallets : rowLock[w] = p =>
          /\ pc[p] \in InTx \cup {"rollback"}
          /\ pc[p] = "lock" => \A v \in todo[p] : w < v
    /\ pc[p] \in {"lock", "update"} =>
          todo[p] # {} /\ todo[p] \subseteq WalletsOf(req[p])
    /\ pc[p] = "lock" => \A w \in WalletsOf(req[p]) \ todo[p] : rowLock[w] = p
    /\ pc[p] \in InTx \ {"lock"} => \A w \in WalletsOf(req[p]) : rowLock[w] = p

KeyLocksOf(p) ==
    /\ \A k \in Keys : keyLock[k] = p =>
          /\ pc[p] \in {"entries", "update", "commit", "rollback"}
          /\ req[p].key = k
    /\ pc[p] \in {"entries", "update", "commit"} => keyLock[req[p].key] = p

Locking == \A p \in Procs : RowLocksOf(p) /\ KeyLocksOf(p)

LEMMA LockingInit == Init => Locking
BY NoneAssumption DEF Init, Locking, RowLocksOf, KeyLocksOf, InTx

(* Locks and locals untouched, q keeps what it had. *)
LEMMA LockingFrame ==
    ASSUME NEW q \in Procs, RowLocksOf(q), KeyLocksOf(q),
           req'[q] = req[q], pc'[q] = pc[q], todo'[q] = todo[q],
           \A w \in Wallets : rowLock'[w] = q <=> rowLock[w] = q,
           \A k \in Keys : keyLock'[k] = q <=> keyLock[k] = q,
           req[q] \in Requests \/ pc[q] = "idle"
    PROVE  RowLocksOf(q)' /\ KeyLocksOf(q)'
BY RequestsAssumption DEF RowLocksOf, KeyLocksOf, WalletsOf, InTx

(* Outside a transaction a call holds nothing. *)
LEMMA LockingOutside ==
    ASSUME NEW q \in Procs, pc'[q] \notin InTx \cup {"rollback"},
           \A w \in Wallets : rowLock'[w] # q, \A k \in Keys : keyLock'[k] # q
    PROVE  RowLocksOf(q)' /\ KeyLocksOf(q)'
BY DEF RowLocksOf, KeyLocksOf, InTx

(* A failing statement leaves the locks to the rollback. *)
LEMMA LockingFails ==
    ASSUME Typing, NEW q \in Procs, RowLocksOf(q), KeyLocksOf(q),
           pc'[q] = "rollback", req'[q] = req[q], UNCHANGED locks
    PROVE  RowLocksOf(q)' /\ KeyLocksOf(q)'
BY DEF RowLocksOf, KeyLocksOf, InTx, locks

(* The end of a transaction touches the locks of its own call only.        *)
LEMMA ReleaseLocksIsLocal ==
    ASSUME Typing, NEW p \in Procs, ReleaseLocks(p)
    PROVE  /\ \A w \in Wallets : rowLock'[w] # p
           /\ \A k \in Keys : keyLock'[k] # p
           /\ \A q \in Procs \ {p} :
                 /\ \A w \in Wallets : rowLock'[w] = q <=> rowLock[w] = q
                 /\ \A k \in Keys : keyLock'[k] = q <=> keyLock[k] = q
BY NoneAssumption DEF ReleaseLocks, Typing

LEMMA WalletsAreNat == Wallets \subseteq Nat
BY WalletsAssumption

LEMMA WalletsOfAreWallets == \A r : WalletsOf(r) \subseteq Wallets
BY DEF WalletsOf

LEMMA MinOfWallets ==
    ASSUME NEW S, S \subseteq Wallets, S # {}
    PROVE  Min(S) \in S /\ \A v \in S : Min(S) <= v
<1>1. S \subseteq Nat
  BY WalletsAreNat
<1>2. PICK x \in S : \A y \in S : ~ (<<y, x>> \in OpToRel(<, Nat))
  BY <1>1, NatLessThanWellFounded, WFMin
<1>3. \A y \in S : x <= y
  <2> SUFFICES ASSUME NEW y \in S PROVE x <= y
    OBVIOUS
  <2>1. ~(y < x)
    BY <1>1, <1>2 DEF OpToRel
  <2> QED
    BY <1>1, <2>1
<1> QED
  BY <1>3 DEF Min

LEMMA LockingStep == Typing /\ Locking /\ [Next]_vars => Locking'
<1> SUFFICES ASSUME Typing, Locking, [Next]_vars PROVE Locking'
  OBVIOUS
<1> USE DEF Typing, Goto, tables, locks
<1>0. ASSUME NEW p \in Procs, UNCHANGED locks,
             pc[p] \notin InTx \cup {"rollback"},
             pc'[p] \notin InTx \cup {"rollback"},
             \A q \in Procs \ {p} : /\ req'[q] = req[q] /\ pc'[q] = pc[q]
                                  /\ todo'[q] = todo[q]
      PROVE  Locking'
  <2>1. RowLocksOf(p)' /\ KeyLocksOf(p)'
    BY <1>0, LockingOutside DEF Locking, RowLocksOf, KeyLocksOf, InTx
  <2>2. ASSUME NEW q \in Procs, q # p PROVE RowLocksOf(q)' /\ KeyLocksOf(q)'
    BY <1>0, <2>2, LockingFrame DEF Locking
  <2> QED
    BY <2>1, <2>2 DEF Locking
<1>1. ASSUME NEW p \in Procs, NEW r \in Requests, Post(p, r) \/ Reject(p, r)
      PROVE  Locking'
  BY <1>0, <1>1 DEF Post, Reject, Return, InTx
<1>2. ASSUME NEW p \in Procs,
             ResolveAccount(p) \/ CreateWallet(p) \/ ProvisionRaceLost(p)
      PROVE  Locking'
  BY <1>0, <1>2, NextEntryMoves DEF ResolveAccount, CreateWallet, ProvisionRaceLost, InTx
<1>3. ASSUME NEW p \in Procs,
             WalletMissing(p) \/ SystemAccountMissing(p) \/ ResolveFails(p)
             \/ ReturnPosted(p) \/ LoseCommitReply(p) \/ Replay(p)
             \/ ReplayFails(p) \/ Retry(p) \/ RetriesExhausted(p)
      PROVE  Locking'
  BY <1>0, <1>3
  DEF WalletMissing, SystemAccountMissing, ResolveFails, ReturnPosted,
      LoseCommitReply, Replay, ReplayFails, Retry, RetriesExhausted, Return, InTx
<1>4. ASSUME NEW p \in Procs, UNCHANGED locks, req' = req, todo' = todo,
             pc' = [pc EXCEPT ![p] = "rollback"]
      PROVE  Locking'
  <2>1. RowLocksOf(p)' /\ KeyLocksOf(p)'
    BY <1>4, LockingFails DEF Locking
  <2>2. ASSUME NEW q \in Procs, q # p PROVE RowLocksOf(q)' /\ KeyLocksOf(q)'
    BY <1>4, <2>2, LockingFrame DEF Locking
  <2> QED
    BY <2>1, <2>2 DEF Locking
<1>5. ASSUME NEW p \in Procs, KeyCollides(p) \/ TriggerRejects(p) PROVE Locking'
  BY <1>4, <1>5 DEF KeyCollides, TriggerRejects, Fail
<1>6. ASSUME NEW p \in Procs, NEW w \in todo[p], BigintOverflow(p, w) PROVE Locking'
  BY <1>4, <1>6 DEF BigintOverflow, Fail
<1>7. ASSUME NEW p \in Procs, NEW why \in {"retryable", "fatal"}, TxFails(p, why)
      PROVE  Locking'
  BY <1>4, <1>7 DEF TxFails, Fail
<1>8. ASSUME NEW p \in Procs, ReleaseLocks(p),
             pc'[p] \notin InTx \cup {"rollback"},
             \A q \in Procs \ {p} : /\ req'[q] = req[q] /\ pc'[q] = pc[q]
                                  /\ todo'[q] = todo[q]
      PROVE  Locking'
  <2>1. RowLocksOf(p)' /\ KeyLocksOf(p)'
    BY <1>8, ReleaseLocksIsLocal, LockingOutside
  <2>2. ASSUME NEW q \in Procs, q # p PROVE RowLocksOf(q)' /\ KeyLocksOf(q)'
    <3>1. /\ \A w \in Wallets : rowLock'[w] = q <=> rowLock[w] = q
          /\ \A k \in Keys : keyLock'[k] = q <=> keyLock[k] = q
      BY <1>8, <2>2, ReleaseLocksIsLocal
    <3> QED
      BY <1>8, <2>2, <3>1, LockingFrame DEF Locking
  <2> QED
    BY <2>1, <2>2 DEF Locking
<1>9. ASSUME NEW p \in Procs, Commit(p) \/ RollbackAndReturn(p) PROVE Locking'
  BY <1>8, <1>9 DEF Commit, RollbackAndReturn, Return, InTx
<1>10. ASSUME NEW p \in Procs, NEW next \in {"replay", "backoff", "idle"},
              RollbackThen(p, next)
       PROVE  Locking'
  BY <1>8, <1>10 DEF RollbackThen, InTx
<1>11. ASSUME NEW p \in Procs,
              RowLocksOf(p)' /\ KeyLocksOf(p)', req' = req,
              \A q \in Procs \ {p} :
                 /\ pc'[q] = pc[q] /\ todo'[q] = todo[q]
                 /\ \A w \in Wallets : rowLock'[w] = q <=> rowLock[w] = q
                 /\ \A k \in Keys : keyLock'[k] = q <=> keyLock[k] = q
       PROVE  Locking'
  <2>1. ASSUME NEW q \in Procs, q # p PROVE RowLocksOf(q)' /\ KeyLocksOf(q)'
    BY <1>11, <2>1, LockingFrame DEF Locking
  <2> QED
    BY <1>11, <2>1 DEF Locking
<1>12. ASSUME NEW p \in Procs, Begin(p) PROVE Locking'
  <2> DEFINE W == WalletsOf(req[p])
  <2>0. /\ W \subseteq Wallets /\ WalletsOf(req'[p]) = W
        /\ pc'[p] = (IF W = {} THEN "insert" ELSE "lock") /\ todo'[p] = W
        /\ \A w \in Wallets : rowLock'[w] # p
        /\ \A k \in Keys : keyLock'[k] # p
    <3>1. W \subseteq Wallets
      BY WalletsOfAreWallets
    <3>2. pc[p] = "begin" /\ UNCHANGED <<rowLock, keyLock, req>>
      BY <1>12 DEF Begin
    <3>3. /\ \A w \in Wallets : rowLock[w] # p
          /\ \A k \in Keys : keyLock[k] # p
      BY <3>2 DEF Locking, RowLocksOf, KeyLocksOf, InTx
    <3> QED
      BY <1>12, <3>1, <3>2, <3>3 DEF Begin
  <2>1. RowLocksOf(p)' /\ KeyLocksOf(p)'
    BY <2>0 DEF RowLocksOf, KeyLocksOf, InTx
  <2> QED
    BY <1>11, <1>12, <2>1 DEF Begin
<1>13. ASSUME NEW p \in Procs, LockRow(p) PROVE Locking'
  <2> DEFINE w == NextRow(p)
  <2>1. /\ pc[p] = "lock" /\ rowLock[w] = None
        /\ rowLock' = [rowLock EXCEPT ![w] = p]
        /\ todo' = [todo EXCEPT ![p] = @ \ {w}]
        /\ pc' = [pc EXCEPT ![p] = IF todo[p] = {w} THEN "insert" ELSE "lock"]
        /\ UNCHANGED <<keyLock, req>>
    BY <1>13 DEF LockRow
  <2>2. w \in todo[p] /\ \A v \in todo[p] : w <= v
    BY <2>1, MinOfWallets DEF Locking, RowLocksOf, NextRow
  <2>3. \A v \in todo[p] \ {w} : w < v
    <3>1. todo[p] \subseteq Nat
      BY WalletsAreNat
    <3> QED
      BY <2>2, <3>1
  <2>4. RowLocksOf(p)'
    BY <2>1, <2>2, <2>3 DEF Locking, RowLocksOf, InTx, WalletsOf
  <2>5. KeyLocksOf(p)'
    BY <2>1 DEF Locking, KeyLocksOf
  <2> QED
    BY <1>11, <2>1, <2>2, <2>4, <2>5, NoneAssumption
<1>14. ASSUME NEW p \in Procs, InsertPosting(p) PROVE Locking'
  <2>1. RowLocksOf(p)'
    BY <1>14, ZenonT(30) DEF InsertPosting, Locking, RowLocksOf, InTx, WalletsOf
  <2>2. KeyLocksOf(p)'
    BY <1>14, RequestsAssumption DEF InsertPosting, Locking, KeyLocksOf
  <2> QED
    BY <1>11, <1>14, <2>1, <2>2, NoneAssumption DEF InsertPosting, KeyIsFree
<1>15. ASSUME NEW p \in Procs, InsertEntries(p) PROVE Locking'
  <2> DEFINE W == WalletsOf(req[p])
  <2>0. /\ W \subseteq Wallets /\ WalletsOf(req'[p]) = W
        /\ pc'[p] = (IF W = {} THEN "commit" ELSE "update") /\ todo'[p] = W
        /\ pc[p] = "entries" /\ UNCHANGED <<rowLock, keyLock, req>>
    BY <1>15 DEF InsertEntries, WalletsOf
  <2>1. RowLocksOf(p)'
    BY <2>0, ZenonT(30) DEF Locking, RowLocksOf, InTx
  <2>2. KeyLocksOf(p)'
    BY <2>0 DEF Locking, KeyLocksOf
  <2> QED
    BY <1>11, <1>15, <2>1, <2>2 DEF InsertEntries
<1>16. ASSUME NEW p \in Procs, NEW w \in todo[p], UpdateCached(p, w) PROVE Locking'
  <2>1. rowLock[w] = p
    BY <1>16 DEF UpdateCached, Locking, RowLocksOf, InTx
  <2>2. rowLock' = rowLock
    BY <1>16, <2>1 DEF UpdateCached
  <2>3. /\ pc[p] = "update" /\ WalletsOf(req'[p]) = WalletsOf(req[p])
        /\ pc'[p] = (IF todo[p] = {w} THEN "commit" ELSE "update")
        /\ todo'[p] = todo[p] \ {w} /\ UNCHANGED <<keyLock, req>>
    BY <1>16 DEF UpdateCached
  <2>4. RowLocksOf(p)'
    <3>1. CASE todo[p] = {w}
      BY <2>2, <2>3, <3>1 DEF Locking, RowLocksOf, InTx
    <3>2. CASE todo[p] # {w}
      <4>1. todo'[p] # {} /\ todo'[p] \subseteq todo[p] /\ pc'[p] = "update"
        BY <2>3, <3>2
      <4> QED
        BY <2>2, <2>3, <4>1 DEF Locking, RowLocksOf, InTx
    <3> QED
      BY <3>1, <3>2
  <2>5. KeyLocksOf(p)'
    BY <2>3 DEF Locking, KeyLocksOf
  <2> QED
    BY <1>11, <1>16, <2>2, <2>4, <2>5 DEF UpdateCached
<1>17. CASE Crash
  <2>1. ASSUME NEW q \in Procs, pc[q] \in InTx \cup {"rollback"}
        PROVE  RowLocksOf(q)' /\ KeyLocksOf(q)'
    BY <1>17, <2>1, LockingFails DEF Crash, Locking
  <2>2. ASSUME NEW q \in Procs, pc[q] \notin InTx \cup {"rollback"}
        PROVE  RowLocksOf(q)' /\ KeyLocksOf(q)'
    BY <1>17, <2>2, LockingOutside DEF Crash, Locking, RowLocksOf, KeyLocksOf, InTx
  <2> QED
    BY <2>1, <2>2 DEF Locking
<1>18. CASE UNCHANGED vars
  BY <1>18 DEF vars, Locking, RowLocksOf, KeyLocksOf, WalletsOf
<1> QED
  BY <1>1, <1>2, <1>3, <1>5, <1>6, <1>7, <1>9, <1>10, <1>12, <1>13, <1>14, <1>15,
     <1>16, <1>17, <1>18
  DEF Next, Step, Environment, RollbackToReplay, RollbackToRetry,
      RollbackAfterCrash

-------------------------------------------------------------------------------
(* The cache stays in the range of bigint: an UPDATE is checked when it is *)
(* executed, and what it checked is still true at the commit because the   *)
(* row lock keeps every other posting away from that row.                  *)
CheckedRows(p) ==
    /\ pc[p] = "update" =>
          \A w \in WalletsOf(req[p]) \ todo[p] : NewBalance(p, w) \in Int64
    /\ pc[p] = "commit" =>
          \A w \in WalletsOf(req[p]) : NewBalance(p, w) \in Int64

Ranges ==
    /\ cached \in [Wallets -> Int64]
    /\ \A p \in Procs : CheckedRows(p)

LEMMA RangesInit == Init => Ranges
BY HalfAssumption DEF Init, Ranges, CheckedRows, Int64

LEMMA RangesStep ==
    Typing /\ Provisioned /\ Locking /\ Ranges /\ [Next]_vars => Ranges'
<1> SUFFICES ASSUME Typing, Provisioned, Locking, Ranges, [Next]_vars
             PROVE  Ranges'
  OBVIOUS
<1> USE DEF Typing, Goto, tables, locks
<1>0. ASSUME cached' = cached,
             \A q \in Procs : \/ pc'[q] \notin {"update", "commit"}
                              \/ /\ pc'[q] = pc[q] /\ todo'[q] = todo[q]
                                 /\ req'[q] = req[q]
      PROVE  Ranges'
  BY <1>0 DEF Ranges, CheckedRows, NewBalance
<1>1. ASSUME NEW p \in Procs, NEW r \in Requests, Post(p, r) \/ Reject(p, r)
      PROVE  Ranges'
  BY <1>0, <1>1 DEF Post, Reject, Return
<1>2. ASSUME NEW p \in Procs, ResolveAccount(p) \/ ProvisionRaceLost(p)
      PROVE  Ranges'
  BY <1>0, <1>2, NextEntryMoves DEF ResolveAccount, ProvisionRaceLost
<1>3. ASSUME NEW p \in Procs, CreateWallet(p) PROVE Ranges'
  <2>1. cached' \in [Wallets -> Int64]
    BY <1>3, HalfAssumption DEF CreateWallet, Ranges, Int64
  <2>2. ASSUME NEW q \in Procs PROVE CheckedRows(q)'
    <3>1. CASE pc'[q] \in {"update", "commit"}
      <4>1. pc[q] = pc'[q] /\ todo'[q] = todo[q] /\ req'[q] = req[q]
        BY <1>3, <3>1, NextEntryMoves DEF CreateWallet
      <4>2. \A w \in WalletsOf(req[q]) : cached'[w] = cached[w]
        BY <1>3, <3>1, <4>1, WalletsOfAreWallets
        DEF CreateWallet, WalletAbsent, Provisioned, ProvisionedFor, Ranges
      <4> QED
        BY <4>1, <4>2 DEF Ranges, CheckedRows, NewBalance
    <3>2. CASE pc'[q] \notin {"update", "commit"}
      BY <3>2 DEF CheckedRows
    <3> QED
      BY <3>1, <3>2
  <2> QED
    BY <2>1, <2>2 DEF Ranges
<1>4. ASSUME NEW p \in Procs,
             WalletMissing(p) \/ SystemAccountMissing(p) \/ ResolveFails(p)
             \/ ReturnPosted(p) \/ LoseCommitReply(p) \/ Replay(p)
             \/ ReplayFails(p) \/ Retry(p) \/ RetriesExhausted(p)
             \/ RollbackAndReturn(p)
      PROVE  Ranges'
  BY <1>0, <1>4
  DEF WalletMissing, SystemAccountMissing, ResolveFails, ReturnPosted,
      LoseCommitReply, Replay, ReplayFails, Retry, RetriesExhausted,
      RollbackAndReturn, Return
<1>5. ASSUME NEW p \in Procs,
             Begin(p) \/ LockRow(p) \/ InsertPosting(p) \/ KeyCollides(p)
             \/ TriggerRejects(p)
      PROVE  Ranges'
  BY <1>0, <1>5
  DEF Begin, LockRow, InsertPosting, KeyCollides, TriggerRejects, Fail
<1>6. ASSUME NEW p \in Procs, InsertEntries(p) PROVE Ranges'
  <2>1. CheckedRows(p)'
    BY <1>6 DEF InsertEntries, CheckedRows
  <2>2. ASSUME NEW q \in Procs, q # p PROVE CheckedRows(q)'
    BY <1>6, <2>2 DEF InsertEntries, Ranges, CheckedRows, NewBalance
  <2> QED
    BY <1>6, <2>1, <2>2 DEF InsertEntries, Ranges
<1>7. ASSUME NEW p \in Procs, NEW w \in todo[p], UpdateCached(p, w) PROVE Ranges'
  <2>1. /\ cached' = cached /\ req' = req /\ todo' = [todo EXCEPT ![p] = @ \ {w}]
        /\ pc' = [pc EXCEPT ![p] = IF todo[p] = {w} THEN "commit" ELSE "update"]
        /\ pc[p] = "update" /\ NewBalance(p, w) \in Int64
    BY <1>7 DEF UpdateCached, Storable
  <2>2. CheckedRows(p)'
    BY <2>1 DEF Ranges, CheckedRows, NewBalance
  <2>3. ASSUME NEW q \in Procs, q # p PROVE CheckedRows(q)'
    BY <2>1, <2>3 DEF Ranges, CheckedRows, NewBalance
  <2> QED
    BY <2>1, <2>2, <2>3 DEF Ranges
<1>8. ASSUME NEW p \in Procs, NEW w \in todo[p], BigintOverflow(p, w) PROVE Ranges'
  BY <1>0, <1>8 DEF BigintOverflow, Fail
<1>9. ASSUME NEW p \in Procs, Commit(p) PROVE Ranges'
  <2>1. /\ cached' = [w \in Wallets |-> IF w \in WalletsOf(req[p])
                                       THEN NewBalance(p, w) ELSE cached[w]]
        /\ pc[p] = "commit" /\ pc' = [pc EXCEPT ![p] = "committed"]
        /\ UNCHANGED <<req, todo>>
    BY <1>9 DEF Commit
  <2>2. cached' \in [Wallets -> Int64]
    BY <2>1 DEF Ranges, CheckedRows
  <2>3. ASSUME NEW q \in Procs, pc'[q] \in {"update", "commit"}
        PROVE  CheckedRows(q)'
    <3>1. q # p /\ pc[q] = pc'[q]
      BY <2>1, <2>3
    <3>2. \A w \in WalletsOf(req[q]) : rowLock[w] = q
      BY <2>3, <3>1 DEF Locking, RowLocksOf, InTx
    <3>3. \A w \in WalletsOf(req[p]) : rowLock[w] = p
      BY <2>1 DEF Locking, RowLocksOf, InTx
    <3>4. \A w \in WalletsOf(req[q]) : cached'[w] = cached[w]
      BY <2>1, <3>1, <3>2, <3>3, WalletsOfAreWallets
    <3> QED
      BY <2>1, <3>1, <3>4 DEF Ranges, CheckedRows, NewBalance
  <2>4. ASSUME NEW q \in Procs, pc'[q] \notin {"update", "commit"}
        PROVE  CheckedRows(q)'
    BY <2>4 DEF CheckedRows
  <2> QED
    BY <2>2, <2>3, <2>4 DEF Ranges
<1>10. ASSUME NEW p \in Procs, NEW why \in {"retryable", "fatal"}, TxFails(p, why)
       PROVE  Ranges'
  BY <1>0, <1>10 DEF TxFails, Fail
<1>11. ASSUME NEW p \in Procs, NEW next \in {"replay", "backoff", "idle"},
              RollbackThen(p, next)
       PROVE  Ranges'
  BY <1>0, <1>11 DEF RollbackThen
<1>12. CASE Crash
  BY <1>0, <1>12 DEF Crash
<1>13. CASE UNCHANGED vars
  BY <1>0, <1>13 DEF vars
<1> QED
  BY <1>1, <1>2, <1>3, <1>4, <1>5, <1>6, <1>7, <1>8, <1>9, <1>10, <1>11, <1>12,
     <1>13
  DEF Next, Step, Environment, RollbackToReplay, RollbackToRetry,
      RollbackAfterCrash

-------------------------------------------------------------------------------
(* A key that an open transaction has inserted is not in the journal: that *)
(* is what makes the commit safe, whatever happened since the insert.      *)
OpenKeysAreFresh == \A k \in Keys : keyLock[k] # None => ~Recorded(k)

Journaling == OpenKeysAreFresh /\ AtMostOncePerKey /\ JournalBalances

LEMMA JournalingInit == Init => Journaling
BY DEF Init, Journaling, OpenKeysAreFresh, AtMostOncePerKey, JournalBalances

LEMMA JournalingStep ==
    Typing /\ Locking /\ Journaling /\ [Next]_vars => Journaling'
<1> SUFFICES ASSUME Typing, Locking, Journaling, [Next]_vars PROVE Journaling'
  OBVIOUS
<1> USE DEF Typing, tables, locks
<1>0. ASSUME journal' = journal,
             \A k \in Keys : keyLock'[k] \in {keyLock[k], None} \/ ~Recorded(k)
      PROVE  Journaling'
  BY <1>0
  DEF Journaling, OpenKeysAreFresh, AtMostOncePerKey, JournalBalances, Recorded
<1>1. ASSUME NEW p \in Procs, Commit(p) PROVE Journaling'
  <2> DEFINE k == req[p].key
             n == Len(journal)
  <2>1. /\ journal' = Append(journal, req[p]) /\ Balanced(req[p])
        /\ n \in Nat /\ DOMAIN journal = 1 .. n /\ DOMAIN journal' = 1 .. n + 1
        /\ \A i \in 1 .. n : journal'[i] = journal[i]
        /\ journal'[n + 1] = req[p]
    BY <1>1 DEF Commit, TriggerPasses
  <2>2. k \in Keys /\ keyLock[k] = p
    BY <1>1, RequestsAssumption DEF Commit, Locking, KeyLocksOf
  <2>3. \A i \in 1 .. n : journal[i].key # k
    BY <2>1, <2>2, NoneAssumption, ZenonT(30) DEF Journaling, OpenKeysAreFresh, Recorded
  <2>4. AtMostOncePerKey'
    BY <2>1, <2>3 DEF Journaling, AtMostOncePerKey
  <2>5. OpenKeysAreFresh'
    <3> SUFFICES ASSUME NEW j \in Keys, keyLock'[j] # None PROVE ~Recorded(j)'
      BY DEF OpenKeysAreFresh
    <3>1. keyLock[j] # None /\ keyLock[j] # p
      BY <1>1 DEF Commit, ReleaseLocks
    <3>2. j # k
      BY <2>2, <3>1
    <3>3. \A i \in 1 .. n : journal[i].key # j
      BY <2>1, <3>1 DEF Journaling, OpenKeysAreFresh, Recorded
    <3> QED
      BY <2>1, <3>2, <3>3 DEF Recorded
  <2>6. JournalBalances'
    BY <2>1 DEF Journaling, JournalBalances, Balanced
  <2> QED
    BY <2>4, <2>5, <2>6 DEF Journaling
<1>2. ASSUME NEW p \in Procs, InsertPosting(p) PROVE Journaling'
  BY <1>0, <1>2 DEF InsertPosting, KeyIsFree
<1>3. ASSUME NEW p \in Procs, NEW r \in Requests, Post(p, r) \/ Reject(p, r)
      PROVE  Journaling'
  BY <1>0, <1>3 DEF Post, Reject
<1>4. ASSUME NEW p \in Procs,
             ResolveAccount(p) \/ SystemAccountMissing(p) \/ WalletMissing(p)
             \/ CreateWallet(p) \/ ProvisionRaceLost(p) \/ ResolveFails(p)
             \/ Begin(p) \/ LockRow(p) \/ KeyCollides(p) \/ InsertEntries(p)
             \/ TriggerRejects(p)
      PROVE  Journaling'
  BY <1>0, <1>4
  DEF ResolveAccount, SystemAccountMissing, WalletMissing, CreateWallet,
      ProvisionRaceLost, ResolveFails, Begin, LockRow, KeyCollides,
      InsertEntries, TriggerRejects
<1>5. ASSUME NEW p \in Procs, NEW w \in todo[p],
             UpdateCached(p, w) \/ BigintOverflow(p, w)
      PROVE  Journaling'
  BY <1>0, <1>5 DEF UpdateCached, BigintOverflow
<1>6. ASSUME NEW p \in Procs, NEW why \in {"retryable", "fatal"}, TxFails(p, why)
      PROVE  Journaling'
  BY <1>0, <1>6 DEF TxFails
<1>7. ASSUME NEW p \in Procs, NEW next \in {"replay", "backoff", "idle"},
             RollbackThen(p, next) \/ RollbackAndReturn(p)
      PROVE  Journaling'
  BY <1>0, <1>7 DEF RollbackThen, RollbackAndReturn, ReleaseLocks
<1>8. ASSUME NEW p \in Procs,
             ReturnPosted(p) \/ LoseCommitReply(p) \/ Replay(p)
             \/ ReplayFails(p) \/ Retry(p) \/ RetriesExhausted(p)
      PROVE  Journaling'
  BY <1>0, <1>8
  DEF ReturnPosted, LoseCommitReply, Replay, ReplayFails, Retry, RetriesExhausted
<1>9. CASE Crash
  BY <1>0, <1>9 DEF Crash
<1>10. CASE UNCHANGED vars
  BY <1>0, <1>10 DEF vars
<1> QED
  BY <1>1, <1>2, <1>3, <1>4, <1>5, <1>6, <1>7, <1>8, <1>9, <1>10
  DEF Next, Step, Environment, RollbackToReplay, RollbackToRetry,
      RollbackAfterCrash

-------------------------------------------------------------------------------
(* A committed call knows its own posting, so what it answers is recorded. *)
Answering ==
    /\ AnswerIsRecorded
    /\ \A p \in Procs : pc[p] = "committed" =>
          posting[p] \in DOMAIN journal /\ journal[posting[p]] = req[p]

LEMMA AnsweringInit == Init => Answering
BY DEF Init, Answering, AnswerIsRecorded

LEMMA AnsweringStep == Typing /\ Answering /\ [Next]_vars => Answering'
<1> SUFFICES ASSUME Typing, Answering, [Next]_vars PROVE Answering'
  OBVIOUS
<1> USE DEF Typing, Goto, tables, locks
<1>0. ASSUME journal' = journal,
             \A q \in Procs :
                /\ \/ answer'[q] \in {"none", "failed"}
                   \/ /\ answer'[q] = answer[q] /\ req'[q] = req[q]
                      /\ posting'[q] = posting[q]
                   \/ /\ answer'[q] = "posted" /\ pc[q] = "committed"
                      /\ req'[q] = req[q] /\ posting'[q] = posting[q]
                   \/ /\ answer'[q] = "replayed" /\ req'[q] = req[q]
                      /\ posting'[q] \in DOMAIN journal
                      /\ journal[posting'[q]].key = req[q].key
                /\ pc'[q] = "committed" =>
                      /\ pc[q] = "committed" /\ req'[q] = req[q]
                      /\ posting'[q] = posting[q]
      PROVE  Answering'
  <2>1. ASSUME NEW q \in Procs, answer'[q] \in {"posted", "replayed"}
        PROVE  /\ posting'[q] \in DOMAIN journal'
               /\ journal'[posting'[q]].key = req'[q].key
               /\ answer'[q] = "posted" => journal'[posting'[q]] = req'[q]
    <3>1. CASE answer'[q] = answer[q] /\ req'[q] = req[q] /\ posting'[q] = posting[q]
      BY <1>0, <2>1, <3>1 DEF Answering, AnswerIsRecorded
    <3>2. CASE /\ answer'[q] = "posted" /\ pc[q] = "committed"
               /\ req'[q] = req[q] /\ posting'[q] = posting[q]
      BY <1>0, <3>2 DEF Answering
    <3>3. CASE /\ answer'[q] = "replayed" /\ req'[q] = req[q]
               /\ posting'[q] \in DOMAIN journal
               /\ journal[posting'[q]].key = req[q].key
      BY <1>0, <3>3
    <3> QED
      BY <1>0, <2>1, <3>1, <3>2, <3>3
  <2>2. AnswerIsRecorded'
    BY <2>1 DEF AnswerIsRecorded
  <2> QED
    BY <1>0, <2>2 DEF Answering
<1>1. ASSUME NEW p \in Procs, Commit(p) PROVE Answering'
  <2>1. /\ \A i \in DOMAIN journal : i \in DOMAIN journal' /\ journal'[i] = journal[i]
        /\ posting'[p] \in DOMAIN journal' /\ journal'[posting'[p]] = req[p]
        /\ \A q \in Procs \ {p} : posting'[q] = posting[q] /\ pc'[q] = pc[q]
        /\ UNCHANGED <<req, answer>>
    BY <1>1 DEF Commit
  <2>2. AnswerIsRecorded'
    <3> SUFFICES ASSUME NEW q \in Procs, answer'[q] \in {"posted", "replayed"}
                 PROVE  /\ posting'[q] \in DOMAIN journal'
                        /\ journal'[posting'[q]].key = req'[q].key
                        /\ answer'[q] = "posted" => journal'[posting'[q]] = req'[q]
      BY DEF AnswerIsRecorded
    <3>1. CASE q = p
      BY <2>1, <3>1
    <3>2. CASE q # p
      BY <2>1, <3>2 DEF Answering, AnswerIsRecorded
    <3> QED
      BY <3>1, <3>2
  <2>3. ASSUME NEW q \in Procs, pc'[q] = "committed"
        PROVE  posting'[q] \in DOMAIN journal' /\ journal'[posting'[q]] = req'[q]
    BY <2>1, <2>3, ZenonT(30) DEF Answering
  <2> QED
    BY <2>2, <2>3 DEF Answering
<1>2. ASSUME NEW p \in Procs, Replay(p) PROVE Answering'
  <2>1. /\ RecordedAt(req[p].key) \in DOMAIN journal
        /\ journal[RecordedAt(req[p].key)].key = req[p].key
    BY <1>2, RecordedAtType DEF Replay
  <2> QED
    BY <1>0, <1>2, <2>1 DEF Replay, Return
<1>3. ASSUME NEW p \in Procs, NEW r \in Requests, Post(p, r) \/ Reject(p, r)
      PROVE  Answering'
  BY <1>0, <1>3 DEF Post, Reject, Return
<1>4. ASSUME NEW p \in Procs,
             ResolveAccount(p) \/ CreateWallet(p) \/ ProvisionRaceLost(p)
      PROVE  Answering'
  BY <1>0, <1>4, NextEntryMoves DEF ResolveAccount, CreateWallet, ProvisionRaceLost
<1>5. ASSUME NEW p \in Procs,
             SystemAccountMissing(p) \/ WalletMissing(p) \/ ResolveFails(p)
             \/ ReturnPosted(p) \/ LoseCommitReply(p) \/ RollbackAndReturn(p)
             \/ ReplayFails(p) \/ Retry(p) \/ RetriesExhausted(p)
      PROVE  Answering'
  BY <1>0, <1>5
  DEF SystemAccountMissing, WalletMissing, ResolveFails, ReturnPosted,
      LoseCommitReply, RollbackAndReturn, ReplayFails, Retry, RetriesExhausted,
      Return
<1>6. ASSUME NEW p \in Procs,
             Begin(p) \/ LockRow(p) \/ InsertPosting(p) \/ KeyCollides(p)
             \/ InsertEntries(p) \/ TriggerRejects(p)
      PROVE  Answering'
  BY <1>0, <1>6
  DEF Begin, LockRow, InsertPosting, KeyCollides, InsertEntries, TriggerRejects,
      Fail
<1>7. ASSUME NEW p \in Procs, NEW w \in todo[p],
             UpdateCached(p, w) \/ BigintOverflow(p, w)
      PROVE  Answering'
  BY <1>0, <1>7 DEF UpdateCached, BigintOverflow, Fail
<1>8. ASSUME NEW p \in Procs, NEW why \in {"retryable", "fatal"}, TxFails(p, why)
      PROVE  Answering'
  BY <1>0, <1>8 DEF TxFails, Fail
<1>9. ASSUME NEW p \in Procs, NEW next \in {"replay", "backoff", "idle"},
             RollbackThen(p, next)
      PROVE  Answering'
  BY <1>0, <1>9 DEF RollbackThen
<1>10. CASE Crash
  BY <1>0, <1>10 DEF Crash
<1>11. CASE UNCHANGED vars
  BY <1>0, <1>11 DEF vars
<1> QED
  BY <1>1, <1>2, <1>3, <1>4, <1>5, <1>6, <1>7, <1>8, <1>9, <1>10, <1>11
  DEF Next, Step, Environment, RollbackToReplay, RollbackToRetry,
      RollbackAfterCrash

-------------------------------------------------------------------------------
(* The arithmetic of the postings.  All sums are over finite sets of       *)
(* positions, and every amount is an integer.                              *)

LEMMA SumOverAsSum ==
    ASSUME NEW r \in Requests, NEW S, S \subseteq DOMAIN r.entries
    PROVE  /\ IsFiniteSet(S)
           /\ SumOver(r, S) = SumFunctionOnSet([i \in S |-> Signed(r.entries[i])], S)
           /\ \A i \in S : Signed(r.entries[i]) \in Int
<1>1. IsFiniteSet(S)
  BY RequestsAssumption, PositionsAreFinite
<1>2. \A i \in S : Signed(r.entries[i]) \in Int
  BY RequestsAssumption, HalfAssumption DEF Signed, Int64
<1> QED
  BY <1>1, <1>2 DEF SumOver, SumFunction

LEMMA EffectIsInt == ASSUME NEW r \in Requests, NEW w PROVE Effect(r, w) \in Int
<1> DEFINE S == {i \in DOMAIN r.entries : r.entries[i].account = w}
           f == [i \in S |-> Signed(r.entries[i])]
<1>1. IsFiniteSet(S) /\ Effect(r, w) = SumFunctionOnSet(f, S) /\ \A i \in S : f[i] \in Int
  BY SumOverAsSum DEF Effect
<1> HIDE DEF S, f
<1> QED
  BY <1>1, SumIsInt

(* A posting leaves alone the wallets none of its entries names. *)
LEMMA NoEffectElsewhere ==
    ASSUME NEW r \in Requests, NEW w \in Wallets, w \notin WalletsOf(r)
    PROVE  Effect(r, w) = 0
<1> DEFINE S == {i \in DOMAIN r.entries : r.entries[i].account = w}
           f == [i \in S |-> Signed(r.entries[i])]
<1>1. S = {}
  BY DEF WalletsOf, Accounts
<1>2. Effect(r, w) = SumFunctionOnSet(f, S)
  BY SumOverAsSum DEF Effect
<1>3. SumFunctionOnSet(f, {}) = 0
  BY SumOfNothing
<1> HIDE DEF f, S
<1>4. SumFunctionOnSet(f, S) = SumFunctionOnSet(f, {})
  BY <1>1, Zenon
<1> QED
  BY <1>2, <1>3, <1>4

LEMMA WrapKeeps == ASSUME NEW n \in Int64 PROVE Wrap(n) = n
BY HalfAssumption, ModKeeps DEF Wrap, Int64

(* The int64 that Post accumulates for a wallet is exact when the posting  *)
(* balances.                                                               *)
LEMMA DeltaIsExact ==
    ASSUME NEW r \in Requests, Balanced(r), NEW w \in Wallets
    PROVE  Delta(r, w) = Effect(r, w)
BY EffectsAssumption, WrapKeeps DEF Delta

(* What the view ledger_account_balances shows after one more posting. *)
LEMMA JournalBalanceGrows ==
    ASSUME journal \in Seq(Requests), NEW r \in Requests, NEW w,
           journal' = Append(journal, r)
    PROVE  JournalBalance(w)' = JournalBalance(w) + Effect(r, w)
<1> DEFINE n == Len(journal)
           D == 1 .. n
           f == [i \in D |-> Effect(journal[i], w)]
           g == [i \in D \cup {n + 1} |-> Effect(journal'[i], w)]
<1>1. /\ n \in Nat /\ DOMAIN journal = D /\ DOMAIN journal' = D \cup {n + 1}
      /\ \A i \in D : journal'[i] = journal[i] /\ journal[i] \in Requests
      /\ journal'[n + 1] = r /\ n + 1 \notin D
  OBVIOUS
<1>2. IsFiniteSet(D)
  BY <1>1, PositionsAreFinite
<1>3. JournalBalance(w) = SumFunctionOnSet(f, D)
  BY <1>1 DEF JournalBalance, SumFunction
<1>4. JournalBalance(w)' = SumFunctionOnSet(g, D \cup {n + 1})
  BY <1>1 DEF JournalBalance, SumFunction
<1>5. \A i \in D \cup {n + 1} : g[i] \in Int
  BY <1>1, EffectIsInt
<1>6. \A i \in D : g[i] = f[i]
  BY <1>1
<1>7. g[n + 1] = Effect(r, w)
  BY <1>1
<1> HIDE DEF D, f, g, n
<1>8. SumFunctionOnSet(g, D \cup {n + 1}) = SumFunctionOnSet(g, D) + g[n + 1]
  BY <1>1, <1>2, <1>5, SumAdds
<1>9. SumFunctionOnSet(g, D) = SumFunctionOnSet(f, D)
  BY <1>2, <1>6, SumAgrees
<1> QED
  BY <1>3, <1>4, <1>7, <1>8, <1>9

-------------------------------------------------------------------------------
(* The cache agrees with the journal: a wallet without a row has no        *)
(* entries, and a commit adds to both the effect of one posting.           *)
Books ==
    /\ \A w \in Wallets : cached[w] = JournalBalance(w)
    /\ \A w \in Wallets \ wallets : cached[w] = 0

LEMMA BooksInit == Init => Books
<1> SUFFICES ASSUME Init PROVE Books
  OBVIOUS
<1>1. ASSUME NEW w \in Wallets PROVE JournalBalance(w) = 0
  <2> DEFINE f == [i \in {} |-> Effect(journal[i], w)]
  <2>1. JournalBalance(w) = SumFunctionOnSet(f, {})
    BY DEF Init, JournalBalance, SumFunction
  <2> QED
    BY <2>1, SumOfNothing
<1> QED
  BY <1>1 DEF Init, Books

(* What a commit does to the balance of every wallet. *)
LEMMA CommitMovesBalances ==
    ASSUME Typing, Ranges, NEW p \in Procs, Commit(p), NEW w \in Wallets
    PROVE  cached'[w] = cached[w] + Effect(req[p], w)
<1>1. req[p] \in Requests /\ Balanced(req[p])
  BY DEF Commit, Typing, TriggerPasses
<1>2. cached'[w] = IF w \in WalletsOf(req[p]) THEN cached[w] + Delta(req[p], w)
                   ELSE cached[w]
  BY DEF Commit, NewBalance
<1>3. cached[w] \in Int
  BY HalfAssumption DEF Ranges, Int64
<1>4. CASE w \in WalletsOf(req[p])
  BY <1>1, <1>2, <1>4, DeltaIsExact
<1>5. CASE w \notin WalletsOf(req[p])
  BY <1>1, <1>2, <1>3, <1>5, NoEffectElsewhere
<1> QED
  BY <1>4, <1>5

LEMMA BooksStep ==
    Typing /\ Provisioned /\ Ranges /\ Books /\ [Next]_vars => Books'
<1> SUFFICES ASSUME Typing, Provisioned, Ranges, Books, [Next]_vars PROVE Books'
  OBVIOUS
<1> USE DEF tables, locks
<1>0. ASSUME UNCHANGED <<cached, journal, wallets>> PROVE Books'
  BY <1>0 DEF Books, JournalBalance
<1>1. ASSUME NEW p \in Procs, Commit(p) PROVE Books'
  <2>1. /\ journal' = Append(journal, req[p]) /\ wallets' = wallets
        /\ req[p] \in Requests /\ journal \in Seq(Requests)
        /\ WalletsOf(req[p]) \subseteq wallets
    BY <1>1 DEF Commit, Typing, Provisioned, ProvisionedFor
  <2>2. ASSUME NEW w \in Wallets PROVE cached'[w] = JournalBalance(w)'
    <3>1. JournalBalance(w)' = JournalBalance(w) + Effect(req[p], w)
      BY <2>1, JournalBalanceGrows
    <3> QED
      BY <1>1, <3>1, CommitMovesBalances DEF Books
  <2>3. ASSUME NEW w \in Wallets \ wallets PROVE cached'[w] = 0
    BY <1>1, <2>1, <2>3 DEF Commit, Books
  <2> QED
    BY <2>1, <2>2, <2>3 DEF Books
<1>2. ASSUME NEW p \in Procs, CreateWallet(p) PROVE Books'
  <2>1. Account(p) \in Wallets \ wallets
    BY <1>2 DEF CreateWallet, WalletAbsent, Typing
  <2>2. cached' = cached
    BY <1>2, <2>1 DEF CreateWallet, Books, Ranges
  <2> QED
    BY <1>2, <2>2 DEF CreateWallet, Books, JournalBalance
<1>3. ASSUME NEW p \in Procs, NEW r \in Requests, Post(p, r) \/ Reject(p, r)
      PROVE  Books'
  BY <1>0, <1>3 DEF Post, Reject
<1>4. ASSUME NEW p \in Procs,
             ResolveAccount(p) \/ SystemAccountMissing(p) \/ WalletMissing(p)
             \/ ProvisionRaceLost(p) \/ ResolveFails(p) \/ Begin(p) \/ LockRow(p)
             \/ InsertPosting(p) \/ KeyCollides(p) \/ InsertEntries(p)
             \/ TriggerRejects(p)
      PROVE  Books'
  BY <1>0, <1>4
  DEF ResolveAccount, SystemAccountMissing, WalletMissing, ProvisionRaceLost,
      ResolveFails, Begin, LockRow, InsertPosting, KeyCollides, InsertEntries,
      TriggerRejects
<1>5. ASSUME NEW p \in Procs, NEW w \in todo[p],
             UpdateCached(p, w) \/ BigintOverflow(p, w)
      PROVE  Books'
  BY <1>0, <1>5 DEF UpdateCached, BigintOverflow
<1>6. ASSUME NEW p \in Procs, NEW why \in {"retryable", "fatal"}, TxFails(p, why)
      PROVE  Books'
  BY <1>0, <1>6 DEF TxFails
<1>7. ASSUME NEW p \in Procs, NEW next \in {"replay", "backoff", "idle"},
             RollbackThen(p, next) \/ RollbackAndReturn(p)
      PROVE  Books'
  BY <1>0, <1>7 DEF RollbackThen, RollbackAndReturn
<1>8. ASSUME NEW p \in Procs,
             ReturnPosted(p) \/ LoseCommitReply(p) \/ Replay(p)
             \/ ReplayFails(p) \/ Retry(p) \/ RetriesExhausted(p)
      PROVE  Books'
  BY <1>0, <1>8
  DEF ReturnPosted, LoseCommitReply, Replay, ReplayFails, Retry, RetriesExhausted
<1>9. CASE Crash
  BY <1>0, <1>9 DEF Crash
<1>10. CASE UNCHANGED vars
  BY <1>0, <1>10 DEF vars
<1> QED
  BY <1>1, <1>2, <1>3, <1>4, <1>5, <1>6, <1>7, <1>8, <1>9, <1>10
  DEF Next, Step, Environment, RollbackToReplay, RollbackToRetry,
      RollbackAfterCrash

-------------------------------------------------------------------------------
(* A call has an answer only once it is over, and a reason to roll back    *)
(* only while its transaction is being rolled back.                        *)
Pending ==
    \A p \in Procs : /\ pc[p] # "idle" => answer[p] = "none"
                     /\ failure[p] # "none" <=> pc[p] = "rollback"

LEMMA PendingInit == Init => Pending
BY DEF Init, Pending

LEMMA PendingStep == Typing /\ Pending /\ [Next]_vars => Pending'
<1> SUFFICES ASSUME Typing, Pending, [Next]_vars PROVE Pending'
  OBVIOUS
<1> USE DEF Typing, Pending, Goto, tables, locks
<1>1. ASSUME NEW p \in Procs, NEW r \in Requests, Post(p, r) \/ Reject(p, r)
      PROVE  Pending'
  BY <1>1 DEF Post, Reject, Return
<1>2. ASSUME NEW p \in Procs,
             ResolveAccount(p) \/ CreateWallet(p) \/ ProvisionRaceLost(p)
      PROVE  Pending'
  <2>1. /\ pc[p] \in {"resolve", "provision"} /\ pc'[p] \in {"resolve", "begin"}
        /\ \A q \in Procs : q # p => pc'[q] = pc[q]
        /\ UNCHANGED <<answer, failure>>
    BY <1>2, NextEntryMoves DEF ResolveAccount, CreateWallet, ProvisionRaceLost
  <2> QED
    BY <2>1
<1>3. ASSUME NEW p \in Procs,
             SystemAccountMissing(p) \/ WalletMissing(p) \/ ResolveFails(p)
             \/ ReturnPosted(p) \/ LoseCommitReply(p) \/ RollbackAndReturn(p)
             \/ Replay(p) \/ ReplayFails(p) \/ Retry(p) \/ RetriesExhausted(p)
      PROVE  Pending'
  BY <1>3
  DEF SystemAccountMissing, WalletMissing, ResolveFails, ReturnPosted,
      LoseCommitReply, RollbackAndReturn, Replay, ReplayFails, Retry,
      RetriesExhausted, Return
<1>4. ASSUME NEW p \in Procs,
             Begin(p) \/ LockRow(p) \/ InsertPosting(p) \/ KeyCollides(p)
             \/ InsertEntries(p) \/ Commit(p) \/ TriggerRejects(p)
      PROVE  Pending'
  BY <1>4
  DEF Begin, LockRow, InsertPosting, KeyCollides, InsertEntries, Commit,
      TriggerRejects, Fail
<1>5. ASSUME NEW p \in Procs, NEW w \in todo[p],
             UpdateCached(p, w) \/ BigintOverflow(p, w)
      PROVE  Pending'
  BY <1>5, SMTT(30) DEF UpdateCached, BigintOverflow, Fail
<1>6. ASSUME NEW p \in Procs, NEW why \in {"retryable", "fatal"}, TxFails(p, why)
      PROVE  Pending'
  BY <1>6 DEF TxFails, Fail, InTx
<1>7. ASSUME NEW p \in Procs, NEW next \in {"replay", "backoff", "idle"},
             RollbackThen(p, next)
      PROVE  Pending'
  BY <1>7 DEF RollbackThen
<1>8. CASE Crash
  BY <1>8 DEF Crash, InTx
<1>9. CASE UNCHANGED vars
  BY <1>9 DEF vars
<1> QED
  BY <1>1, <1>2, <1>3, <1>4, <1>5, <1>6, <1>7, <1>8, <1>9
  DEF Next, Step, Environment, RollbackToReplay, RollbackToRetry,
      RollbackAfterCrash

-------------------------------------------------------------------------------
(* Why a transaction rolls back for good.  Only a fault is retryable; and  *)
(* while no fault has happened, a posting that is given up either does not *)
(* balance, or would push a wallet whose row the call still locks out of   *)
(* the range of bigint.                                                    *)
Overflowed(p) ==
    \E w \in WalletsOf(req[p]) : rowLock[w] = p /\ NewBalance(p, w) \notin Int64

Explained(p) ==
    /\ failure[p] = "retryable" \/ pc[p] = "backoff" => faults # 0
    /\ failure[p] = "fatal" /\ faults = 0 => ~Balanced(req[p]) \/ Overflowed(p)

Explaining == \A p \in Procs : Explained(p)

LEMMA ExplainingInit == Init => Explaining
BY DEF Init, Explaining, Explained

(* Nothing another call does takes the explanation away: the row is locked. *)
LEMMA ExplainedFrame ==
    ASSUME NEW q \in Procs, Explained(q), faults' \in {faults, faults + 1},
           faults \in Nat, failure'[q] = failure[q], pc'[q] = pc[q],
           req'[q] = req[q],
           \A w \in Wallets : rowLock[w] = q =>
                                 rowLock'[w] = q /\ cached'[w] = cached[w]
    PROVE  Explained(q)'
<1>1. Overflowed(q) => Overflowed(q)'
  BY WalletsOfAreWallets DEF Overflowed, NewBalance
<1> QED
  BY <1>1 DEF Explained

LEMMA ExplainingStep ==
    Typing /\ Locking /\ Ranges /\ Books /\ Pending /\ Explaining /\ [Next]_vars
       => Explaining'
<1> SUFFICES ASSUME Typing, Locking, Ranges, Books, Pending, Explaining, [Next]_vars
             PROVE  Explaining'
  OBVIOUS
<1> USE DEF Typing, Goto, tables, locks
<1>0. ASSUME NEW p \in Procs, Explained(p)', faults' \in {faults, faults + 1},
             \A w \in Wallets : /\ rowLock'[w] = rowLock[w] \/ rowLock[w] \in {p, None}
                                /\ cached'[w] = cached[w] \/ rowLock[w] = p,
             \A q \in Procs \ {p} :
                failure'[q] = failure[q] /\ pc'[q] = pc[q] /\ req'[q] = req[q]
      PROVE  Explaining'
  <2>1. ASSUME NEW q \in Procs, q # p PROVE Explained(q)'
    <3>1. \A w \in Wallets : rowLock[w] = q =>
                                 rowLock'[w] = q /\ cached'[w] = cached[w]
      BY <1>0, <2>1, NoneAssumption
    <3>2. faults \in Nat
      BY BoundsAssumption
    <3> QED
      BY <1>0, <2>1, <3>1, <3>2, ExplainedFrame DEF Explaining
  <2> QED
    BY <1>0, <2>1 DEF Explaining
<1>1. ASSUME NEW p \in Procs, failure'[p] = "none", pc'[p] # "backoff"
      PROVE  Explained(p)'
  BY <1>1 DEF Explained
<1>2. ASSUME NEW p \in Procs, NEW r \in Requests, Post(p, r) \/ Reject(p, r)
      PROVE  Explaining'
  <2>1. /\ failure'[p] = "none" /\ pc'[p] # "backoff" /\ UNCHANGED <<rowLock, cached, faults>>
        /\ \A q \in Procs \ {p} :
              failure'[q] = failure[q] /\ pc'[q] = pc[q] /\ req'[q] = req[q]
    BY <1>2 DEF Post, Reject, Return, Pending
  <2> QED
    BY <1>0, <1>1, <2>1
<1>3. ASSUME NEW p \in Procs, ResolveAccount(p) \/ ProvisionRaceLost(p)
      PROVE  Explaining'
  <2>1. /\ pc'[p] \in {"resolve", "begin"} /\ failure' = failure /\ failure[p] = "none"
        /\ \A q \in Procs : q # p => pc'[q] = pc[q]
        /\ UNCHANGED <<rowLock, cached, req, faults>>
    BY <1>3, NextEntryMoves DEF ResolveAccount, ProvisionRaceLost, Pending
  <2> QED
    BY <1>0, <1>1, <2>1
<1>4. ASSUME NEW p \in Procs, CreateWallet(p) PROVE Explaining'
  <2>1. Account(p) \in Wallets \ wallets
    BY <1>4 DEF CreateWallet, WalletAbsent
  <2>2. cached' = cached
    BY <1>4, <2>1 DEF CreateWallet, Books, Ranges
  <2>3. /\ pc'[p] \in {"resolve", "begin"} /\ failure' = failure /\ failure[p] = "none"
        /\ \A q \in Procs : q # p => pc'[q] = pc[q]
        /\ UNCHANGED <<rowLock, req, faults>>
    BY <1>4, NextEntryMoves DEF CreateWallet, Pending
  <2> QED
    BY <1>0, <1>1, <2>2, <2>3
<1>5. ASSUME NEW p \in Procs,
             \/ SystemAccountMissing(p) \/ WalletMissing(p) \/ ResolveFails(p)
             \/ ReturnPosted(p) \/ LoseCommitReply(p)
             \/ Replay(p) \/ ReplayFails(p) \/ Retry(p) \/ RetriesExhausted(p)
      PROVE  Explaining'
  <2>1. /\ failure'[p] = "none" /\ pc'[p] # "backoff"
        /\ faults' \in {faults, faults + 1}
        /\ UNCHANGED <<rowLock, cached, req>>
        /\ \A q \in Procs \ {p} : failure'[q] = failure[q] /\ pc'[q] = pc[q]
    BY <1>5
    DEF SystemAccountMissing, WalletMissing, ResolveFails, ReturnPosted, Fault,
        LoseCommitReply, Replay, ReplayFails, Retry, RetriesExhausted, Return, Pending
  <2> QED
    BY <1>0, <1>1, <2>1
<1>6. ASSUME NEW p \in Procs,
             Begin(p) \/ LockRow(p) \/ InsertPosting(p) \/ InsertEntries(p)
      PROVE  Explaining'
  <2>1. /\ failure'[p] = "none" /\ pc'[p] # "backoff" /\ UNCHANGED <<cached, req, faults>>
        /\ \A w \in Wallets : rowLock'[w] = rowLock[w] \/ rowLock[w] \in {p, None}
        /\ \A q \in Procs \ {p} : failure'[q] = failure[q] /\ pc'[q] = pc[q]
    BY <1>6 DEF Begin, LockRow, InsertPosting, InsertEntries, Pending
  <2> QED
    BY <1>0, <1>1, <2>1
<1>7. ASSUME NEW p \in Procs, NEW w \in todo[p], UpdateCached(p, w) PROVE Explaining'
  <2>1. /\ failure'[p] = "none" /\ pc'[p] # "backoff" /\ UNCHANGED <<cached, req, faults>>
        /\ \A v \in Wallets : rowLock'[v] = rowLock[v] \/ rowLock[v] \in {p, None}
        /\ \A q \in Procs \ {p} : failure'[q] = failure[q] /\ pc'[q] = pc[q]
    BY <1>7 DEF UpdateCached, Pending
  <2> QED
    BY <1>0, <1>1, <2>1
<1>8. ASSUME NEW p \in Procs, NEW w \in todo[p], BigintOverflow(p, w) PROVE Explaining'
  <2>1. /\ w \in WalletsOf(req[p]) /\ rowLock[w] = p /\ NewBalance(p, w) \notin Int64
        /\ UNCHANGED <<rowLock, cached, req, faults>> /\ pc'[p] = "rollback"
        /\ failure'[p] = "fatal"
        /\ \A q \in Procs \ {p} : failure'[q] = failure[q] /\ pc'[q] = pc[q]
    <3>1. pc[p] = "update" /\ w \in WalletsOf(req[p]) /\ w \in Wallets
      BY <1>8 DEF BigintOverflow, Locking, RowLocksOf
    <3>2. rowLock[w] = p
      BY <3>1 DEF Locking, RowLocksOf, InTx
    <3> QED
      BY <1>8, <3>1, <3>2 DEF BigintOverflow, Storable, Fail
  <2>2. Overflowed(p)'
    BY <2>1 DEF Overflowed, NewBalance
  <2>3. Explained(p)'
    BY <2>1, <2>2 DEF Explained
  <2> QED
    BY <1>0, <2>1, <2>3
<1>9. ASSUME NEW p \in Procs, KeyCollides(p) \/ TriggerRejects(p) PROVE Explaining'
  <2>1. /\ failure'[p] = "unique" \/ (failure'[p] = "fatal" /\ ~Balanced(req[p]))
        /\ UNCHANGED <<rowLock, cached, req, faults>> /\ pc'[p] = "rollback"
        /\ \A q \in Procs \ {p} : failure'[q] = failure[q] /\ pc'[q] = pc[q]
    BY <1>9 DEF KeyCollides, TriggerRejects, TriggerPasses, Fail
  <2>2. Explained(p)'
    BY <2>1 DEF Explained, Balanced
  <2> QED
    BY <1>0, <2>1, <2>2
<1>10. ASSUME NEW p \in Procs, NEW why \in {"retryable", "fatal"}, TxFails(p, why)
       PROVE  Explaining'
  <2>1. /\ faults' = faults + 1 /\ faults' # 0 /\ pc'[p] = "rollback"
        /\ UNCHANGED <<rowLock, cached, req>>
        /\ \A q \in Procs \ {p} : failure'[q] = failure[q] /\ pc'[q] = pc[q]
    BY <1>10, BoundsAssumption DEF TxFails, Fault, Fail
  <2>2. Explained(p)'
    BY <2>1 DEF Explained
  <2> QED
    BY <1>0, <2>1, <2>2
<1>11. ASSUME NEW p \in Procs, Commit(p) PROVE Explaining'
  <2>1. \A w \in WalletsOf(req[p]) : rowLock[w] = p
    BY <1>11 DEF Commit, Locking, RowLocksOf, InTx
  <2>2. \A w \in Wallets : cached'[w] = cached[w] \/ rowLock[w] = p
    BY <1>11, <2>1 DEF Commit
  <2>3. /\ failure'[p] = "none" /\ pc'[p] # "backoff" /\ UNCHANGED <<req, faults>>
        /\ \A w \in Wallets : rowLock'[w] = rowLock[w] \/ rowLock[w] \in {p, None}
        /\ \A q \in Procs \ {p} : failure'[q] = failure[q] /\ pc'[q] = pc[q]
    BY <1>11 DEF Commit, ReleaseLocks, Pending
  <2> QED
    BY <1>0, <1>1, <2>2, <2>3
<1>12. ASSUME NEW p \in Procs, NEW next \in {"replay", "backoff", "idle"},
              RollbackThen(p, next), next = "backoff" => failure[p] = "retryable"
       PROVE  Explaining'
  <2>1. /\ failure'[p] = "none" /\ pc'[p] = next /\ UNCHANGED <<cached, req, faults>>
        /\ \A w \in Wallets : rowLock'[w] = rowLock[w] \/ rowLock[w] \in {p, None}
        /\ \A q \in Procs \ {p} : failure'[q] = failure[q] /\ pc'[q] = pc[q]
    BY <1>12 DEF RollbackThen, ReleaseLocks
  <2>2. Explained(p)'
    BY <1>12, <2>1 DEF Explaining, Explained
  <2> QED
    BY <1>0, <2>1, <2>2
<1>13. ASSUME NEW p \in Procs, RollbackAndReturn(p) PROVE Explaining'
  <2>1. /\ failure'[p] = "none" /\ pc'[p] = "idle" /\ UNCHANGED <<cached, req, faults>>
        /\ \A w \in Wallets : rowLock'[w] = rowLock[w] \/ rowLock[w] \in {p, None}
        /\ \A q \in Procs \ {p} : failure'[q] = failure[q] /\ pc'[q] = pc[q]
    BY <1>13 DEF RollbackAndReturn, ReleaseLocks, Return
  <2> QED
    BY <1>0, <1>1, <2>1
<1>14. CASE Crash
  BY <1>14 DEF Crash, Explaining, Explained
<1>15. CASE UNCHANGED vars
  BY <1>15 DEF vars, Explaining, Explained, Overflowed, NewBalance
<1> QED
  BY <1>2, <1>3, <1>4, <1>5, <1>6, <1>7, <1>8, <1>9, <1>10, <1>11, <1>12, <1>13,
     <1>14, <1>15
  DEF Next, Step, Environment, RollbackToReplay, RollbackToRetry,
      RollbackAfterCrash

-------------------------------------------------------------------------------
(* Row locks are taken in id order before the key, and a call that has its *)
(* key waits for nothing.  In a set of calls that all wait for each other, *)
(* one waits for the highest row, and the holder of that row would have to *)
(* wait for a higher one.                                                  *)
LEMMA NoCycle == Typing /\ Locking => NoWaitCycle
<1> SUFFICES ASSUME Typing, Locking, NEW S \in SUBSET Procs, S # {},
                    \A p \in S : \E q \in S : WaitsFor(p, q)
             PROVE  FALSE
  BY DEF NoWaitCycle
<1> DEFINE Row(p) == NextRow(p)
<1>1. ASSUME NEW p \in S, NEW q \in S, WaitsFor(p, q)
      PROVE  pc[p] = "lock" /\ rowLock[Row(p)] = q
  <2>1. CASE pc[p] = "insert" /\ keyLock[req[p].key] = q
    <3>1. req[p].key \in Keys
      BY <2>1, RequestsAssumption DEF Typing
    <3>2. pc[q] \in {"entries", "update", "commit", "rollback"}
      BY <2>1, <3>1 DEF Locking, KeyLocksOf
    <3>3. PICK u \in S : WaitsFor(q, u)
      OBVIOUS
    <3>4. pc[q] = "update" /\ \E w \in todo[q] : rowLock[w] = u /\ u # q
      BY <3>2, <3>3 DEF WaitsFor
    <3>5. \A w \in todo[q] : rowLock[w] = q
      BY <3>4 DEF Locking, RowLocksOf, InTx
    <3> QED
      BY <3>4, <3>5
  <2>2. CASE pc[p] = "update" /\ \E w \in todo[p] : rowLock[w] = q
    <3>1. \A w \in todo[p] : rowLock[w] = p
      BY <2>2 DEF Locking, RowLocksOf, InTx
    <3> QED
      BY <1>1, <2>2, <3>1 DEF WaitsFor
  <2> QED
    BY <1>1, <2>1, <2>2 DEF WaitsFor
<1>2. \A p \in S : Row(p) \in Wallets /\ Row(p) \in todo[p]
  <2> TAKE p \in S
  <2>1. pc[p] = "lock"
    BY <1>1
  <2>2. todo[p] # {} /\ todo[p] \subseteq Wallets
    BY <2>1 DEF Locking, RowLocksOf, Typing
  <2> QED
    BY <2>2, MinOfWallets DEF NextRow
<1>3. ASSUME NEW p \in S, NEW q \in S, WaitsFor(p, q) PROVE Row(p) < Row(q)
  <2>1. pc[q] = "lock" /\ rowLock[Row(p)] = q
    BY <1>1, <1>3
  <2> QED
    BY <1>2, <2>1 DEF Locking, RowLocksOf
<1>4. PICK n \in Nat : Wallets \subseteq 0 .. n
  BY WalletsAssumption
<1>5. \A p \in S : Row(p) \in 0 .. n
  BY <1>2, <1>4
<1> HIDE DEF Row
<1> DEFINE Gaps == {n - Row(p) : p \in S}
<1>6. Gaps \subseteq Nat /\ Gaps # {}
  BY <1>5
<1>7. \E g \in Gaps : \A h \in Gaps : ~ (<<h, g>> \in OpToRel(<, Nat))
  <2> HIDE DEF Gaps
  <2> QED
    BY <1>6, NatLessThanWellFounded, WFMin
<1>8. PICK p \in S : \A h \in Gaps : ~ (<<h, n - Row(p)>> \in OpToRel(<, Nat))
  BY <1>7
<1>9. PICK q \in S : WaitsFor(p, q)
  OBVIOUS
<1>10. n - Row(q) \in Gaps /\ n - Row(q) \in Nat /\ n - Row(p) \in Nat
  BY <1>6
<1>11. n - Row(q) < n - Row(p)
  BY <1>3, <1>5, <1>9
<1> QED
  BY <1>8, <1>10, <1>11 DEF OpToRel

-------------------------------------------------------------------------------
(* The inductive invariant, and the theorems it yields.                    *)
IInv == /\ Typing /\ Provisioned /\ Locking /\ Ranges
        /\ Journaling /\ Answering /\ Books /\ Pending /\ Explaining

LEMMA Invariance == Spec => []IInv
<1>1. Init => IInv
  BY TypingInit, ProvisionedInit, LockingInit, RangesInit, JournalingInit,
     AnsweringInit, BooksInit, PendingInit, ExplainingInit
  DEF IInv
<1>2. IInv /\ [Next]_vars => IInv'
  BY TypingStep, ProvisionedStep, LockingStep, RangesStep, JournalingStep,
     AnsweringStep, BooksStep, PendingStep, ExplainingStep
  DEF IInv
<1> QED
  BY <1>1, <1>2, PTL DEF Spec

(* Every variable keeps its type; in particular no cached balance ever     *)
(* leaves the range of bigint, whatever updates race.                      *)
THEOREM TypeCorrect == Spec => []TypeOK
<1>1. IInv => TypeOK
  BY DEF IInv, Typing, Ranges, TypeOK
<1> QED
  BY <1>1, Invariance, PTL

(* One idempotency key is recorded at most once, for any number of calls,  *)
(* retries, lost commit replies and crashes.                               *)
THEOREM RecordsAtMostOnce == Spec => []AtMostOncePerKey
<1>1. IInv => AtMostOncePerKey
  BY DEF IInv, Journaling
<1> QED
  BY <1>1, Invariance, PTL

(* Every committed posting balances exactly, per currency.                 *)
THEOREM JournalAlwaysBalances == Spec => []JournalBalances
<1>1. IInv => JournalBalances
  BY DEF IInv, Journaling
<1> QED
  BY <1>1, Invariance, PTL

(* A posting id that Post returns is in the journal under the caller's key *)
(* and, when it is not a replay, with the caller's own entries.            *)
THEOREM AnswersAreRecorded == Spec => []AnswerIsRecorded
<1>1. IInv => AnswerIsRecorded
  BY DEF IInv, Answering
<1> QED
  BY <1>1, Invariance, PTL

(* Concurrent postings never deadlock, for any number of them: there is no *)
(* set of calls that all wait for one another.                             *)
THEOREM DeadlockFree == Spec => []NoWaitCycle
<1>1. IInv => NoWaitCycle
  BY NoCycle DEF IInv
<1> QED
  BY <1>1, Invariance, PTL

(* The view wallet_journal_drift stays empty: whatever updates race, retry *)
(* or are lost, the cached balance of every wallet is what its journal     *)
(* entries add up to.                                                      *)
THEOREM NeverDrifts == Spec => []NoDrift
<1>1. IInv => NoDrift
  BY DEF IInv, Typing, Books, NoDrift
<1> QED
  BY <1>1, Invariance, PTL

(* A call that fails without any fault fails for a reason of its own: no   *)
(* lost race, taken key or lock wait is ever reported to the caller.       *)
THEOREM FailuresAreExplained == Spec => FailureIsExplained
<1> DEFINE Reason(p) ==
               \/ ~Validate(req'[p]) \/ ~Balanced(req'[p])
               \/ \E a \in Accounts(req'[p]) : a \notin SystemAccounts \cup Wallets
               \/ \E w \in WalletsOf(req'[p]) : cached[w] + Delta(req'[p], w) \notin Int64
           Reasons == \A p \in Procs :
               answer[p] = "none" /\ answer'[p] = "failed" /\ faults' = 0 => Reason(p)
<1>1. IInv /\ Next => Reasons
  <2> SUFFICES ASSUME IInv, Next, NEW q \in Procs, answer[q] = "none",
                      answer'[q] = "failed", faults' = 0
               PROVE  Reason(q)
    OBVIOUS
  <2> USE DEF IInv, Typing, Goto, tables, locks
  <2>0. faults \in Nat
    BY BoundsAssumption
  <2>1. ASSUME NEW p \in Procs, NEW r \in Requests, Reject(p, r) PROVE Reason(q)
    <3>1. p = q /\ req'[q] = r /\ ~Validate(r)
      BY <2>1 DEF Reject, Return
    <3> QED
      BY <3>1
  <2>2. ASSUME NEW p \in Procs, SystemAccountMissing(p) PROVE Reason(q)
    <3>1. p = q /\ req' = req /\ Account(q) \notin SystemAccounts \cup Wallets
      BY <2>2 DEF SystemAccountMissing, Return
    <3>2. cursor[q] \in DOMAIN req[q].entries
      BY <2>2, <3>1, RequestsAssumption
      DEF SystemAccountMissing, Provisioned, ProvisionedFor
    <3>3. Account(q) \in Accounts(req[q])
      BY <3>2 DEF Account, Accounts
    <3> QED
      BY <3>1, <3>3
  <2>3. ASSUME NEW p \in Procs, RollbackAndReturn(p) PROVE Reason(q)
    <3>1. p = q /\ req' = req /\ failure[q] = "fatal" /\ faults = 0
      BY <2>3 DEF RollbackAndReturn, Return
    <3>2. ~Balanced(req[q]) \/ Overflowed(q)
      BY <3>1 DEF Explaining, Explained
    <3> QED
      BY <3>1, <3>2 DEF Overflowed, NewBalance
  <2>4. ASSUME NEW p \in Procs, RetriesExhausted(p) PROVE Reason(q)
    <3>1. p = q /\ pc[q] = "backoff" /\ faults = 0
      BY <2>4 DEF RetriesExhausted, Return
    <3> QED
      BY <3>1 DEF Explaining, Explained
  <2>5. ASSUME NEW p \in Procs, ResolveFails(p) \/ LoseCommitReply(p) \/ ReplayFails(p)
        PROVE  Reason(q)
    BY <2>0, <2>5 DEF ResolveFails, LoseCommitReply, ReplayFails, Fault
  <2>6. ASSUME NEW p \in Procs, NEW r \in Requests, Post(p, r) PROVE Reason(q)
    BY <2>6 DEF Post
  <2>7. ASSUME NEW p \in Procs,
               ResolveAccount(p) \/ WalletMissing(p) \/ CreateWallet(p)
               \/ ProvisionRaceLost(p) \/ Begin(p) \/ LockRow(p) \/ InsertPosting(p)
               \/ KeyCollides(p) \/ InsertEntries(p) \/ Commit(p) \/ TriggerRejects(p)
               \/ Retry(p)
        PROVE  Reason(q)
    <3>1. answer' = answer
      BY <2>7
      DEF ResolveAccount, WalletMissing, CreateWallet, ProvisionRaceLost, Begin,
          LockRow, InsertPosting, KeyCollides, InsertEntries, Commit,
          TriggerRejects, Retry
    <3> QED
      BY <3>1
  <2>8. ASSUME NEW p \in Procs, NEW w \in todo[p],
               UpdateCached(p, w) \/ BigintOverflow(p, w)
        PROVE  Reason(q)
    BY <2>8 DEF UpdateCached, BigintOverflow
  <2>9. ASSUME NEW p \in Procs, NEW why \in {"retryable", "fatal"}, TxFails(p, why)
        PROVE  Reason(q)
    BY <2>9 DEF TxFails
  <2>10. ASSUME NEW p \in Procs, NEW next \in {"replay", "backoff", "idle"},
                RollbackThen(p, next)
         PROVE  Reason(q)
    BY <2>10 DEF RollbackThen
  <2>11. ASSUME NEW p \in Procs, Replay(p) PROVE Reason(q)
    BY <2>11 DEF Replay, Return
  <2>13. ASSUME NEW p \in Procs, ReturnPosted(p) PROVE Reason(q)
    BY <2>13 DEF ReturnPosted, Return
  <2>12. CASE Crash
    BY <2>12 DEF Crash
  <2> HIDE DEF Reason, IInv, Typing, Goto, tables, locks
  <2> QED
    BY <2>1, <2>2, <2>3, <2>4, <2>5, <2>6, <2>7, <2>8, <2>9, <2>10, <2>11, <2>12,
       <2>13
    DEF Next, Step, Environment, RollbackToReplay, RollbackToRetry,
        RollbackAfterCrash
<1>2. IInv /\ [Next]_vars => [Reasons]_vars
  BY <1>1
<1> HIDE DEF Reasons
<1>3. Spec => [][Reasons]_vars
  BY <1>2, Invariance, PTL DEF Spec
<1> QED
  BY <1>3, PTL DEF FailureIsExplained, Reasons

-------------------------------------------------------------------------------
(* Refinement.  A call is "recorded" from the commit to the return, "idle" *)
(* once it is over or its server died, and "called" in between.            *)
LEMMA RefinementInit == Init => Abstract!Init
BY DEF Init, Abstract!Init, Status

LEMMA RefinementStep == IInv /\ [Next]_vars => [Abstract!Next]_Abstract!vars
<1> SUFFICES ASSUME IInv, [Next]_vars PROVE [Abstract!Next]_Abstract!vars
  OBVIOUS
<1> DEFINE st == [p \in Procs |-> Status(p)]
<1> USE DEF IInv, Typing, Pending, Goto, tables, locks
(* A step no caller sees. *)
<1>0. ASSUME UNCHANGED <<journal, cached, req, posting, answer>>,
             \A q \in Procs : \/ pc'[q] = pc[q] /\ failure'[q] = failure[q]
                              \/ /\ {pc[q], pc'[q]} \cap {"idle", "committed"} = {}
                                 /\ failure[q] # "crash" /\ failure'[q] # "crash"
                              \/ failure[q] = "crash" /\ pc'[q] = "idle"
      PROVE  UNCHANGED Abstract!vars
  <2>1. \A q \in Procs : Status(q)' = Status(q)
    BY <1>0 DEF Status
  <2> QED
    BY <1>0, <2>1 DEF Abstract!vars
<1>1. ASSUME NEW p \in Procs, NEW r \in Requests, Post(p, r) \/ Reject(p, r)
      PROVE  Abstract!Call(p, r)
  <2>1. /\ pc[p] = "idle" /\ failure[p] = "none" /\ failure'[p] = "none"
        /\ \/ /\ pc' = [pc EXCEPT ![p] = "resolve"]
              /\ answer' = [answer EXCEPT ![p] = "none"]
           \/ /\ pc' = [pc EXCEPT ![p] = "idle"]
              /\ answer' = [answer EXCEPT ![p] = "failed"]
        /\ req' = [req EXCEPT ![p] = r] /\ posting' = [posting EXCEPT ![p] = 0]
        /\ UNCHANGED <<journal, cached>>
        /\ \A q \in Procs \ {p} : failure'[q] = failure[q]
    BY <1>1 DEF Post, Reject, Return
  <2>2. /\ st[p] = "idle"
        /\ \/ /\ st' = [st EXCEPT ![p] = "called"]
              /\ answer' = [answer EXCEPT ![p] = "none"]
           \/ /\ st' = [st EXCEPT ![p] = "idle"]
              /\ answer' = [answer EXCEPT ![p] = "failed"]
    <3>1. ASSUME pc' = [pc EXCEPT ![p] = "resolve"]
          PROVE  st' = [st EXCEPT ![p] = "called"]
      BY <2>1, <3>1 DEF Status
    <3>2. ASSUME pc' = [pc EXCEPT ![p] = "idle"]
          PROVE  st' = [st EXCEPT ![p] = "idle"]
      BY <2>1, <3>2 DEF Status
    <3>3. st[p] = "idle"
      BY <2>1 DEF Status
    <3> QED
      BY <2>1, <3>1, <3>2, <3>3
  <2> QED
    BY <2>1, <2>2 DEF Abstract!Call, Abstract!Becomes
<1>2. ASSUME NEW p \in Procs, Commit(p) PROVE Abstract!Record(p)
  <2>1. /\ Balanced(req[p]) /\ journal' = Append(journal, req[p])
        /\ posting' = [posting EXCEPT ![p] = Len(journal) + 1]
        /\ UNCHANGED <<req, answer, failure>>
        /\ pc[p] = "commit" /\ pc' = [pc EXCEPT ![p] = "committed"]
        /\ failure[p] = "none" /\ req[p] \in Requests
    BY <1>2 DEF Commit, TriggerPasses
  <2>2. \A i \in DOMAIN journal : journal[i].key # req[p].key
    <3>1. req[p].key \in Keys /\ keyLock[req[p].key] = p
      BY <2>1, RequestsAssumption DEF Locking, KeyLocksOf
    <3> QED
      BY <3>1, NoneAssumption, ZenonT(30) DEF Journaling, OpenKeysAreFresh, Recorded
  <2>3. cached' = [w \in Wallets |-> cached[w] + Effect(req[p], w)]
    <3>1. \A w \in Wallets : cached'[w] = cached[w] + Effect(req[p], w)
      BY <1>2, CommitMovesBalances
    <3>2. cached' = [w \in Wallets |-> cached'[w]]
      BY <1>2 DEF Commit
    <3> QED
      BY <3>1, <3>2
  <2>4. st[p] = "called" /\ st' = [st EXCEPT ![p] = "recorded"]
    BY <2>1 DEF Status
  <2>5. \A S : Abstract!SumOver(req[p], S) = SumOver(req[p], S)
    BY Zenon
    DEF SumOver, Abstract!SumOver, Signed, Abstract!Signed,
        SumFunction, Abstract!SumFunction,
        SumFunctionOnSet, Abstract!SumFunctionOnSet,
        FoldFunctionOnSet, Abstract!FoldFunctionOnSet,
        MapThenFoldSet, Abstract!MapThenFoldSet
  <2>6. Abstract!Balanced(req[p]) /\ \A w : Abstract!Effect(req[p], w) = Effect(req[p], w)
    <3>1. \A w : Abstract!Effect(req[p], w) = Effect(req[p], w)
      BY <2>5, Zenon DEF Effect, Abstract!Effect
    <3>2. \A cur : Abstract!Net(req[p], cur) = Net(req[p], cur)
      BY <2>5, Zenon DEF Net, Abstract!Net
    <3>3. Abstract!Currencies(req[p]) = Currencies(req[p])
      BY Zenon DEF Currencies, Abstract!Currencies
    <3> QED
      BY <2>1, <3>1, <3>2, <3>3 DEF Balanced, Abstract!Balanced
  <2> QED
    BY <2>1, <2>2, <2>3, <2>4, <2>6 DEF Abstract!Record
<1>3. ASSUME NEW p \in Procs, ReturnPosted(p) PROVE Abstract!AnswerPosted(p)
  <2>1. /\ pc[p] = "committed" /\ pc' = [pc EXCEPT ![p] = "idle"]
        /\ failure[p] = "none" /\ failure' = [failure EXCEPT ![p] = "none"]
        /\ answer' = [answer EXCEPT ![p] = "posted"]
        /\ UNCHANGED <<journal, cached, req, posting>>
    BY <1>3 DEF ReturnPosted, Return
  <2>2. st[p] = "recorded" /\ st' = [st EXCEPT ![p] = "idle"]
    BY <2>1 DEF Status
  <2> QED
    BY <2>1, <2>2 DEF Abstract!AnswerPosted, Abstract!Becomes
<1>4. ASSUME NEW p \in Procs, Replay(p) PROVE Abstract!AnswerReplayed(p)
  <2>1. /\ pc[p] = "replay" /\ pc' = [pc EXCEPT ![p] = "idle"]
        /\ failure[p] = "none" /\ failure' = [failure EXCEPT ![p] = "none"]
        /\ answer' = [answer EXCEPT ![p] = "replayed"]
        /\ posting' = [posting EXCEPT ![p] = RecordedAt(req[p].key)]
        /\ UNCHANGED <<journal, cached, req>> /\ Recorded(req[p].key)
    BY <1>4 DEF Replay, Return
  <2>2. st[p] = "called" /\ st' = [st EXCEPT ![p] = "idle"]
    BY <2>1 DEF Status
  <2>3. /\ RecordedAt(req[p].key) \in DOMAIN journal
        /\ journal[RecordedAt(req[p].key)].key = req[p].key
    BY <2>1, RecordedAtType
  <2> QED
    BY <2>1, <2>2, <2>3 DEF Abstract!AnswerReplayed, Abstract!Becomes
<1>5. ASSUME NEW p \in Procs,
             SystemAccountMissing(p) \/ ResolveFails(p) \/ LoseCommitReply(p)
             \/ RollbackAndReturn(p) \/ ReplayFails(p) \/ RetriesExhausted(p)
      PROVE  Abstract!AnswerFailed(p)
  <2>1. /\ pc[p] # "idle" /\ pc' = [pc EXCEPT ![p] = "idle"]
        /\ failure[p] # "crash" /\ failure' = [failure EXCEPT ![p] = "none"]
        /\ answer' = [answer EXCEPT ![p] = "failed"]
        /\ UNCHANGED <<journal, cached, req, posting>>
    BY <1>5
    DEF SystemAccountMissing, ResolveFails, LoseCommitReply, RollbackAndReturn,
        ReplayFails, RetriesExhausted, Return
  <2>2. st[p] # "idle" /\ st' = [st EXCEPT ![p] = "idle"]
    BY <2>1 DEF Status
  <2> QED
    BY <2>1, <2>2 DEF Abstract!AnswerFailed, Abstract!Becomes
<1>6. CASE Crash
  <2>1. \A q \in Procs : Status(q)' = "idle"
    BY <1>6 DEF Crash, Status
  <2>2. answer' = [q \in Procs |-> IF st[q] = "idle" THEN answer[q] ELSE "none"]
    BY <1>6 DEF Crash, Status
  <2>3. UNCHANGED <<journal, cached, req, posting>>
    BY <1>6 DEF Crash
  <2> QED
    BY <2>1, <2>2, <2>3 DEF Abstract!Next, Abstract!Crash
<1>7. ASSUME NEW p \in Procs, ResolveAccount(p) \/ ProvisionRaceLost(p)
      PROVE  UNCHANGED Abstract!vars
  <2>1. /\ pc[p] \in {"resolve", "provision"} /\ pc'[p] \in {"resolve", "begin"}
        /\ \A q \in Procs : q # p => pc'[q] = pc[q]
        /\ UNCHANGED <<journal, cached, req, posting, answer, failure>>
    BY <1>7, NextEntryMoves DEF ResolveAccount, ProvisionRaceLost
  <2> QED
    BY <1>0, <2>1, ZenonT(30)
<1>8. ASSUME NEW p \in Procs, CreateWallet(p) PROVE UNCHANGED Abstract!vars
  <2>1. Account(p) \in Wallets \ wallets
    BY <1>8 DEF CreateWallet, WalletAbsent
  <2>2. cached' = cached
    BY <1>8, <2>1 DEF CreateWallet, Books, Ranges
  <2>3. /\ pc[p] = "provision" /\ pc'[p] \in {"resolve", "begin"}
        /\ \A q \in Procs : q # p => pc'[q] = pc[q]
        /\ UNCHANGED <<journal, req, posting, answer, failure>>
    BY <1>8, NextEntryMoves DEF CreateWallet
  <2> QED
    BY <1>0, <2>2, <2>3, ZenonT(30)
<1>9. ASSUME NEW p \in Procs,
             WalletMissing(p) \/ Begin(p) \/ LockRow(p) \/ InsertPosting(p)
             \/ KeyCollides(p) \/ InsertEntries(p) \/ TriggerRejects(p) \/ Retry(p)
      PROVE  UNCHANGED Abstract!vars
  <2>1. /\ pc[p] \notin {"idle", "committed"} /\ pc'[p] \notin {"idle", "committed"}
        /\ failure[p] # "crash" /\ failure'[p] # "crash"
        /\ \A q \in Procs \ {p} : pc'[q] = pc[q] /\ failure'[q] = failure[q]
        /\ UNCHANGED <<journal, cached, req, posting, answer>>
    BY <1>9
    DEF WalletMissing, Begin, LockRow, InsertPosting, KeyCollides, InsertEntries,
        TriggerRejects, Retry, Fail
  <2> QED
    BY <1>0, <2>1
<1>10. ASSUME NEW p \in Procs, NEW w \in todo[p],
              UpdateCached(p, w) \/ BigintOverflow(p, w)
       PROVE  UNCHANGED Abstract!vars
  BY <1>0, <1>10 DEF UpdateCached, BigintOverflow, Fail
<1>11. ASSUME NEW p \in Procs, NEW why \in {"retryable", "fatal"}, TxFails(p, why)
       PROVE  UNCHANGED Abstract!vars
  BY <1>0, <1>11 DEF TxFails, Fail, InTx
<1>12. ASSUME NEW p \in Procs,
              RollbackToReplay(p) \/ RollbackToRetry(p) \/ RollbackAfterCrash(p)
       PROVE  UNCHANGED Abstract!vars
  BY <1>0, <1>12
  DEF RollbackToReplay, RollbackToRetry, RollbackAfterCrash, RollbackThen
<1>13. CASE UNCHANGED vars
  BY <1>0, <1>13 DEF vars
<1> QED
  BY <1>1, <1>2, <1>3, <1>4, <1>5, <1>6, <1>7, <1>8, <1>9, <1>10, <1>11, <1>12,
     <1>13
  DEF Next, Step, Environment, Abstract!Next

(* The concurrent, retrying, crashing engine implements AbstractLedger: to *)
(* its callers each call is one atomic posting, replay or failure.         *)
THEOREM EngineImplementsAbstract == Spec => ImplementsAbstract
<1>1. Spec => Abstract!Init /\ [][Abstract!Next]_Abstract!vars
  BY RefinementInit, RefinementStep, Invariance, PTL DEF Spec
<1> QED
  BY <1>1, PTL DEF ImplementsAbstract, Abstract!Spec
==============================================================================
