# VicPay in TLA+

Specifications, model-checking runs and machine-checked proofs for VicPay: a Go
backend (double-entry ledger, transfers with KYC limits, phone sign-up with
one-time codes, rotating refresh sessions) and a React/Capacitor web app.
Every definition is translated from the code under `src/`; `PROJECT.json` maps
each one to the lines it stands for.

    cd tla
    tlc -workers 2 -config MCLedger.cfg MCLedger      # any run: its cfg, its module
    tlapm Ledger_proofs.tla                           # the proofs: *_proofs

## 1. The system

| Part | Code | State it keeps | Operations | What is hard |
|---|---|---|---|---|
| Ledger engine | `backend/internal/ledger`, `migrations/0002_ledger.sql` | accounts with a cached balance, postings keyed by an idempotency key, entries | `Engine.Post`, `DriftCount`, views | concurrent postings: row locks, a unique-key race, provisioning outside the transaction, retries, a lost COMMIT answer, int64 sums |
| Transfers, KYC, wallet queries | `backend/internal/transfer`, `kyc`, `wallet` | none of its own | `Transfer`, `TransferToUser`, `TopUp`; `Balances`, `Transactions` | checks read outside the posting's transaction; client retries; midnight |
| Sign-up, OTP | `backend/internal/auth`, `otp`, `authstore` | `users`, `otp_challenges` | `Register`, `ResendCode`, `VerifyPhone`, `Login` | one statement after another with no transaction around them |
| Sessions | `backend/internal/auth`, `pkg/jwt`, `middleware/auth.go` | `refresh_tokens` | `mintSession`, `Refresh`, `Logout` | read, judge, mark, insert in separate statements; reuse detection; two time windows |
| HTTP client | `frontend/src/api/http.ts`, `store/auth.store.ts` | access token in memory, cookie in the browser | `authed`, `refresh`, `login`, `logout` | several awaits share one token and one cookie |
| Migration runner | `backend/internal/database/migrate.go` | `schema_migrations`, an advisory lock | `Migrate` | several processes boot at once; one dies in mid-commit |
| Sheets, back button | `frontend/src/store/ui.store.ts`, `components/ui/BottomSheet.tsx`, `hooks/useBackButton.ts`, `components/home` | the overlay stack, open sheets, the router's history and a count of its depth | open, close, submit, back, navigate | effects, late answers, navigations that are carried out and rendered later |
| Boot, serving, shutdown | `backend/cmd/api/main.go`, `internal/config`, `internal/database/postgres.go` | the phase of a process, its configuration, the connections of its pool | `run`, `serve`, `NewPool` | a configuration that is refused late; a pool that is exhausted; a grace period that ends under running handlers |
| Rate limiter, CSRF | `backend/internal/middleware` | a window per client address | `allow` | window edges, one budget for several routes, every user behind a proxy is one client |
| Stores and pages | `frontend/src/store`, `frontend/src/pages`, `components/home` | the user, a pending sign-up, wallets and history shown | sign-up, sign-in, logout, send, pay, top up, `fetchAll` | async functions that outlive their page and their user |
| Mock API | `frontend/src/api/mock.ts` | users, session, wallets, histories in memory | the whole `Api` | calls wait before they run, and run in whatever session there is then |
| Money, validators, crypto, pages | `pkg`, `internal/pii`, `frontend/src/pages` | none | pure functions, presentation | boundaries of amounts |

The app calls the API over HTTP; a 401 makes it refresh with the cookie and try
again. Each API request is a goroutine of its own; the only state requests share
is the Postgres database (and the limiter's map). The transfer service calls
`Engine.Post`; the auth service calls the OTP service. `main.go` runs the
migrations before it serves.

What makes each part correct:

- **Ledger**: one posting per key, every posting balances, the cache agrees with
  the journal, an answer names a recorded posting, no deadlock, every call returns.
- **Transfers**: no wallet below zero, daily and monthly ceilings, a receipt is
  about the money that moved, a history adds up to the balance, a retry is safe.
- **Sign-up**: one user per phone, no session and no verified phone without a
  consumed code, bounds on the guesses and on the uses of a code, every registered
  user was sent a code; the limiter refuses nobody without cause.
- **Sessions and client**: a second use of a token is noticed, a session ends at
  its absolute limit whatever was rotated, an ended session is over, and the app
  loses its session only for a reason.
- **Migrations**: each file once and in order, what ran is what is recorded, a
  process serves only the schema of its build, nobody waits for ever.
- **Processes**: one that listens has a schema and a configuration that may serve,
  every request and every shutdown ends, an exit cuts no statement short.
- **Stores, pages, mock**: wallets and histories agree, on the pages once nothing
  is awaited, a user sees their own money, a number has one account, a submission
  reports what it did.
- **Sheets**: the stack is what is open, back never acts under a sheet, the
  depth misses no more of the history than the pushes it was not shown.

## 2. The modules

### Posting and Ledger

`Posting` holds the pure part of a posting: `Validate` with its int64 sums that
wrap (`Half` is 2^63 in the code), `Balanced` as the trigger computes it in
numeric, `Delta`, what a posting adds to a wallet's cache.

`Ledger` is `Engine.Post`, with one action per SQL statement or lock wait:
`Post` / `Reject` (validation), `ResolveAccount`, `CreateWallet`,
`ProvisionRaceLost` (account resolution, which commits wallets one by one before
the transaction), `Begin`, `LockRow` (rows in id order), `InsertPosting`,
`KeyCollides` (the unique index on the key: a second insert waits for the first,
then collides), `InsertEntries`, `UpdateCached` in any order (a Go map),
`BigintOverflow`, `TriggerPasses`, `Commit`, `LoseCommitReply`, the four
rollbacks (to a replay, to a retry, to a failure, after a crash), `Replay`,
`Retry`, `RetriesExhausted`, and `Crash`. Committed tables, locks of open
transactions and locals of the calls are separate variables.

`AbstractLedger` is what the engine promises: a call records its posting in one
step or not at all, and is answered with it, with an earlier one of its key, or
with a failure; a crash may swallow the answer. `Ledger` implements it
(`ImplementsAbstract`, INSTANCE with a refinement mapping): the step that maps
to *Record* is the COMMIT.

### Transfer

`Transfer` extends `AbstractLedger`, so the engine is one atomic step that may
fail, replay or lose its answer, and adds the service in front of it: `Receive`,
`Refuse`, `FundsSuffice`, `InsufficientFunds`, `ReadClock`, `WithinDaily`,
`WithinMonthly`, `LimitExceeded`, `CallEngine`, `Succeed`, `EngineFailed`,
`Respond`, `NextDay`, `ServerCrash`. Every read is a step of its own. `Overlap`
says whether one sender may have two calls in flight. `LimitsFor` is kyc's table,
which falls back to level 0 for a level it does not know; `Balances` and
`Transactions` are the wallet service's queries, as functions of the journal.

### RateLimiter and Onboarding

`RateLimiter` is `allow`: a window per client, opened by the first request after
the last one's end, and a 429 once it is spent. `admitted` is history.

`Onboarding` extends it with sign-up and log-in, one action per statement: find,
create, save, send, reply; active, miss or consume, verify, mint. Every request
passes the limiter first (`Serve`, `Throttled`), and so do requests of the other
routes that share it (`Elsewhere`). A challenge carries the history variables
`sent`, `misses` and `uses`. `StatementFails` is an error at any statement (or
its lost answer, which leaves what was done), `Crash` ends all handlers and
empties the limiter, `Expire` is the code's five minutes.

### Sessions and Client

`Sessions` is the server: `SignIn` (mintSession), `Refresh` and its verdicts
`TokenDead`, `TokenReused`, `SessionExpired`, `TokenGood`, then `MarkRefreshUsed`
and `Rotate`; `Logout`; `RevokeFamily`. Time is in ticks. `ended` and `raced`
are history: the families revoked, and those two requests were in flight for.

`Client` extends it with the web app: one access token, one cookie, and flows
that answer a 401 with a refresh and a retry, a 429 to a refresh
(`RefreshThrottled`) by dropping the token, and any answer to a logout
(`LogoutThrottled`) by forgetting the session. The reply reaches the browser
(the cookie changes) before the awaiting code sees it.

### Migrate and Server

`Migrate` has the steps of the migration runner: processes of different builds
wait for the advisory lock, read `schema_migrations` once, and apply what is
missing. `LoseConnection` leaves a ghost session behind that keeps the lock and
may still carry out the COMMIT it was sent (`GhostCommits`) until the server ends
it (`EndSession`).

`Server` composes these steps with the rest of a process's life, in the order of
`run` and `serve`: `Start` (only a configuration that `ValidateForProduction`
accepts), migrate, `StopsBeforeServing` (a failed migration, migrate-only mode,
or a PII key that is only decoded now), `PoolFails` / `OpenPool`, `Listen` /
`ListenFails`, then requests (`Accept`, `Ask`, `Obtain`, `Answered`, `Errs`,
`Respond`) on the pool's connections, `Sigterm`, `Drained` or `GraceOver`, `Exit`
once the deferred Close has its connections back, and `Killed` at any time. A
handler is what the pool sees of it: statements, each on a connection of its own.

### Sheets

The overlay stack with two sheets (the transfer's, and a message that a top-up
opens when it is answered), the effects of `BottomSheet`, `SendMoneySheet`'s
refusal to close while it submits, Escape, presses outside, tabs, and the back
button with its depth count. What an event does to the sheets and the effects this
sets off are one step; an await is not, nor is a navigation. `Navigate`, `Retap` and
`Popped` change the history (`entries`) at once. The page (`rendered`) and `depth`
change with `Render`, since `BrowserRouter` (`main.tsx:9`, react-router 7 in
`package.json:22`) hands its state on in a transition: that is the library's
behaviour, which the code under `src/` relies on, and external to it. Any event may
come before the rendering, and a second navigation overtakes the first, so that one
effect sees only the last of them (`pending`). `uncounted` is history: the pushes that
were overtaken. `Lists` has `Without`, the filter by which ids leave the stack here and
timers the queue of `WebApp`.

### WebApp

The web app over the in-memory backend: `users`, `byPhone`, `pendings` and
`session` are `mock.ts`'s database, `user`, `pending`, `loading`, `shown` and
`fetching` the two stores, `flow` the async functions that are running, and `timers`
the calls that wait in `delay()`. Calls fire in the order they were made, except that a
logout waits 120 ms and the others 350 (`Due`, `Latency`). A firing is one step:
the handler, what the awaiting code does with the answer, and the mount effect of
the page it leads to. `listWallets` hands out the wallets of the database themselves
(`mock.ts:316`) and a movement changes them in place (`:179`), so the store has no
balance of its own: `shown` says whose wallets it holds, beside a copy of their
history, and `ShownBalance` is the balance the database has by then. A sheet checks
an amount against what was last rendered, which a movement leaves behind only while
`fetching` is on already, since the status then changes nothing. A flow whose page
is left loses its form (`here`) and runs on. React's StrictMode mounts twice in
development; the second `fetchAll` repeats the first in the same turn and is not
modelled.

## 3. The runs

| Run | Shows | Instance |
|---|---|---|
| `ledger` | the engine's safety, no wait cycle, that lost races are never reported, that it implements the atomic ledger, and that every call returns | 2 calls at once, 3 in all, 2 keys, 2 wallets, 2 faults, 7 inputs; int64 has 4 bits; no symmetry, for the liveness |
| `transfer` | balance, daily and monthly limits, receipts, histories that add up to the balance | 2 handlers, 4 calls, 3 days in months of 2, KYC levels 0 and 7 (unknown), `Overlap = FALSE`; 1.3 million states |
| `transfer_overdraft` | **violation**: two calls of one sender overdraw | `Overlap = TRUE` |
| `transfer_retry` | **violation**: the retry of a recorded transfer is refused | 2 handlers, lost answers |
| `onboarding` | sign-up, codes, the shared limiter | 2 handlers, 1 phone, 2 codes, 1 attempt, 5 calls, 1 fault; all behind one proxy, 2 requests a window of 1 tick, clock to 2; 2 million states |
| `onboarding_register` | **violation**: a failed sign-up leaves a user without a code | 2 calls, 1 fault |
| `client` | rotation, reuse, windows, what the app may lose its session for | 2 flows, 4 auth calls, windows of 1 and 2 ticks, clock to 3, 1 fault; 4.1 million states |
| `client_logout` | **violation**: a refresh in flight outlives the logout | 3 auth calls |
| `client_parallel` | **violation**: two parallel 401s end the session | 3 auth calls |
| `boot` | exactly once and in order, what a process serves on, no lock left behind, every request and shutdown ends, orderly exits | an old and a new build with two configurations each and an edited one; 2 boots, 1 fault, 2 requests of 2 statements on a pool of 1; 55 thousand states, with liveness |
| `sheets` | the stack, the back button, the depth | 3 tabs, 4 entries, a depth of 4, 2 pending pops, 2 pushes missed and one awaited; 74 thousand states |
| `webapp` | books of the mock and of the pages, accounts, whose money is shown, what is reported | 2 numbers, 3 flows at once, 5 submissions, amounts 1 and 2 |

Why these bounds are enough to be worth something: every race named in
`PROJECT.json` takes two actors, and the third call, the second fault or the
third tick is what it takes to meet the state a race left behind. The four-bit
integers wrap with three legs, as 2^64 does. `DaysPerMonth = 2` puts a month's
edge and a day's edge in reach of one transfer. Two missed pushes in
`sheets` are a depth that is wrong by more than one, which a pop then has to bring
down to 0. Five submissions in `webapp` are a
sign-up, its code, a change of user and two overlapping payments. `AbsoluteWindow` needs three
rotations of one session, hence 4 calls and 3 ticks. One phone is enough in
`onboarding`, since every statement selects by phone or by id; the invariant
that its theorems rest on was checked with two. In `boot` a pool of one connection
and two requests is the smallest instance in which one waits for the other, and two
boots let one build find what another has left. Every property of
a passing run is broken by a mutation of the code (the `Mut...` operators).

Deadlock is not checked in the runs (`CHECK_DEADLOCK FALSE`): the bounds on
calls and faults, and an app that has exited, do end a behaviour. That nobody
waits for ever is checked as `NoWaitCycle`, `EveryCallReturns`,
`EveryRunReturns` and `Settles`.

**Fairness** is weak throughout. `EveryCallReturns` assumes it of each call's own
steps (a goroutine that can run does, Postgres answers) and of the rollback of an
abandoned transaction. `EveryRunReturns` and `Settles` assume it of each process's
main goroutine (which includes the end of the grace period, a timer), of each
handler, and of Postgres ending a dead session. Taking the advisory lock and
getting a connection are among these steps: both are granted in the order of the
waiting, and with finitely many boots and requests whoever is before one is done
some day. Faults, crashes, SIGTERM and the clock are never assumed to happen. The
other specifications state no fairness.

## 4. What the violations say

1. **Overdraft** (`transfer.go:118`). "Guarded by a balance check" holds only for
   one call of a sender at a time; the limits have the same race (`:216`).
2. **Retry** (`transfer.go:118`). "idempotencyKey makes retries safe": the checks
   run before the key is looked up, so the retry of a recorded transfer may be
   refused. The mock looks the key up first.
3. **Sign-up** (`service.go:64`). A failure after the insert leaves a user with no
   code, a phone that is taken, and an id nobody knows.
4. **Logout** (`service.go:167`). A refresh that was judged before the family was
   revoked inserts a live token afterwards.
5. **Parallel refresh** (`http.ts:96`). `fetchAll` meets two 401s, and the second
   refresh is taken for a reuse.

A sixth is visible in `sheets`, whose `BackSparesSheets` excepts a submitting
sheet: after a first press of back, which such a sheet refuses, it is no longer
on the stack; a second press leaves the page or exits the app in the middle of a
payment, and a payment that fails closes the sheet together with its error.

A seventh is visible in `onboarding`. A code is called single-use (`otp.go:3`, `:118`,
`otpstore.go:58`, `0003_auth.sql:4`, and `otp_test.go:70` tests it with calls that
follow each other), but whether it was consumed is read in one statement and written
in another that does not ask again (`otpstore.go:60`): two handlers in flight both use
it, and both mint a session. `CodeIsSpent` states what is left of the claim, that
nobody is let in after the first use.

An eighth is visible in `sheets`. "If there is no overlay and no internal history, back
leaves the app" (`useBackButton.ts:12`): a press of back that comes after the push of
the first page and before its effect finds a depth of 0 and exits, one page above the
root; so does one after two pushes that were rendered together and the pop of one.
`ExitsAtRoot` bounds the distance by the pushes that were not counted. In the other
direction a pop that is overtaken leaves the depth too large, and back at the first
page does nothing instead of exiting.

A ninth is visible in `webapp`. Between a movement and the end of the `fetchAll` that
follows it, the pages pair the new balance, which the mock changed under the store
(`mock.ts:179`), with the history from before; the rendering of the status
(`wallet.store.ts:32`) shows it. `BooksAgree` says that the two agree again once no
`fetchAll` is under way, and that the history shown is always a past of the true one.

The properties that hold in `transfer` and `client` are stated with these
exceptions: one call per sender at a time, no two requests of a family at once.

## 5. The proofs

| Module | About | Theorems |
|---|---|---|
| `Ledger_proofs` | `Ledger`, and that it implements `AbstractLedger` | 8 |
| `Transfer_proofs` | `Transfer` | 4 |
| `Onboarding_proofs` | `Onboarding` and the `RateLimiter` in front of it | 6 |
| `Client_proofs` | `Client`, with the `Sessions` it extends | 5 |
| `Server_proofs` | `Server`, with the `Migrate` it composes | 5 |
| `WebApp_proofs` | `WebApp` | 5 |
| `Sheets_proofs` | `Sheets` | 4 |
| `Collections_proofs` | sums over finite sets, lists that lose elements | lemmas |

Every invariant and every action property of a passing run is a theorem, for every
value of the constants that meets their assumptions. What is only model-checked is
liveness: `EveryCallReturns`, `EveryRunReturns` and `Settles` (with the fairness
they assume), which the prover does not reach.

A property is seldom inductive as it stands. Each module has the strengthening its
proof needs, a conjunction of named layers with an initial and a step lemma each;
the step lemmas have one case per action, and later layers use earlier ones.

**The ledger**: any number of calls, keys, wallets, retries, faults and crashes, any
width of the integers.

| Theorem | States |
|---|---|
| `TypeCorrect` | `Spec => []TypeOK`; a cached balance never leaves int64 |
| `RecordsAtMostOnce` | `Spec => []AtMostOncePerKey` |
| `JournalAlwaysBalances` | `Spec => []JournalBalances` |
| `AnswersAreRecorded` | `Spec => []AnswerIsRecorded` |
| `DeadlockFree` | `Spec => []NoWaitCycle` |
| `NeverDrifts` | `Spec => []NoDrift` |
| `FailuresAreExplained` | `Spec => FailureIsExplained`, an action property |
| `EngineImplementsAbstract` | `Spec => ImplementsAbstract`, the refinement |

- `Typing`: the types, with what a place implies (a call past the start has a
  request, a cursor within its entries).
- `Provisioned`: a call that is past an entry has its wallet, so that the lock
  statement finds every row.
- `Locking`: which rows a call holds at which place (all of its rows up to the
  next one, in id order) and that a key is held from the insert to the end.
  `DeadlockFree` follows without induction: in a set of calls that wait for each
  other, take one that waits for the largest row; who holds it waits for a larger
  row, or for a key; who holds a key waits for nothing but its own rows.
- `Ranges`: a held cache update stays in int64.
- `Journaling`: a key that is held by an open insert is not in the journal, which
  is why a commit never records a key twice, and a posting reaches the journal
  only through the trigger.
- `Answering`: what a call's `posting` names at each place.
- `Books`: the cache of a wallet is the sum of the journal's effects on it. A commit
  adds one posting to the journal and its `Delta` to the caches it updated;
  `NeverDrifts` needs that the two are the same number, and here
  `EffectsAssumption` enters: what a balanced request does to one wallet fits an
  int64. The callers submit two legs of one amount, for which it holds. A posting
  with several legs on one wallet could wrap in `Delta` and not in the trigger;
  `Post` would accept it, and nobody submits one.
- `Pending`, `Explaining`: why a transaction is being rolled back. A lost race for a
  row or a key leads to a replay or a wait, never to a failure.

The refinement maps the COMMIT to *Record* and all other statements to an answer,
a failure, a crash or a stutter; `RefinementStep` has a step for each action.

**Transfers**: any handlers, calls, levels, limits and calendar.

| Theorem | States |
|---|---|
| `TypeCorrect` | `ServiceSpec => []ServiceTypeOK` |
| `ReceiptsMatch` | if `OneKeyEach`: `ServiceSpec => []ReceiptMatches` |
| `NeverOverdrawn` | if `~Overlap`: `ServiceSpec => []NoOverdraft` |
| `LimitsHold` | if `~Overlap` and `SumsFit`: `ServiceSpec => []SpendingCaps` |

The hypotheses are the conditions under which the code is right, and the instance of
the run `transfer` meets them. `~Overlap`: without it the overdraft of section 4
happens. `OneKeyEach`: the calls that are served have keys of their own, because a
replay looks at nothing but the key (`ledger.go:299`) and would answer one payment
with another's posting. `SumsFit`: a limit plus an amount fits an int64, because the
checks add them in one (`transfer.go:220`, `:227`); an amount near 2^63 would wrap
there, and the balance check before it refuses what nobody has.

- `Alone`: no two payments of one sender are served at a time.
- `Funded`: a payment past the balance check is still covered. Another posting can
  only add to the sender's wallet.
- `Limited`: a payment past a check still fits the day and the month it was checked
  for (`FitsDay`, `FitsMonth`), what the sender has in the journal is no newer than
  that day (`Dated`), and the ceilings hold (`Capped`). A posting made on a later
  day than its check finds an empty day or month and fits all the more.
- `Receipts`, `Histories`: a handler that will say ok has its own posting in the
  journal; a wallet's balance is the sum of the lines `Transactions` shows of it.

**Sign-up and the limiter**: any handlers, phones, codes, clients, attempts and
faults, any budget and window.

| Theorem | States |
|---|---|
| `TypeCorrect` | `Spec => []TypeOK` |
| `PhonesAreUnique` | `Spec => []OneUserPerPhone` |
| `SessionsAreVerified` | `Spec => []NoSessionBeforeVerification` |
| `LimiterIsAlwaysFair` | `Spec => LimiterIsFair` |
| `CodesAreSpent` | `Spec => CodeIsSpent`, an action property |
| `GuessesAreBounded` | `Spec => []GuessesBounded` |

`HandlerOK` says what a handler relies on between two of its statements (its user
is of its phone, its challenge is of its phone and was consumed before it verifies,
the user is verified before it mints), and `Advanced` that no step of another takes
any of it back. `LimiterInv` is about the admissions of one client: the window began
with the first of those it has counted, what lies a whole budget before that is
more than a window older, and of 2 * Limit consecutive ones the last is more than
a window younger than the first. The bound on a cardinality is then the length of
an interval of positions.

`CodesAreSpent` needs that a code with a use is marked as consumed (`Guards`), so that
no handler finds it right any more: the handlers between that check and the UPDATE
only become fewer, and each further use is one of theirs.

`Guards` also counts handlers: the wrong guesses are those the row has counted, those that
are about to be, and those a fault lost, at most one a handler for each fault. It
needs that there are finitely many handlers (`ProcsAssumption`).

**Sessions and the web client**: any flows, tokens, windows, faults and lost replies.

| Theorem | States |
|---|---|
| `TypeCorrect` | `Spec => []TypeOK` |
| `SecondUsesAreDetected` | `Spec => []SecondUseIsDetected` |
| `WindowIsAbsolute` | `Spec => []AbsoluteWindow` |
| `RevocationIsFinal` | `Spec => []RevokedForGood` |
| `FailuresAreDue` | `Spec => FailureIsDue`, an action property |

- `Tree`: a token's family is rooted in a sign-in, whose instant it carries, and a
  judgement a rotation acts on may be old but never wrong about the window.
- `Lineage`: a parent is used, and in a family no two requests of which were in
  flight at once, a token has one child; a handler between its judgement and its
  insert is on a token without a child, of a family that has not ended. `raced`
  holds the families that two handlers were ever at work on.
- `Steady`, which holds until a fault, a logout or a race: flows are alone with
  their family, a refresh presents a live token and is refused only for its
  windows, the cookie is live or its successor on the way, and who has signed in has
  a cookie until the windows are over. A failure then has one of the excuses that
  `FailureIsDue` lists.

**Processes and migrations**: any processes, builds whose files are numbered 1..n,
configurations, slots, pool sizes, failures and deaths.

| Theorem | States |
|---|---|
| `ServerTypesHold` | `SSpec => []ServerTypeOK`; no process uses more connections than its pool has |
| `SchemaIsAlwaysRecorded` | `SSpec => []SchemaIsRecorded` |
| `SnapshotIsAlwaysFresh` | `SSpec => []SnapshotIsFresh` |
| `AlwaysReadyToServe` | `SSpec => []ReadyToServe` |
| `ExitIsOrderly` | `SSpec => OrderlyExit`, an action property |

`IInv` says where a runner holds the lock; that `schema_migrations` numbers the
history; that a COMMIT of a ghost session is the next in that history and the
ghost has the lock; and of a runner that goes through its files, that those it
has left behind are applied as its build has them, that those before it form an
upper part of its directory, and that its copy agrees with the table on them. Why
it is needed: a runner only commits a file because its *copy* does not have it;
that the file is then new, and the next in order, follows from the lock and from
what it has left behind. `ActorMoves` and `RunnerFrame` carry the rest of the
processes through a step of one. `ServingInv` does the same for requests and the
pool, and `FilesOK` bounds what may be applied.

**The web app over the mock**: any numbers, accounts, flows, amounts and submissions.

| Theorem | States |
|---|---|
| `TypeCorrect` | `Spec => []TypeOK`; no balance goes below zero |
| `BooksAlwaysAgree` | `Spec => []BooksAgree` |
| `OneAccountEach` | `Spec => []OneAccountPerPhone` |
| `MoneyIsOnesOwn` | `Spec => []ShowsOwnMoney` |
| `ReportsAreTrue` | `Spec => []ReportIsTrue` |

The argument is about the queue of timers. Every call but a logout waits equally
long, so it fires from the head (`DueIsHead`), and only a logout takes an element out
of the middle. `Queued`: the two lists of a `fetchAll` lie next to each other, and a
second list without its first is at the head. `HalfRead`: what that flow has read is
then the wallets of this session, or there is no session. `OneForm`: one form of
the sign-in or the registration is awaited at a time, because `loading` disables the
buttons. `Numbered`: therefore the number of a registration that may still be verified
is free, although `verifyPhone` does not look. `Screens`: the store's user is the
mock's session, who signs in on the home page has a `fetchAll` behind it, and who is
signed in sees their own wallets and the whole of their history unless a list is still
awaited. `PageIsPast`: the history in the store is a past of its owner's, since
histories only grow at the end. `Ledgers` are the books of the mock alone; `BooksAgree`
follows from these three. `Running` ties each timer to what its flow has done so far.

**The sheets**: any tabs, any history, any pops under way.

| Theorem | States |
|---|---|
| `TypeCorrect` | `Spec => []TypeOK` |
| `StackIsTheSheets` | `Spec => []StackMatchesSheets` |
| `LeavesFromTheRoot` | `Spec => []ExitsAtRoot` |
| `BackTakesSheetsFirst` | `Spec => BackSparesSheets`, an action property |

The stack is always `Without(shown, Left)`, the open sheets without those that left
it: a closing sheet leaves both lists (`StackShrinks`), an opening one comes on top of
both (`StackGrows`), a refused press of back adds the top one to `Left`
(`StackPops`). These rest on four laws of `Without`: it drops what is asked for and
nothing else, in order; it depends only on what the list holds; twice is once with
the union. `DepthAccounts` is behind `LeavesFromTheRoot`: the pages below the current
one are at most `depth`, the pushes nobody counted, and the navigation that waits for
its rendering, which adds one if it is a push and allows for the one the effect will
take off if it is a pop. `RenderKeeps` and `NavigatesKeeps` are its two halves.

**Sums and lists.** `Collections_proofs` shows what `SumFunctionOnSet` and the
recursive function in `Without` compute for any finite set and any sequence: that a
function satisfying the recursion exists (`SumExists`, `WithoutExists`), that the value
does not depend on the set the recursion is written for (`SumsAgree`), then that any
element may be taken out first, that sums add up and skip zeros, and that `Without`
keeps order (`WithoutEmbeds`, `WithoutAppends`). Induction is over sets of numbers
(`Induction`): the set of the n for which a fact holds of everything of size n
contains 0 and is closed under successor.

The assumptions are those the modules state on their constants, and TLC evaluates
them on each run: `None`, `NoOne` and `Ghost` are no processes, system accounts are no
wallets, requests have finitely many entries and effects that fit an int64, limits are
naturals below 2^63 and no level has less than level 0, calls are payments of wallets or
top-ups from outside, handlers, slots and phones are finitely many, directories are
finite and numbered, the bounds are naturals.

## 6. What the models leave out

- Postgres itself: its locks, its unique index, its deferred trigger and its
  READ COMMITTED reads are modelled from how the code uses them. The INSERTs of
  a posting's entries are one action: nobody else sees them before the commit.
- A COMMIT whose connection breaks has either taken effect or not by the time
  the call sees the error in `Ledger`; only `Migrate` lets it land later.
- In `Ledger` a wallet's change is summed with wrapping only in `Delta`; no
  caller builds a posting with more than two legs.
- A challenge's order by `created_at` is the order of its insertion.
- In `Client` a reply is lost only after the handler has ended. An access token
  expires between its refresh and the retry only as one of the faults.
- In `WebApp` the second currency, the mock's table of idempotency keys (the
  pages never send a key twice) and `me` (nobody calls it). A page appears there in
  the step that navigates to it; that it is rendered a moment later is in `Sheets`.
- In `Server` a request that CORS, CSRF or the access-token check turns away is
  answered at once. An Accept that fails long after Listen, a second SIGTERM (which
  `NotifyContext` swallows), a SIGTERM before `serve` listens for it other than as
  `Killed`, and a process that dies while it waits for the lock and leaves its
  session in the queue are left out, as are settings that no check looks at.
- The limiter's map never forgets a client, so it grows with the addresses it has
  seen; the model's clients are finite.
- A reload of the page: http.ts says that the session is then restored with the
  cookie, and nothing in the app does so; `Client` starts and stays in one page.
- Rate limits on the routes of the HTTP client are an answer of 429 at any time,
  not `RateLimiter`'s counters: the client shares them with strangers anyway.
- Sending of SMS, hashing, encryption, signatures: what they do is assumed.
- `useBackButton` on the web, where no listener is registered, the moment in which
  it registers its listener anew because `navigate` is another function, and the theme.
- The CSRF middleware's comparison of origins, a filter of one request.

## 7. The plan

Done, in this order: `Posting`, `Ledger`, `AbstractLedger`, `Transfer`, `Onboarding`,
`Sessions`, `Client`, `Migrate`, `Sheets`, `WebApp`, `RateLimiter`, `Server`, and the
proofs of all of them.

Next, the most valuable first:

1. **Proofs**: that `Transfer` over the statement-level engine does what it does over
   the atomic one, by composing `EngineImplementsAbstract` with the service; the
   theorems of `Transfer` under weaker hypotheses than `SumsFit`.
2. **WebApp over HTTP**: answers that overtake each other and replies that are
   lost, composed with `Client`; there an old answer may replace a newer one.
3. **Money**: parsing and formatting of amounts against a reference definition
   over bounded inputs.
4. Commits that land after the caller was told of a failure in `Ledger`.
