-------------------------------- MODULE Server --------------------------------
(***************************************************************************)
(* The life of an API process, backend/cmd/api/main.go: it checks its      *)
(* configuration, migrates (module Migrate), opens the pool its handlers   *)
(* share, listens, serves, and on SIGTERM drains for a grace period before *)
(* it closes the pool and exits.  Several processes of different builds    *)
(* live on one database.                                                   *)
(*                                                                         *)
(* A request is a slot of its process.  What it says is left out: a        *)
(* handler runs some statements, each on a connection of the pool, which a *)
(* ledger transaction holds from BEGIN to COMMIT, and then replies.  One   *)
(* that CORS, CSRF or Authenticator turns away replies at once.            *)
(***************************************************************************)
EXTENDS Migrate

CONSTANTS
    Slots,          \* the requests a process serves at a time
    PoolSize,       \* MaxConns of the application's pool
    Configs,        \* the configurations each build is started with
    MaxRequests,    \* bound: requests
    MaxStatements   \* bound: statements of a handler

(* What ValidateForProduction looks for.  "short" is a key below 32 bytes. *)
Weaknesses == {"jwt", "pii", "short", "plain", "password", "wildcard", "echo"}

ASSUME ConfigAssumption ==
    Configs \in [Runners -> SUBSET [dev : BOOLEAN, weak : SUBSET Weaknesses,
                                    trusted : BOOLEAN, migrateOnly : BOOLEAN]]
ASSUME PoolAssumption == IsFiniteSet(Slots) /\ PoolSize \in Nat \ {0}
ASSUME RequestBounds == MaxRequests \in Nat /\ MaxStatements \in Nat

VARIABLES
    phase,          \* where each process is in run and serve
    cfg,            \* the configuration it was started with
    step, left,     \* each of its requests, and the statements it may still run
    requests

migration == <<db, lock, ghostTx, place, loaded, todo, result, runs>>
process == <<phase, cfg>>
serving == <<step, left, requests>>
svars == <<vars, process, serving>>

NoConfig == [dev |-> TRUE, weak |-> {}, trusted |-> FALSE, migrateOnly |-> FALSE]
AllIdle == [s \in Slots |-> "idle"]

SInit ==
    /\ Init
    /\ phase = [r \in Runners |-> "down"]
    /\ cfg = [r \in Runners |-> NoConfig]
    /\ step = [r \in Runners |-> AllIdle]
    /\ left = [r \in Runners |-> [s \in Slots |-> 0]]
    /\ requests = 0

-------------------------------------------------------------------------------
(* Boot.                                                                   *)

Become(r, ph) == phase' = [phase EXCEPT ![r] = ph]

Valid(c) == c.dev \/ c.weak \subseteq (IF c.trusted THEN {"plain"} ELSE {})

KeyIsLongEnough(c) == "short" \notin c.weak

(* Load and ValidateForProduction: with a weak configuration the process   *)
(* exits before it touches the database.                                   *)
Start(r, c) ==
    /\ phase[r] = "down"
    /\ Valid(c)
    /\ Boot(r)
    /\ cfg' = [cfg EXCEPT ![r] = c]
    /\ Become(r, "migrating")
    /\ UNCHANGED serving

(* The process is gone, and its requests with it. *)
Gone(r) ==
    /\ Become(r, "down")
    /\ cfg' = [cfg EXCEPT ![r] = NoConfig]
    /\ step' = [step EXCEPT ![r] = AllIdle]
    /\ left' = [left EXCEPT ![r] = [s \in Slots |-> 0]]
    /\ place' = [place EXCEPT ![r] = "off"]
    /\ loaded' = [loaded EXCEPT ![r] = Empty]
    /\ todo' = [todo EXCEPT ![r] = {}]
    /\ result' = [result EXCEPT ![r] = "none"]
    /\ UNCHANGED <<db, lock, ghostTx, runs, requests>>

(* run returns: the error of Migrate, nil in migrate-only mode, or the     *)
(* error of PIIKey, which is only looked at after the schema has changed.  *)
StopsBeforeServing(r) ==
    /\ phase[r] = "migrating"
    /\ \/ place[r] = "failed"
       \/ place[r] = "up" /\ (cfg[r].migrateOnly \/ ~KeyIsLongEnough(cfg[r]))
    /\ Gone(r)
    /\ UNCHANGED faults

(* NewPool fails or cannot be pinged. *)
PoolFails(r) ==
    /\ phase[r] = "migrating" /\ place[r] = "up" /\ ~cfg[r].migrateOnly
    /\ Fault
    /\ Gone(r)

OpenPool(r) ==
    /\ phase[r] = "migrating" /\ place[r] = "up"
    /\ ~cfg[r].migrateOnly /\ KeyIsLongEnough(cfg[r])
    /\ Become(r, "binding")
    /\ UNCHANGED <<migration, faults, cfg, serving>>

Listen(r) ==
    /\ phase[r] = "binding"
    /\ Become(r, "serving")
    /\ UNCHANGED <<migration, faults, cfg, serving>>

(* errCh: the port is taken. *)
ListenFails(r) ==
    /\ phase[r] = "binding"
    /\ Fault
    /\ Become(r, "giving_up")
    /\ UNCHANGED <<migration, cfg, serving>>

-------------------------------------------------------------------------------
(* Serving.                                                                *)

SetStep(r, s, where) == step' = [step EXCEPT ![r][s] = where]

(* Mutation of Held: a handler that keeps its first connection while it    *)
(* asks for the next.                                                      *)
MutHeld(r) ==
    {s \in Slots : \/ step[r][s] = "statement"
                   \/ step[r][s] # "idle" /\ left[r][s] < MaxStatements}

(* The connections in use: none is kept from one statement to the next. *)
Held(r) == {s \in Slots : step[r][s] = "statement"}

(* Which slot a request takes makes no difference. *)
Accept(r) ==
    LET s == CHOOSE t \in Slots : step[r][t] = "idle"
    IN
    /\ phase[r] = "serving" /\ requests < MaxRequests
    /\ \E t \in Slots : step[r][t] = "idle"
    /\ requests' = requests + 1
    /\ SetStep(r, s, "handler")
    /\ left' = [left EXCEPT ![r][s] = MaxStatements]
    /\ UNCHANGED <<migration, faults, process>>

(* The handler asks the pool for a connection, and waits without a limit. *)
Ask(r, s) ==
    /\ step[r][s] = "handler" /\ left[r][s] > 0
    /\ SetStep(r, s, "waiting")
    /\ UNCHANGED <<migration, faults, process, left, requests>>

PoolIsOpen(r) == phase[r] \in {"serving", "draining"}

Obtain(r, s) ==
    /\ step[r][s] = "waiting" /\ PoolIsOpen(r)
    /\ Cardinality(Held(r)) < PoolSize
    /\ left' = [left EXCEPT ![r][s] = @ - 1]
    /\ SetStep(r, s, "statement")
    /\ UNCHANGED <<migration, faults, process, requests>>

Answered(r, s) ==
    /\ step[r][s] = "statement"
    /\ SetStep(r, s, "handler")
    /\ UNCHANGED <<migration, faults, process, left, requests>>

(* The statement fails, the client goes away, or the pool is closed: the   *)
(* handler has an error to report.                                         *)
Errs(r, s) ==
    /\ \/ step[r][s] = "statement" /\ Fault
       \/ step[r][s] = "waiting" /\ Fault
       \/ step[r][s] = "waiting" /\ ~PoolIsOpen(r) /\ UNCHANGED faults
    /\ SetStep(r, s, "handler")
    /\ left' = [left EXCEPT ![r][s] = 0]
    /\ UNCHANGED <<migration, process, requests>>

(* The reply, or the 500 that Recoverer writes for a panic. *)
Respond(r, s) ==
    /\ step[r][s] = "handler"
    /\ SetStep(r, s, "idle")
    /\ left' = [left EXCEPT ![r][s] = 0]
    /\ UNCHANGED <<migration, faults, process, requests>>

-------------------------------------------------------------------------------
(* Shutdown.                                                               *)

(* SIGTERM, now that serve listens for it: the listener closes. *)
Sigterm(r) ==
    /\ phase[r] = "serving"
    /\ Become(r, "draining")
    /\ UNCHANGED <<migration, faults, cfg, serving>>

(* Mutation of Drained: Shutdown is not waited for.                        *)
MutDrained(r) ==
    /\ phase[r] = "draining"
    /\ Become(r, "closing")
    /\ UNCHANGED <<migration, faults, cfg, serving>>

(* Shutdown returns once every connection is idle. *)
Drained(r) ==
    /\ phase[r] = "draining" /\ step[r] = AllIdle
    /\ Become(r, "closing")
    /\ UNCHANGED <<migration, faults, cfg, serving>>

(* Ten seconds were not enough: Shutdown returns the context's error. *)
GraceOver(r) ==
    /\ phase[r] = "draining" /\ step[r] # AllIdle
    /\ Become(r, "giving_up")
    /\ UNCHANGED <<migration, faults, cfg, serving>>

(* The deferred appPool.Close waits for the connections in use; then the   *)
(* process exits, and the handlers that are left end where they are.       *)
Exit(r) ==
    /\ phase[r] \in {"closing", "giving_up"}
    /\ Held(r) = {}
    /\ Gone(r)
    /\ UNCHANGED faults

(* SIGKILL, a crash, or a SIGTERM that comes before serve listens for it.  *)
(* Before the schema is up this is LoseConnection, unless the process was  *)
(* still waiting for the lock.                                             *)
Killed(r) ==
    /\ \/ phase[r] \notin {"down", "migrating"}
       \/ phase[r] = "migrating" /\ place[r] \in {"lock", "up", "failed"}
    /\ Fault
    /\ Gone(r)

-------------------------------------------------------------------------------
(* What the main goroutine does when nothing goes wrong. *)
Main(r) ==
    \/ (Acquire(r) \/ Work(r)) /\ UNCHANGED <<process, serving>>
    \/ StopsBeforeServing(r) \/ OpenPool(r) \/ Listen(r)
    \/ Drained(r) \/ GraceOver(r) \/ Exit(r)

Handler(r, s) == Ask(r, s) \/ Obtain(r, s) \/ Answered(r, s) \/ Respond(r, s)

SNext ==
    \/ \E r \in Runners :
          \/ \E c \in Configs[r] : Start(r, c)
          \/ Main(r) \/ Accept(r) \/ PoolFails(r) \/ ListenFails(r) \/ Sigterm(r) \/ Killed(r)
          \/ (StatementFails(r) \/ LoseConnection(r)) /\ UNCHANGED <<process, serving>>
          \/ \E s \in Slots : Handler(r, s) \/ Errs(r, s)
    \/ (GhostCommits \/ EndSession) /\ UNCHANGED <<process, serving>>

SSpec == SInit /\ [][SNext]_svars

(* A process goes on, the grace period ends, the database answers each     *)
(* statement and ends a dead session, and who waits for the lock or for a  *)
(* connection gets it once nobody is before it any more.                   *)
FairServer ==
    /\ SSpec
    /\ \A r \in Runners : WF_svars(Main(r)) /\ \A s \in Slots : WF_svars(Handler(r, s))
    /\ WF_svars(EndSession /\ UNCHANGED <<process, serving>>)

-------------------------------------------------------------------------------
(* Properties.                                                             *)

ServerTypeOK ==
    /\ TypeOK
    /\ phase \in [Runners -> {"down", "migrating", "binding", "serving", "draining",
                              "closing", "giving_up"}]
    /\ \A r \in Runners : cfg[r] \in Configs[r] \cup {NoConfig}
    /\ step \in [Runners -> [Slots -> {"idle", "handler", "waiting", "statement"}]]
    /\ \A r \in Runners :
          /\ left[r] \in [Slots -> 0..MaxStatements]
          /\ phase[r] \in {"down", "migrating", "binding"} => step[r] = AllIdle
          /\ Cardinality(Held(r)) <= PoolSize

(* "refuses to proceed if a previously applied file has since been         *)
(* edited", "refuses to boot": as long as a process listens, the schema    *)
(* holds the files of its build as they are, whatever other builds did     *)
(* since, and its configuration is neither weak nor migrate-only.          *)
ReadyToServe ==
    \A r \in Runners : phase[r] \notin {"down", "migrating"} =>
       /\ OnOwnSchema(r)
       /\ Valid(cfg[r]) /\ KeyIsLongEnough(cfg[r]) /\ ~cfg[r].migrateOnly

(* A process that stops by itself cuts no statement and no transaction     *)
(* short, even when the grace period ran out, and no request at all when   *)
(* it did not.                                                             *)
OrderlyExit ==
    [][\A r \in Runners :
          phase[r] \in {"closing", "giving_up"} /\ phase'[r] = "down"
          /\ faults' = faults =>
             /\ \A s \in Slots : step[r][s] # "statement"
             /\ phase[r] = "closing" => step[r] = AllIdle]_svars

(* Every request is answered or cut, whatever the pool's limit, and every  *)
(* shutdown ends.                                                          *)
Settles ==
    \A r \in Runners :
       /\ phase[r] \in {"draining", "closing", "giving_up"} ~> phase[r] = "down"
       /\ \A s \in Slots : step[r][s] # "idle" ~> step[r][s] = "idle"
===============================================================================
