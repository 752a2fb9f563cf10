-------------------------------- MODULE Migrate --------------------------------
(***************************************************************************)
(* backend/internal/database/migrate.go: API processes that boot at the    *)
(* same time, perhaps of different builds, each apply the migration files  *)
(* of their own directory under one session-level advisory lock.  A        *)
(* process that dies or loses its connection leaves its database session   *)
(* behind, which keeps the lock, and may still commit, until the server    *)
(* ends it.                                                                *)
(*                                                                         *)
(* A file is a number, in the lexical order of the names, and a build      *)
(* carries the first so many of them.  Contents stand for their checksums. *)
(* Module Server composes these steps with the rest of a process's life.   *)
(***************************************************************************)
EXTENDS Integers, Sequences, FiniteSetsExt

CONSTANTS
    Runners,      \* the processes that boot
    Contents,     \* what a file may hold
    Dir,          \* the directory of each runner's build: file -> content
    NoOne, Ghost, \* the lock's holder: nobody, a session whose client is gone
    MaxRuns,      \* bound: calls of Migrate
    MaxFaults     \* bound: failed statements and lost connections

ASSUME DirAssumption ==
    \A r \in Runners :
       /\ IsFiniteSet(DOMAIN Dir[r]) /\ DOMAIN Dir[r] = 1..Cardinality(DOMAIN Dir[r])
       /\ \A f \in DOMAIN Dir[r] : Dir[r][f] \in Contents
ASSUME HolderAssumption == NoOne \notin Runners /\ Ghost \notin Runners /\ NoOne # Ghost
ASSUME RunBounds == MaxRuns \in Nat /\ MaxFaults \in Nat

VARIABLES
    applied,      \* schema_migrations: file -> checksum
    schema,       \* the contents that ran and were committed, in order
    lock,         \* who holds the advisory lock
    ghostTx,      \* the transaction whose COMMIT the ghost session was sent
    place, loaded, todo, result,   \* each runner; loaded is its copy of applied
    runs, faults

db == <<applied, schema>>
vars == <<applied, schema, lock, ghostTx, place, loaded, todo, result, runs, faults>>

Empty == [f \in {} |-> {}]

Init ==
    /\ applied = Empty
    /\ schema = <<>>
    /\ lock = NoOne
    /\ ghostTx = {}
    /\ place = [r \in Runners |-> "off"]
    /\ loaded = [r \in Runners |-> Empty]
    /\ todo = [r \in Runners |-> {}]
    /\ result = [r \in Runners |-> "none"]
    /\ runs = 0
    /\ faults = 0

-------------------------------------------------------------------------------
Goto(r, where) == place' = [place EXCEPT ![r] = where]
Finish(r, res) == Goto(r, "unlock") /\ result' = [result EXCEPT ![r] = res]
Fault == faults < MaxFaults /\ faults' = faults + 1

NextFile(r) == Min(todo[r])

Known(r) == todo[r] # {} /\ NextFile(r) \in DOMAIN loaded[r]

(* Migrate is called. *)
Boot(r) ==
    /\ place[r] = "off" /\ runs < MaxRuns
    /\ runs' = runs + 1
    /\ Goto(r, "lock")
    /\ UNCHANGED <<db, lock, ghostTx, loaded, todo, result, faults>>

(* Mutation of LockIsFree: pg_try_advisory_lock, its answer not looked at. *)
MutLockIsFree == TRUE

LockIsFree == lock = NoOne

Acquire(r) ==
    /\ place[r] = "lock" /\ LockIsFree
    /\ lock' = r
    /\ Goto(r, "load")
    /\ UNCHANGED <<db, ghostTx, loaded, todo, result, runs, faults>>

(* Mutation of Load: the list of files of another build.                   *)
MutLoad(r) ==
    /\ place[r] = "load"
    /\ loaded' = [loaded EXCEPT ![r] = applied]
    /\ todo' = [todo EXCEPT ![r] = UNION {DOMAIN Dir[q] : q \in Runners}]
    /\ Goto(r, "scan")
    /\ UNCHANGED <<db, lock, ghostTx, result, runs, faults>>

(* CREATE TABLE IF NOT EXISTS, loadApplied, sqlFiles. *)
Load(r) ==
    /\ place[r] = "load"
    /\ loaded' = [loaded EXCEPT ![r] = applied]
    /\ todo' = [todo EXCEPT ![r] = DOMAIN Dir[r]]
    /\ Goto(r, "scan")
    /\ UNCHANGED <<db, lock, ghostTx, result, runs, faults>>

(* Mutation of Edited: a changed checksum is passed over.                  *)
MutEdited(r) == FALSE

Edited(r) == Known(r) /\ loaded[r][NextFile(r)] # Dir[r][NextFile(r)]

Skip(r) ==
    /\ place[r] = "scan" /\ Known(r) /\ ~Edited(r)
    /\ todo' = [todo EXCEPT ![r] = @ \ {NextFile(r)}]
    /\ UNCHANGED <<db, lock, ghostTx, place, loaded, result, runs, faults>>

RefuseEdited(r) ==
    /\ place[r] = "scan" /\ Edited(r)
    /\ Finish(r, "failed")
    /\ UNCHANGED <<db, lock, ghostTx, loaded, todo, runs, faults>>

(* BEGIN, the file's statements and the row of schema_migrations. *)
ApplyOne(r) ==
    /\ place[r] = "scan" /\ todo[r] # {} /\ ~Known(r)
    /\ IF NextFile(r) \in DOMAIN applied THEN Finish(r, "failed")
       ELSE Goto(r, "commit") /\ UNCHANGED result
    /\ UNCHANGED <<db, lock, ghostTx, loaded, todo, runs, faults>>

(* Mutation of Committed: the row is inserted and the file's transaction   *)
(* rolled back.                                                            *)
MutCommitted(f, c) ==
    /\ applied' = [g \in DOMAIN applied \cup {f} |-> IF g = f THEN c ELSE applied[g]]
    /\ schema' = schema

Committed(f, c) ==
    /\ applied' = [g \in DOMAIN applied \cup {f} |-> IF g = f THEN c ELSE applied[g]]
    /\ schema' = Append(schema, <<f, c>>)

Commit(r) ==
    /\ place[r] = "commit"
    /\ Committed(NextFile(r), Dir[r][NextFile(r)])
    /\ todo' = [todo EXCEPT ![r] = @ \ {NextFile(r)}]
    /\ Goto(r, "scan")
    /\ UNCHANGED <<lock, ghostTx, loaded, result, runs, faults>>

AllApplied(r) ==
    /\ place[r] = "scan" /\ todo[r] = {}
    /\ Finish(r, "up")
    /\ UNCHANGED <<db, lock, ghostTx, loaded, todo, runs, faults>>

(* A statement fails; the transaction, if there is one, is rolled back. *)
StatementFails(r) ==
    /\ place[r] \in {"load", "scan", "commit"}
    /\ Fault
    /\ Finish(r, "failed")
    /\ UNCHANGED <<db, lock, ghostTx, loaded, todo, runs>>

(* Mutation of Unlock: an error return that leaves the lock to the pool's  *)
(* connection.                                                             *)
MutUnlock(r) ==
    /\ place[r] = "unlock"
    /\ lock' = IF result[r] = "up" THEN NoOne ELSE lock
    /\ Goto(r, result[r])
    /\ UNCHANGED <<db, ghostTx, loaded, todo, result, runs, faults>>

(* The deferred pg_advisory_unlock, on every return. *)
Unlock(r) ==
    /\ place[r] = "unlock"
    /\ lock' = NoOne
    /\ Goto(r, result[r])
    /\ UNCHANGED <<db, ghostTx, loaded, todo, result, runs, faults>>

(* The process dies, or its connection does: a COMMIT that was sent may    *)
(* still be carried out, and nobody unlocks but the server.                *)
LoseConnection(r) ==
    /\ place[r] \in {"load", "scan", "commit", "unlock"}
    /\ Fault
    /\ lock' = Ghost
    /\ ghostTx' = IF place[r] = "commit" THEN {<<NextFile(r), Dir[r][NextFile(r)]>>} ELSE {}
    /\ Goto(r, "failed")
    /\ UNCHANGED <<db, loaded, todo, result, runs>>

GhostCommits ==
    /\ \E tx \in ghostTx : Committed(tx[1], tx[2])
    /\ ghostTx' = {}
    /\ UNCHANGED <<lock, place, loaded, todo, result, runs, faults>>

EndSession ==
    /\ lock = Ghost
    /\ lock' = NoOne
    /\ ghostTx' = {}
    /\ UNCHANGED <<db, place, loaded, todo, result, runs, faults>>

Work(r) ==
    \/ Load(r) \/ Skip(r) \/ RefuseEdited(r) \/ ApplyOne(r) \/ Commit(r)
    \/ AllApplied(r) \/ Unlock(r)

-------------------------------------------------------------------------------
(* Properties.                                                             *)

TypeOK ==
    /\ DOMAIN applied \subseteq UNION {DOMAIN Dir[r] : r \in Runners}
    /\ \A f \in DOMAIN applied : applied[f] \in Contents
    /\ lock \in Runners \cup {NoOne, Ghost}
    /\ place \in [Runners -> {"off", "lock", "load", "scan", "commit", "unlock", "up",
                              "failed"}]
    /\ \A r \in Runners : todo[r] \subseteq DOMAIN Dir[r]
    /\ result \in [Runners -> {"none", "up", "failed"}]

(* "exactly once", "in lexical order": what ran is what is recorded, each  *)
(* file one time and after all the files before it, whoever applied them   *)
(* and whatever failed or died between a file's statements and its commit. *)
SchemaIsRecorded ==
    /\ Len(schema) = Cardinality(DOMAIN applied)
    /\ \A i \in DOMAIN schema :
          schema[i][1] \in DOMAIN applied /\ applied[schema[i][1]] = schema[i][2]
    /\ \A i, j \in DOMAIN schema : i < j => schema[i][1] < schema[j][1]

(* The copy of schema_migrations a runner decides by stays true of the     *)
(* files it has not come to, until it unlocks: no other runner and no      *)
(* ghost commits meanwhile.                                                *)
SnapshotIsFresh ==
    \A r \in Runners : place[r] \in {"scan", "commit"} =>
       \A f \in todo[r] :
          /\ f \in DOMAIN applied <=> f \in DOMAIN loaded[r]
          /\ f \in DOMAIN applied => applied[f] = loaded[r][f]

(* A process that came up runs on exactly the files of its build. *)
OnOwnSchema(r) ==
    \A f \in DOMAIN Dir[r] : f \in DOMAIN applied /\ applied[f] = Dir[r][f]

(* Every call of Migrate returns, or its process dies: no failed or dead   *)
(* runner keeps the lock.                                                  *)
EveryRunReturns ==
    \A r \in Runners : place[r] = "lock" ~> place[r] \in {"up", "failed", "off"}
===============================================================================
