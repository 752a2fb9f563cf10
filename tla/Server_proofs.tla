---------------------------- MODULE Server_proofs ----------------------------
(***************************************************************************)
(* Theorems about the boot of API processes, for every set of builds whose *)
(* directories hold files 1..n, every configuration and every bound.       *)
(***************************************************************************)
EXTENDS Server, FiniteSetTheorems, WellFoundedInduction, TLAPS

Places == {"off", "lock", "load", "scan", "commit", "unlock", "up", "failed"}
Phases == {"down", "migrating", "binding", "serving", "draining", "closing", "giving_up"}

(* Where a runner holds the advisory lock. *)
Locked == {"load", "scan", "commit", "unlock"}

Typing ==
    /\ schema \in Seq(Nat \X Contents)
    /\ lock \in Runners \cup {NoOne, Ghost}
    /\ ghostTx \subseteq Nat \X Contents
    /\ place \in [Runners -> Places]
    /\ DOMAIN loaded = Runners
    /\ DOMAIN todo = Runners
    /\ \A r \in Runners : todo[r] \subseteq DOMAIN Dir[r]
    /\ result \in [Runners -> {"none", "up", "failed"}]
    /\ phase \in [Runners -> Phases]
    /\ DOMAIN cfg = Runners

(* schema_migrations numbers the history. *)
History ==
    /\ DOMAIN applied = 1..Len(schema)
    /\ \A i \in 1..Len(schema) : schema[i] = <<i, applied[i]>>

(* A COMMIT on its way belongs to the session that keeps the lock, and is  *)
(* the next in the history.                                                *)
GhostIsNext ==
    \A tx \in ghostTx : lock = Ghost /\ tx[1] = Len(schema) + 1

(* What a runner that goes through its files has left behind and expects.  *)
Scanning(r) ==
    /\ \A f \in todo[r] : \A g \in DOMAIN Dir[r] : f <= g => g \in todo[r]
    /\ \A f \in DOMAIN Dir[r] \ todo[r] : f \in DOMAIN applied /\ applied[f] = Dir[r][f]
    /\ \A f \in todo[r] :
          /\ f \in DOMAIN applied <=> f \in DOMAIN loaded[r]
          /\ f \in DOMAIN applied => applied[f] = loaded[r][f]

RunnerOK(r) ==
    /\ place[r] \in Locked => lock = r
    /\ place[r] \in {"scan", "commit"} => Scanning(r)
    /\ place[r] = "commit" => todo[r] # {} /\ NextFile(r) = Len(schema) + 1
    /\ place[r] = "unlock" => result[r] \in {"up", "failed"}
    /\ place[r] = "unlock" /\ result[r] = "up" => OnOwnSchema(r)
    /\ place[r] = "up" => OnOwnSchema(r)

(* A process goes on only from a schema that is up and a configuration     *)
(* that may serve.                                                         *)
PhaseOK(r) ==
    /\ phase[r] = "down" => place[r] = "off"
    /\ phase[r] # "down" => Valid(cfg[r])
    /\ phase[r] \notin {"down", "migrating"} =>
          place[r] = "up" /\ KeyIsLongEnough(cfg[r]) /\ ~cfg[r].migrateOnly

IInv ==
    /\ Typing
    /\ History
    /\ GhostIsNext
    /\ \A r \in Runners : RunnerOK(r) /\ PhaseOK(r)

-------------------------------------------------------------------------------
(* Files.                                                                  *)

LEMMA FilesAreNumbered ==
    ASSUME NEW r \in Runners
    PROVE  /\ DOMAIN Dir[r] \subseteq Nat \ {0}
           /\ \A f \in DOMAIN Dir[r] : \A g \in Nat \ {0} : g <= f => g \in DOMAIN Dir[r]
           /\ \A f \in DOMAIN Dir[r] : Dir[r][f] \in Contents
<1>1. Cardinality(DOMAIN Dir[r]) \in Nat
  BY DirAssumption, FS_CardinalityType
<1> DEFINE n == Cardinality(DOMAIN Dir[r])
<1>2. DOMAIN Dir[r] = 1..n /\ \A f \in DOMAIN Dir[r] : Dir[r][f] \in Contents
  BY DirAssumption
<1> QED
  BY <1>1, <1>2

LEMMA LeastOf ==
    ASSUME NEW S, S \subseteq Nat, S # {}
    PROVE  Min(S) \in S /\ \A v \in S : Min(S) <= v
<1>1. PICK x \in S : \A y \in S : ~ (<<y, x>> \in OpToRel(<, Nat))
  BY NatLessThanWellFounded, WFMin
<1>2. \A y \in S : x <= y
  <2> SUFFICES ASSUME NEW y \in S PROVE x <= y
    OBVIOUS
  <2>1. ~(y < x)
    BY <1>1 DEF OpToRel
  <2> QED
    BY <2>1
<1> QED
  BY <1>2 DEF Min

LEMMA NextFileIsLeast ==
    ASSUME Typing, NEW r \in Runners, todo[r] # {}
    PROVE  /\ NextFile(r) \in todo[r] /\ NextFile(r) \in DOMAIN Dir[r]
           /\ NextFile(r) \in Nat \ {0}
           /\ \A f \in todo[r] : NextFile(r) <= f
<1>1. todo[r] \subseteq Nat /\ todo[r] \subseteq DOMAIN Dir[r] /\ DOMAIN Dir[r] \subseteq Nat \ {0}
  BY FilesAreNumbered DEF Typing
<1> QED
  BY <1>1, LeastOf DEF NextFile

(* A file that nobody applied, of a runner that has applied all before it, *)
(* is the next in the history.                                             *)
LEMMA UnappliedIsNext ==
    ASSUME Typing, History, NEW r \in Runners, Scanning(r), todo[r] # {},
           NextFile(r) \notin DOMAIN applied
    PROVE  NextFile(r) = Len(schema) + 1
<1> DEFINE f == NextFile(r)
<1> DEFINE n == Len(schema)
<1>1. f \in todo[r] /\ f \in DOMAIN Dir[r] /\ f \in Nat \ {0} /\ \A g \in todo[r] : f <= g
  BY NextFileIsLeast
<1>2. n \in Nat /\ DOMAIN applied = 1..n
  BY DEF Typing, History
<1>3. f > n
  BY <1>1, <1>2
<1>4. ASSUME f > n + 1 PROVE FALSE
  <2>1. n + 1 \in DOMAIN Dir[r]
    BY <1>1, <1>2, <1>4, FilesAreNumbered
  <2>2. n + 1 \notin todo[r]
    BY <1>1, <1>2, <1>4
  <2>3. n + 1 \in DOMAIN applied
    BY <2>1, <2>2 DEF Scanning
  <2> QED
    BY <1>2, <2>3
<1> QED
  BY <1>1, <1>2, <1>3, <1>4

(* What was applied stays, and stays as it is. *)
Grown == \A f \in DOMAIN applied : f \in DOMAIN applied' /\ applied'[f] = applied[f]

LEMMA CommittedExtends ==
    ASSUME Typing, History, NEW f, NEW c \in Contents, f = Len(schema) + 1, Committed(f, c)
    PROVE  /\ Grown /\ f \in DOMAIN applied' /\ applied'[f] = c
           /\ DOMAIN applied' = DOMAIN applied \cup {f}
           /\ schema' \in Seq(Nat \X Contents) /\ Len(schema') = Len(schema) + 1
           /\ History'
<1> DEFINE n == Len(schema)
<1>1. n \in Nat /\ f = n + 1 /\ schema \in Seq(Nat \X Contents)
  BY DEF Typing
<1>2. DOMAIN applied = 1..n /\ \A i \in 1..n : schema[i] = <<i, applied[i]>>
  BY DEF History
<1>3. applied' = [g \in DOMAIN applied \cup {f} |-> IF g = f THEN c ELSE applied[g]]
  BY DEF Committed
<1>4. f \notin DOMAIN applied
  BY <1>1, <1>2
<1>5. Grown /\ f \in DOMAIN applied' /\ applied'[f] = c /\ DOMAIN applied' = DOMAIN applied \cup {f}
  BY <1>3, <1>4 DEF Grown
<1>6. /\ schema' \in Seq(Nat \X Contents) /\ Len(schema') = n + 1
      /\ \A i \in 1..n : schema'[i] = schema[i]
      /\ schema'[n + 1] = <<f, c>>
  BY <1>1 DEF Committed
<1>7. DOMAIN applied' = 1..(n + 1)
  BY <1>1, <1>2, <1>5
<1>8. \A i \in 1..(n + 1) : schema'[i] = <<i, applied'[i]>>
  <2> SUFFICES ASSUME NEW i \in 1..(n + 1) PROVE schema'[i] = <<i, applied'[i]>>
    OBVIOUS
  <2>1. CASE i = n + 1
    BY <1>1, <1>5, <1>6, <2>1
  <2>2. CASE i # n + 1
    <3>1. i \in 1..n
      BY <1>1, <2>2
    <3> QED
      BY <1>2, <1>5, <1>6, <3>1 DEF Grown
  <2> QED
    BY <2>1, <2>2
<1> QED
  BY <1>5, <1>6, <1>7, <1>8 DEF History

-------------------------------------------------------------------------------
(* A step of one process leaves what is said of the others.                *)

Same(q) ==
    /\ place'[q] = place[q] /\ loaded'[q] = loaded[q]
    /\ todo'[q] = todo[q] /\ result'[q] = result[q]

LEMMA RunnerFrame ==
    ASSUME NEW q \in Runners, RunnerOK(q), Same(q), Grown,
           place[q] \in Locked => lock' = q /\ UNCHANGED db
    PROVE  RunnerOK(q)'
<1> USE DEF Same, Grown, db
<1>1. OnOwnSchema(q) => OnOwnSchema(q)'
  BY DEF OnOwnSchema
<1>2. place[q] \in {"scan", "commit"} => Scanning(q)'
  BY DEF RunnerOK, Scanning, Locked
<1>3. NextFile(q)' = NextFile(q)
  BY DEF NextFile
<1> QED
  BY <1>1, <1>2, <1>3 DEF RunnerOK, Locked

LEMMA ActorMoves ==
    ASSUME IInv, NEW r \in Runners, Typing', History', GhostIsNext', Grown,
           RunnerOK(r)', PhaseOK(r)',
           \A q \in Runners \ {r} :
              /\ Same(q) /\ phase'[q] = phase[q] /\ cfg'[q] = cfg[q]
              /\ lock = q => lock' = q /\ UNCHANGED db
    PROVE  IInv'
<1>1. ASSUME NEW q \in Runners, q # r PROVE RunnerOK(q)' /\ PhaseOK(q)'
  <2>1. RunnerOK(q)'
    BY <1>1, RunnerFrame DEF IInv, RunnerOK
  <2>2. PhaseOK(q)'
    BY <1>1 DEF IInv, PhaseOK, Same, Valid, KeyIsLongEnough
  <2> QED
    BY <2>1, <2>2
<1> QED
  BY <1>1 DEF IInv

(* A step of the process r that leaves the database, the lock and the      *)
(* processes' phases alone.                                                *)
LEMMA PrivateMove ==
    ASSUME IInv, NEW r \in Runners, Typing',
           UNCHANGED <<db, lock, ghostTx, process>>,
           \A q \in Runners \ {r} : Same(q),
           RunnerOK(r)', PhaseOK(r)'
    PROVE  IInv'
<1>1. Grown /\ History' /\ GhostIsNext'
  BY DEF IInv, Grown, History, GhostIsNext, db
<1> QED
  BY <1>1, ActorMoves DEF process, db

-------------------------------------------------------------------------------
(* The steps of Migrate.                                                   *)

LEMMA BootStep ==
    ASSUME IInv, NEW r \in Runners, NEW c \in Configs[r], Start(r, c)
    PROVE  IInv'
<1> USE DEF Start, Boot, Goto, Become, serving
<1>1. Typing' /\ UNCHANGED <<db, lock, ghostTx, loaded, todo, result>>
  BY DEF IInv, Typing, Places, Phases, db
<1>2. /\ place'[r] = "lock" /\ phase'[r] = "migrating" /\ cfg'[r] = c
      /\ \A q \in Runners \ {r} : Same(q) /\ phase'[q] = phase[q] /\ cfg'[q] = cfg[q]
  BY DEF IInv, Typing, Same
<1>3. Grown /\ History' /\ GhostIsNext'
  BY <1>1 DEF IInv, Grown, History, GhostIsNext, db
<1>4. RunnerOK(r)' /\ PhaseOK(r)'
  BY <1>1, <1>2 DEF RunnerOK, PhaseOK, Locked, Valid
<1> QED
  BY <1>1, <1>2, <1>3, <1>4, ActorMoves DEF db

(* A runner that has not come up is of a process that is still migrating.  *)
LEMMA NotUpYet ==
    ASSUME IInv, NEW r \in Runners, place[r] \notin {"off", "up"},
           UNCHANGED <<phase, cfg>>
    PROVE  PhaseOK(r)'
<1>1. phase[r] = "migrating"
  BY DEF IInv, PhaseOK
<1> QED
  BY <1>1 DEF IInv, PhaseOK, Valid

LEMMA AcquireStep ==
    ASSUME IInv, NEW r \in Runners, Acquire(r), UNCHANGED process
    PROVE  IInv'
<1> USE DEF Acquire, LockIsFree, Goto, db, process
<1>1. Typing'
  BY DEF IInv, Typing, Places
<1>2. place'[r] = "load" /\ lock' = r /\ \A q \in Runners \ {r} : Same(q)
  BY DEF IInv, Typing, Same
<1>3. Grown /\ History' /\ GhostIsNext'
  <2>1. Grown /\ History'
    BY DEF IInv, Grown, History
  <2>2. ghostTx = {}
    BY HolderAssumption DEF IInv, GhostIsNext
  <2> QED
    BY <2>1, <2>2 DEF GhostIsNext
<1>4. RunnerOK(r)' /\ PhaseOK(r)'
  BY <1>2, NotUpYet DEF RunnerOK
<1> QED
  BY <1>1, <1>2, <1>3, <1>4, HolderAssumption, ActorMoves

LEMMA LoadStep ==
    ASSUME IInv, NEW r \in Runners, Load(r), UNCHANGED process
    PROVE  IInv'
<1> USE DEF Load, Goto, process
<1>1. Typing' /\ UNCHANGED <<db, lock, ghostTx>>
  BY DEF IInv, Typing, Places, db
<1>2. /\ place'[r] = "scan" /\ loaded'[r] = applied /\ todo'[r] = DOMAIN Dir[r]
      /\ \A q \in Runners \ {r} : Same(q)
  BY DEF IInv, Typing, Same
<1>3. Scanning(r)'
  BY <1>1, <1>2 DEF Scanning, db
<1>4. RunnerOK(r)' /\ PhaseOK(r)'
  BY <1>1, <1>2, <1>3, NotUpYet DEF IInv, RunnerOK, Locked
<1> QED
  BY <1>1, <1>2, <1>4, PrivateMove

LEMMA SkipStep ==
    ASSUME IInv, NEW r \in Runners, Skip(r), UNCHANGED process
    PROVE  IInv'
<1> DEFINE f == NextFile(r)
<1> USE DEF Skip, process
<1>1. todo[r] # {} /\ f \in DOMAIN loaded[r] /\ loaded[r][f] = Dir[r][f]
  BY DEF Known, Edited
<1>2. /\ f \in todo[r] /\ f \in DOMAIN Dir[r] /\ \A g \in todo[r] : f <= g
      /\ todo[r] \subseteq Nat
  BY <1>1, NextFileIsLeast, FilesAreNumbered DEF IInv, Typing
<1>3. Typing' /\ UNCHANGED <<db, lock, ghostTx>>
  BY DEF IInv, Typing, db
<1>4. /\ place'[r] = "scan" /\ loaded'[r] = loaded[r] /\ todo'[r] = todo[r] \ {f}
      /\ result'[r] = result[r] /\ \A q \in Runners \ {r} : Same(q)
  BY DEF IInv, Typing, Same
<1>5. Scanning(r)
  BY DEF IInv, RunnerOK
<1>6. f \in DOMAIN applied /\ applied[f] = Dir[r][f]
  BY <1>1, <1>2, <1>5 DEF Scanning
<1>7. Scanning(r)'
  <2> HIDE DEF f
  <2>1. \A h \in todo'[r] : \A g \in DOMAIN Dir[r] : h <= g => g \in todo'[r]
    <3> SUFFICES ASSUME NEW h \in todo'[r], NEW g \in DOMAIN Dir[r], h <= g
                 PROVE  g \in todo'[r]
      OBVIOUS
    <3>1. h \in todo[r] /\ h # f /\ f <= h /\ h \in Nat /\ f \in Nat /\ g \in Nat
      BY <1>2, <1>4, FilesAreNumbered
    <3>2. g \in todo[r]
      BY <1>5, <3>1 DEF Scanning
    <3> QED
      BY <1>4, <3>1, <3>2
  <2> QED
    BY <1>3, <1>4, <1>5, <1>6, <2>1 DEF Scanning, db
<1>8. RunnerOK(r)' /\ PhaseOK(r)'
  BY <1>3, <1>4, <1>7, NotUpYet DEF IInv, RunnerOK, Locked
<1> QED
  BY <1>3, <1>4, <1>8, PrivateMove

(* A runner gives up, or has come to the end of its files. *)
LEMMA FinishStep ==
    ASSUME IInv, NEW r \in Runners, NEW res \in {"up", "failed"},
           place[r] \in {"load", "scan", "commit"},
           Finish(r, res), res = "up" => OnOwnSchema(r),
           UNCHANGED <<db, lock, ghostTx, loaded, todo, process>>
    PROVE  IInv'
<1> USE DEF Finish, Goto, process, db
<1>1. Typing'
  BY DEF IInv, Typing, Places
<1>2. /\ place'[r] = "unlock" /\ result'[r] = res
      /\ \A q \in Runners \ {r} : Same(q)
  BY DEF IInv, Typing, Same
<1>3. OnOwnSchema(r)' <=> OnOwnSchema(r)
  BY DEF OnOwnSchema
<1>4. RunnerOK(r)' /\ PhaseOK(r)'
  BY <1>2, <1>3, NotUpYet DEF IInv, RunnerOK, Locked
<1> QED
  BY <1>1, <1>2, <1>4, PrivateMove

LEMMA ApplyOneStep ==
    ASSUME IInv, NEW r \in Runners, ApplyOne(r), UNCHANGED process
    PROVE  IInv'
<1> USE DEF ApplyOne
<1>1. CASE NextFile(r) \in DOMAIN applied
  BY <1>1, FinishStep
<1>2. CASE NextFile(r) \notin DOMAIN applied
  <2>1. Goto(r, "commit") /\ UNCHANGED <<db, lock, ghostTx, loaded, todo, result, process>>
    BY <1>2
  <2>2. Typing'
    BY <2>1 DEF IInv, Typing, Places, Goto, db, process
  <2>3. /\ place'[r] = "commit" /\ todo'[r] = todo[r]
        /\ \A q \in Runners \ {r} : Same(q)
    BY <2>1 DEF IInv, Typing, Same, Goto
  <2>4. Scanning(r) /\ NextFile(r) = Len(schema) + 1
    BY <1>2, UnappliedIsNext DEF IInv, RunnerOK
  <2>5. Scanning(r)' /\ NextFile(r)' = NextFile(r)
    BY <2>1, <2>4 DEF Scanning, NextFile, db
  <2>6. RunnerOK(r)' /\ PhaseOK(r)'
    BY <2>1, <2>3, <2>4, <2>5, NotUpYet DEF IInv, RunnerOK, Locked, db, process
  <2> QED
    BY <2>1, <2>2, <2>3, <2>6, PrivateMove
<1> QED
  BY <1>1, <1>2

LEMMA CommitStep ==
    ASSUME IInv, NEW r \in Runners, Commit(r), UNCHANGED process
    PROVE  IInv'
<1> DEFINE f == NextFile(r)
<1> DEFINE c == Dir[r][f]
<1> USE DEF Commit, process
<1>1. lock = r /\ Scanning(r) /\ todo[r] # {} /\ f = Len(schema) + 1
  BY DEF IInv, RunnerOK, Locked
<1>2. /\ f \in todo[r] /\ f \in DOMAIN Dir[r] /\ \A g \in todo[r] : f <= g
      /\ c \in Contents
  BY <1>1, NextFileIsLeast, FilesAreNumbered DEF IInv
<1>3. /\ Grown /\ f \in DOMAIN applied' /\ applied'[f] = c
      /\ DOMAIN applied' = DOMAIN applied \cup {f}
      /\ schema' \in Seq(Nat \X Contents) /\ History'
  BY <1>1, <1>2, CommittedExtends DEF IInv
<1>4. /\ place'[r] = "scan" /\ todo'[r] = todo[r] \ {f} /\ UNCHANGED <<lock, ghostTx, loaded>>
      /\ \A q \in Runners \ {r} : Same(q)
  BY DEF IInv, Typing, Same, Goto
<1>5. Typing'
  BY <1>3 DEF IInv, Typing, Places, Goto
<1>6. GhostIsNext'
  BY <1>1, <1>4, HolderAssumption DEF IInv, GhostIsNext
<1>7. Scanning(r)'
  <2> HIDE DEF f
  <2>1. \A h \in todo'[r] : \A g \in DOMAIN Dir[r] : h <= g => g \in todo'[r]
    <3> SUFFICES ASSUME NEW h \in todo'[r], NEW g \in DOMAIN Dir[r], h <= g
                 PROVE  g \in todo'[r]
      OBVIOUS
    <3>0. todo[r] \subseteq DOMAIN Dir[r]
      BY DEF IInv, Typing
    <3>1. h \in todo[r] /\ h # f /\ f <= h /\ h \in Nat /\ f \in Nat /\ g \in Nat
      BY <1>2, <1>4, <3>0, FilesAreNumbered
    <3>2. g \in todo[r]
      BY <1>1, <3>1 DEF Scanning
    <3> QED
      BY <1>4, <3>1, <3>2
  <2>2. \A h \in DOMAIN Dir[r] \ todo'[r] : h \in DOMAIN applied' /\ applied'[h] = Dir[r][h]
    BY <1>1, <1>3, <1>4 DEF Scanning, Grown
  <2>3. \A h \in todo'[r] : /\ h \in DOMAIN applied' <=> h \in DOMAIN loaded[r]
                            /\ h \in DOMAIN applied' => applied'[h] = loaded[r][h]
    BY <1>1, <1>3, <1>4 DEF Scanning, Grown
  <2> QED
    BY <1>4, <2>1, <2>2, <2>3 DEF Scanning
<1>8. RunnerOK(r)' /\ PhaseOK(r)'
  BY <1>1, <1>4, <1>7, NotUpYet DEF RunnerOK, Locked
<1> QED
  BY <1>1, <1>3, <1>4, <1>5, <1>6, <1>8, ActorMoves

LEMMA UnlockStep ==
    ASSUME IInv, NEW r \in Runners, Unlock(r), UNCHANGED process
    PROVE  IInv'
<1> USE DEF Unlock, Goto, process, db
<1>1. result[r] \in {"up", "failed"} /\ lock = r
  BY DEF IInv, RunnerOK, Locked
<1>2. Typing'
  BY <1>1 DEF IInv, Typing, Places
<1>3. place'[r] = result[r] /\ \A q \in Runners \ {r} : Same(q)
  BY DEF IInv, Typing, Same
<1>4. Grown /\ History' /\ GhostIsNext'
  BY <1>1, HolderAssumption DEF IInv, Grown, History, GhostIsNext
<1>5. OnOwnSchema(r)' <=> OnOwnSchema(r)
  BY DEF OnOwnSchema
<1>6. RunnerOK(r)' /\ PhaseOK(r)'
  BY <1>1, <1>3, <1>5, NotUpYet DEF IInv, RunnerOK, Locked
<1> QED
  BY <1>1, <1>2, <1>3, <1>4, <1>6, HolderAssumption, ActorMoves

LEMMA LoseConnectionStep ==
    ASSUME IInv, NEW r \in Runners, LoseConnection(r), UNCHANGED process
    PROVE  IInv'
<1> USE DEF LoseConnection, Goto, process, db
<1>1. lock = r /\ (place[r] = "commit" => todo[r] # {} /\ NextFile(r) = Len(schema) + 1)
  BY DEF IInv, RunnerOK, Locked
<1>2. ghostTx' \subseteq Nat \X Contents
  <2>1. CASE place[r] = "commit"
    <3>1. NextFile(r) \in Nat /\ Dir[r][NextFile(r)] \in Contents
      BY <1>1, <2>1, NextFileIsLeast, FilesAreNumbered DEF IInv
    <3> QED
      BY <2>1, <3>1
  <2>2. CASE place[r] # "commit"
    BY <2>2
  <2> QED
    BY <2>1, <2>2
<1>3. Typing'
  BY <1>2 DEF IInv, Typing, Places
<1>4. place'[r] = "failed" /\ \A q \in Runners \ {r} : Same(q)
  BY DEF IInv, Typing, Same
<1>5. Grown /\ History' /\ GhostIsNext'
  BY <1>1 DEF IInv, Grown, History, GhostIsNext
<1>6. RunnerOK(r)' /\ PhaseOK(r)'
  BY <1>4, NotUpYet DEF RunnerOK, Locked
<1> QED
  BY <1>1, <1>3, <1>4, <1>5, <1>6, HolderAssumption, ActorMoves

(* The steps of the database server for a session whose client is gone.    *)
LEMMA GhostStep ==
    ASSUME IInv, GhostCommits \/ EndSession, UNCHANGED process
    PROVE  IInv'
<1> USE DEF process
<1>1. lock = Ghost /\ lock' \in {Ghost, NoOne} /\ ghostTx' = {}
      /\ UNCHANGED <<place, loaded, todo, result>>
  BY DEF GhostCommits, EndSession, IInv, GhostIsNext
<1>2. Grown /\ History' /\ schema' \in Seq(Nat \X Contents)
  <2>1. CASE GhostCommits
    <3>1. PICK tx \in ghostTx : Committed(tx[1], tx[2])
      BY <2>1 DEF GhostCommits
    <3>2. tx[1] = Len(schema) + 1 /\ tx[2] \in Contents
      BY DEF IInv, GhostIsNext, Typing
    <3> QED
      BY <3>1, <3>2, CommittedExtends DEF IInv
  <2>2. CASE EndSession
    BY <2>2 DEF EndSession, IInv, Typing, Grown, History, db
  <2> QED
    BY <2>1, <2>2
<1>3. Typing' /\ GhostIsNext'
  BY <1>1, <1>2 DEF IInv, Typing, GhostIsNext
<1>4. ASSUME NEW q \in Runners PROVE RunnerOK(q)' /\ PhaseOK(q)'
  <2>1. RunnerOK(q)'
    BY <1>1, <1>2, HolderAssumption, RunnerFrame DEF IInv, RunnerOK, Same
  <2>2. PhaseOK(q)'
    BY <1>1 DEF IInv, PhaseOK, Valid, KeyIsLongEnough
  <2> QED
    BY <2>1, <2>2
<1> QED
  BY <1>2, <1>3, <1>4 DEF IInv

-------------------------------------------------------------------------------
(* The steps of run, serve and the handlers.                               *)

LEMMA GoneStep ==
    ASSUME IInv, NEW r \in Runners, Gone(r)
    PROVE  IInv'
<1> USE DEF Gone, Become
<1>1. Typing' /\ UNCHANGED <<db, lock, ghostTx>>
  BY DEF IInv, Typing, Places, Phases, db
<1>2. /\ place'[r] = "off" /\ phase'[r] = "down"
      /\ \A q \in Runners \ {r} : Same(q) /\ phase'[q] = phase[q] /\ cfg'[q] = cfg[q]
  BY DEF IInv, Typing, Same
<1>3. Grown /\ History' /\ GhostIsNext'
  BY <1>1 DEF IInv, Grown, History, GhostIsNext, db
<1>4. RunnerOK(r)' /\ PhaseOK(r)'
  BY <1>2 DEF RunnerOK, PhaseOK, Locked
<1> QED
  BY <1>1, <1>2, <1>3, <1>4, ActorMoves DEF db

(* A process whose schema is up moves on. *)
LEMMA PhaseStep ==
    ASSUME IInv, NEW r \in Runners, NEW ph \in Phases \ {"down", "migrating"},
           Become(r, ph), UNCHANGED <<migration, cfg>>,
           place[r] = "up" /\ phase[r] # "down",
           KeyIsLongEnough(cfg[r]) /\ ~cfg[r].migrateOnly
    PROVE  IInv'
<1> USE DEF Become, migration
<1>1. Typing' /\ UNCHANGED <<db, lock, ghostTx>>
  BY DEF IInv, Typing, Phases, db
<1>2. phase'[r] = ph /\ \A q \in Runners : Same(q) /\ (q # r => phase'[q] = phase[q])
  BY DEF IInv, Typing, Same
<1>3. Grown /\ History' /\ GhostIsNext'
  BY <1>1 DEF IInv, Grown, History, GhostIsNext, db
<1>4. RunnerOK(r)'
  BY <1>1, <1>2, <1>3, RunnerFrame DEF IInv, RunnerOK
<1>5. PhaseOK(r)'
  BY <1>2 DEF IInv, PhaseOK, Valid, KeyIsLongEnough, Same
<1> QED
  BY <1>1, <1>2, <1>3, <1>4, <1>5, ActorMoves DEF db

LEMMA LifeStep ==
    ASSUME IInv, NEW r \in Runners,
           \/ OpenPool(r) \/ Listen(r) \/ ListenFails(r)
           \/ Sigterm(r) \/ Drained(r) \/ GraceOver(r)
    PROVE  IInv'
<1> USE DEF Phases
<1>1. CASE OpenPool(r)
  BY <1>1, PhaseStep DEF OpenPool
<1>2. CASE Listen(r) \/ ListenFails(r) \/ Sigterm(r) \/ Drained(r) \/ GraceOver(r)
  <2>1. phase[r] \notin {"down", "migrating"}
    BY <1>2 DEF Listen, ListenFails, Sigterm, Drained, GraceOver
  <2>2. place[r] = "up" /\ KeyIsLongEnough(cfg[r]) /\ ~cfg[r].migrateOnly
    BY <2>1 DEF IInv, PhaseOK
  <2>3. PICK ph \in {"serving", "giving_up", "draining", "closing"} : Become(r, ph)
    BY <1>2 DEF Listen, ListenFails, Sigterm, Drained, GraceOver
  <2>4. UNCHANGED <<migration, cfg>>
    BY <1>2 DEF Listen, ListenFails, Sigterm, Drained, GraceOver
  <2> QED
    BY <2>1, <2>2, <2>3, <2>4, PhaseStep
<1> QED
  BY <1>1, <1>2

LEMMA Frame == IInv /\ UNCHANGED <<migration, process>> => IInv'
<1> SUFFICES ASSUME IInv, UNCHANGED <<migration, process>> PROVE IInv'
  OBVIOUS
<1> USE DEF migration, process, db
<1>1. Typing' /\ Grown /\ History' /\ GhostIsNext'
  BY DEF IInv, Typing, Grown, History, GhostIsNext
<1>2. ASSUME NEW q \in Runners PROVE RunnerOK(q)' /\ PhaseOK(q)'
  <2>1. RunnerOK(q)'
    BY <1>1, RunnerFrame DEF IInv, RunnerOK, Same
  <2>2. PhaseOK(q)'
    BY DEF IInv, PhaseOK, Valid, KeyIsLongEnough
  <2> QED
    BY <2>1, <2>2
<1> QED
  BY <1>1, <1>2 DEF IInv

LEMMA IInvInit == SInit => IInv
<1> SUFFICES ASSUME SInit PROVE IInv
  OBVIOUS
<1> USE DEF SInit, Init
<1>1. Typing
  BY DEF Typing, Places, Phases
<1>2. History /\ GhostIsNext
  BY DEF History, GhostIsNext, Empty
<1>3. ASSUME NEW r \in Runners PROVE RunnerOK(r) /\ PhaseOK(r)
  BY DEF RunnerOK, PhaseOK, Locked
<1> QED
  BY <1>1, <1>2, <1>3 DEF IInv

LEMMA IInvStep == IInv /\ [SNext]_svars => IInv'
<1> SUFFICES ASSUME IInv, [SNext]_svars PROVE IInv'
  OBVIOUS
<1>1. ASSUME NEW r \in Runners, NEW c \in Configs[r], Start(r, c) PROVE IInv'
  BY <1>1, BootStep
<1>2. ASSUME NEW r \in Runners, Acquire(r) \/ Work(r), UNCHANGED process PROVE IInv'
  <2>1. CASE Acquire(r) \/ Load(r) \/ Skip(r) \/ ApplyOne(r) \/ Commit(r) \/ Unlock(r)
    BY <1>2, <2>1, AcquireStep, LoadStep, SkipStep, ApplyOneStep, CommitStep, UnlockStep
  <2>2. CASE RefuseEdited(r)
    BY <1>2, <2>2, FinishStep DEF RefuseEdited
  <2>3. CASE AllApplied(r)
    <3>1. OnOwnSchema(r)
      BY <2>3 DEF AllApplied, IInv, RunnerOK, Scanning, OnOwnSchema
    <3> QED
      BY <1>2, <2>3, <3>1, FinishStep DEF AllApplied
  <2> QED
    BY <1>2, <2>1, <2>2, <2>3 DEF Work
<1>3. ASSUME NEW r \in Runners, StatementFails(r) \/ LoseConnection(r), UNCHANGED process
      PROVE  IInv'
  BY <1>3, FinishStep, LoseConnectionStep DEF StatementFails
<1>4. ASSUME NEW r \in Runners,
             StopsBeforeServing(r) \/ PoolFails(r) \/ Exit(r) \/ Killed(r)
      PROVE  IInv'
  BY <1>4, GoneStep DEF StopsBeforeServing, PoolFails, Exit, Killed
<1>5. ASSUME NEW r \in Runners, Accept(r) PROVE IInv'
  BY <1>5, Frame DEF Accept
<1>6. ASSUME NEW r \in Runners, NEW s \in Slots, Handler(r, s) \/ Errs(r, s) PROVE IInv'
  BY <1>6, Frame DEF Handler, Ask, Obtain, Answered, Errs, Respond, process
<1>7. CASE UNCHANGED svars
  BY <1>7, Frame DEF svars, vars, migration, process, db
<1>8. ASSUME NEW r \in Runners, Main(r) PROVE IInv'
  BY <1>2, <1>4, <1>8, LifeStep DEF Main
<1>9. CASE SNext
  BY <1>1, <1>3, <1>4, <1>5, <1>6, <1>8, <1>9, GhostStep, LifeStep DEF SNext
<1> QED
  BY <1>7, <1>9

THEOREM Invariant == SSpec => []IInv
<1> QED
  BY IInvInit, IInvStep, PTL DEF SSpec

-------------------------------------------------------------------------------
(* Every migration that ran is recorded, ran once, and ran in the order of *)
(* the files, for any number of processes, builds, failures and deaths.    *)
THEOREM SchemaIsAlwaysRecorded == SSpec => []SchemaIsRecorded
<1>1. IInv => SchemaIsRecorded
  <2> SUFFICES ASSUME IInv PROVE SchemaIsRecorded
    OBVIOUS
  <2> DEFINE n == Len(schema)
  <2>1. n \in Nat /\ DOMAIN schema = 1..n /\ DOMAIN applied = 1..n
    BY DEF IInv, Typing, History
  <2>2. Cardinality(1..n) = n
    <3>1. Cardinality(1..n) = IF 1 > n THEN 0 ELSE n - 1 + 1
      BY <2>1, FS_Interval
    <3> QED
      BY <2>1, <3>1
  <2>3. \A i \in 1..n : schema[i][1] = i /\ schema[i][2] = applied[i]
    BY <2>1 DEF IInv, History
  <2> QED
    BY <2>1, <2>2, <2>3 DEF SchemaIsRecorded
<1> QED
  BY <1>1, Invariant, PTL

(* While a process goes through its files, what it read of                 *)
(* schema_migrations stays true of those it has not come to.               *)
THEOREM SnapshotIsAlwaysFresh == SSpec => []SnapshotIsFresh
<1>1. IInv => SnapshotIsFresh
  BY DEF IInv, RunnerOK, Scanning, SnapshotIsFresh
<1> QED
  BY <1>1, Invariant, PTL

(* A process that listens runs on the schema of its build, with a          *)
(* configuration that may serve, however many builds share the database.   *)
THEOREM AlwaysReadyToServe == SSpec => []ReadyToServe
<1>1. IInv => ReadyToServe
  BY DEF IInv, RunnerOK, PhaseOK, ReadyToServe
<1> QED
  BY <1>1, Invariant, PTL

-------------------------------------------------------------------------------
(* The requests of a process and the connections of its pool.              *)

Steps == {"idle", "handler", "waiting", "statement"}

SlotsOK(r) ==
    /\ \A s \in Slots : step[r][s] = "waiting" => left[r][s] > 0
    /\ phase[r] \in {"down", "migrating", "binding", "closing"} => step[r] = AllIdle
    /\ Cardinality(Held(r)) <= PoolSize

ServingInv ==
    /\ step \in [Runners -> [Slots -> Steps]]
    /\ left \in [Runners -> [Slots -> 0..MaxStatements]]
    /\ DOMAIN phase = Runners /\ DOMAIN cfg = Runners
    /\ faults \in Nat
    /\ \A r \in Runners : cfg[r] \in Configs[r] \cup {NoConfig}
    /\ \A r \in Runners : SlotsOK(r)

LEMMA AllIdleHoldsNothing ==
    ASSUME NEW r \in Runners, step[r] = AllIdle
    PROVE  Held(r) = {} /\ Cardinality(Held(r)) <= PoolSize
<1>1. Held(r) = {}
  BY DEF Held, AllIdle
<1> QED
  BY <1>1, FS_EmptySet, PoolAssumption

LEMMA ServingInit == SInit => ServingInv
<1> SUFFICES ASSUME SInit PROVE ServingInv
  OBVIOUS
<1> USE DEF SInit
<1>1. ASSUME NEW r \in Runners PROVE SlotsOK(r)
  <2>1. step[r] = AllIdle /\ left[r] = [s \in Slots |-> 0]
    OBVIOUS
  <2> QED
    BY <2>1, AllIdleHoldsNothing, RequestBounds DEF SlotsOK, AllIdle, Steps
<1> QED
  BY <1>1, RequestBounds DEF ServingInv, Init, AllIdle, Steps

(* The requests of a process that a step leaves alone. *)
LEMMA SlotsFrame ==
    ASSUME NEW q \in Runners, SlotsOK(q), step'[q] = step[q], left'[q] = left[q],
           phase'[q] \in {"down", "migrating", "binding", "closing"} => step[q] = AllIdle
    PROVE  SlotsOK(q)'
<1>1. Held(q)' = Held(q)
  BY DEF Held
<1> QED
  BY <1>1 DEF SlotsOK, AllIdle

(* One request takes a step. *)
LEMMA SlotMoves ==
    ASSUME ServingInv, NEW r \in Runners, NEW s \in Slots, NEW w \in Steps,
           NEW n \in 0..MaxStatements,
           step' = [step EXCEPT ![r][s] = w], left' = [left EXCEPT ![r][s] = n],
           UNCHANGED process, faults' \in Nat,
           w = "waiting" => n > 0,
           w = "statement" => Cardinality(Held(r)) < PoolSize,
           phase[r] \notin {"down", "migrating", "binding", "closing"}
    PROVE  ServingInv'
<1>1. SlotsOK(r) /\ step[r] \in [Slots -> Steps] /\ left[r] \in [Slots -> 0..MaxStatements]
  BY DEF ServingInv
<1>2. /\ step'[r] = [step[r] EXCEPT ![s] = w] /\ left'[r] = [left[r] EXCEPT ![s] = n]
      /\ \A q \in Runners \ {r} : step'[q] = step[q] /\ left'[q] = left[q]
  BY DEF ServingInv
<1>3. Cardinality(Held(r)') <= PoolSize
  <2>1. /\ Held(r) \subseteq Slots /\ IsFiniteSet(Held(r)) /\ Cardinality(Held(r)) \in Nat
        /\ PoolSize \in Nat
    BY PoolAssumption, FS_Subset, FS_CardinalityType DEF Held
  <2>2. CASE w = "statement"
    <3>1. Held(r)' = Held(r) \cup {s}
      BY <1>1, <1>2, <2>2 DEF Held, SlotsOK
    <3>2. \/ Cardinality(Held(r) \cup {s}) = Cardinality(Held(r))
          \/ Cardinality(Held(r) \cup {s}) = Cardinality(Held(r)) + 1
      BY <2>1, FS_AddElement
    <3> QED
      BY <2>1, <2>2, <3>1, <3>2
  <2>3. CASE w # "statement"
    <3>1. Held(r)' \subseteq Held(r)
      BY <1>1, <1>2, <2>3 DEF Held, SlotsOK
    <3>2. Cardinality(Held(r)') <= Cardinality(Held(r)) /\ Cardinality(Held(r)') \in Nat
      BY <2>1, <3>1, FS_Subset, FS_CardinalityType
    <3> QED
      BY <1>1, <2>1, <3>2 DEF SlotsOK
  <2> QED
    BY <2>2, <2>3
<1>4. SlotsOK(r)'
  BY <1>1, <1>2, <1>3 DEF SlotsOK, process
<1>5. ASSUME NEW q \in Runners, q # r PROVE SlotsOK(q)'
  <2>1. SlotsOK(q) /\ phase'[q] = phase[q]
    BY DEF ServingInv, process
  <2> QED
    BY <1>2, <1>5, <2>1, SlotsFrame DEF SlotsOK
<1> QED
  BY <1>4, <1>5 DEF ServingInv, process

LEMMA RequestStep ==
    ASSUME ServingInv, NEW r \in Runners, NEW s \in Slots,
           \/ Handler(r, s)
           \/ Errs(r, s)
    PROVE  ServingInv'
<1> USE DEF SetStep, Steps
<1>1. /\ SlotsOK(r) /\ MaxStatements \in Nat /\ left[r][s] \in 0..MaxStatements
      /\ left = [left EXCEPT ![r][s] = left[r][s]]
  BY RequestBounds DEF ServingInv, SlotsOK
<1>2. step[r][s] # "idle"
  BY DEF Handler, Errs, Ask, Obtain, Answered, Respond
<1>3. phase[r] \notin {"down", "migrating", "binding", "closing"}
  BY <1>1, <1>2 DEF SlotsOK, AllIdle
<1>4. CASE Ask(r, s)
  BY <1>1, <1>3, <1>4, SlotMoves DEF Ask, ServingInv
<1>5. CASE Obtain(r, s)
  <2>1. left[r][s] > 0
    BY <1>1, <1>5 DEF Obtain, SlotsOK
  <2>2. /\ left[r][s] - 1 \in 0..MaxStatements
        /\ left' = [left EXCEPT ![r][s] = left[r][s] - 1]
    BY <1>1, <1>5, <2>1 DEF Obtain, ServingInv
  <2> QED
    BY <1>1, <1>3, <1>5, <2>2, SlotMoves DEF Obtain, ServingInv
<1>6. CASE Answered(r, s)
  BY <1>1, <1>3, <1>6, SlotMoves DEF Answered, ServingInv
<1>7. CASE Errs(r, s) \/ Respond(r, s)
  <2>0. 0 \in 0..MaxStatements
    BY <1>1
  <2>1. faults' \in Nat
    BY <1>7 DEF Errs, Respond, Fault, ServingInv
  <2>2. /\ left' = [left EXCEPT ![r][s] = 0] /\ UNCHANGED process
        /\ \/ step' = [step EXCEPT ![r][s] = "handler"]
           \/ step' = [step EXCEPT ![r][s] = "idle"]
    BY <1>7 DEF Errs, Respond
  <2> QED
    BY <1>3, <2>0, <2>1, <2>2, SlotMoves
<1> QED
  BY <1>4, <1>5, <1>6, <1>7 DEF Handler

LEMMA AcceptStep ==
    ASSUME ServingInv, NEW r \in Runners, Accept(r)
    PROVE  ServingInv'
<1> DEFINE s == CHOOSE t \in Slots : step[r][t] = "idle"
<1>1. s \in Slots
  BY DEF Accept
<1>2. /\ step' = [step EXCEPT ![r][s] = "handler"]
      /\ left' = [left EXCEPT ![r][s] = MaxStatements]
      /\ UNCHANGED <<process, faults>> /\ phase[r] = "serving"
  BY DEF Accept, SetStep
<1>3. MaxStatements \in 0..MaxStatements
  BY RequestBounds
<1> QED
  BY <1>1, <1>2, <1>3, SlotMoves DEF Steps, ServingInv

LEMMA GoneServing ==
    ASSUME ServingInv, NEW r \in Runners, Gone(r), faults' \in Nat
    PROVE  ServingInv'
<1> USE DEF Gone, Become
<1>1. /\ step'[r] = AllIdle /\ left'[r] = [s \in Slots |-> 0] /\ cfg'[r] = NoConfig
      /\ \A q \in Runners \ {r} : /\ step'[q] = step[q] /\ left'[q] = left[q]
                                  /\ phase'[q] = phase[q] /\ cfg'[q] = cfg[q]
  BY DEF ServingInv
<1>2. SlotsOK(r)'
  <2>1. Held(r)' = {}
    BY <1>1 DEF Held, AllIdle
  <2>2. Cardinality(Held(r)') <= PoolSize
    BY <2>1, FS_EmptySet, PoolAssumption
  <2> QED
    BY <1>1, <2>2, RequestBounds DEF SlotsOK, AllIdle, Steps
<1>3. ASSUME NEW q \in Runners, q # r PROVE SlotsOK(q)'
  BY <1>1, <1>3, SlotsFrame DEF ServingInv, SlotsOK
<1>4. /\ step' \in [Runners -> [Slots -> Steps]]
      /\ left' \in [Runners -> [Slots -> 0..MaxStatements]]
  BY RequestBounds DEF ServingInv, AllIdle, Steps
<1> QED
  BY <1>1, <1>2, <1>3, <1>4 DEF ServingInv

(* A process moves on with its requests as they are. *)
LEMMA PhaseServing ==
    ASSUME ServingInv, NEW r \in Runners, NEW ph, Become(r, ph), UNCHANGED serving,
           faults' \in Nat, DOMAIN cfg' = Runners,
           \A q \in Runners : cfg'[q] \in Configs[q] \cup {NoConfig},
           ph \in {"down", "migrating", "binding", "closing"} => step[r] = AllIdle
    PROVE  ServingInv'
<1> USE DEF Become, serving
<1>1. phase'[r] = ph /\ \A q \in Runners \ {r} : phase'[q] = phase[q]
  BY DEF ServingInv
<1>2. ASSUME NEW q \in Runners PROVE SlotsOK(q)'
  BY <1>1, SlotsFrame DEF ServingInv, SlotsOK
<1> QED
  BY <1>2 DEF ServingInv

LEMMA ServingFrame ==
    ASSUME ServingInv, UNCHANGED <<process, serving>>, faults' \in Nat
    PROVE  ServingInv'
<1> USE DEF process, serving
<1>1. ASSUME NEW q \in Runners PROVE SlotsOK(q)'
  BY SlotsFrame DEF ServingInv, SlotsOK
<1> QED
  BY <1>1 DEF ServingInv

LEMMA ServingStep == ServingInv /\ [SNext]_svars => ServingInv'
<1> SUFFICES ASSUME ServingInv, [SNext]_svars PROVE ServingInv'
  OBVIOUS
<1>0. faults \in Nat
  BY DEF ServingInv
<1>1. ASSUME NEW r \in Runners, NEW c \in Configs[r], Start(r, c) PROVE ServingInv'
  <2>1. DOMAIN cfg' = Runners /\ \A q \in Runners : cfg'[q] \in Configs[q] \cup {NoConfig}
    BY <1>1 DEF Start, ServingInv
  <2>2. step[r] = AllIdle /\ Become(r, "migrating") /\ UNCHANGED serving /\ faults' = faults
    BY <1>1 DEF Start, Boot, ServingInv, SlotsOK
  <2> QED
    BY <1>0, <2>1, <2>2, PhaseServing
<1>2. ASSUME NEW r \in Runners,
             \/ Acquire(r) \/ Work(r) \/ StatementFails(r) \/ LoseConnection(r)
             \/ GhostCommits \/ EndSession,
             UNCHANGED <<process, serving>>
      PROVE  ServingInv'
  <2>1. faults' \in Nat
    BY <1>0, <1>2
    DEF Acquire, Work, Load, Skip, RefuseEdited, ApplyOne, Commit, AllApplied, Unlock,
        StatementFails, LoseConnection, GhostCommits, EndSession, Fault
  <2> QED
    BY <1>2, <2>1, ServingFrame
<1>3. ASSUME (GhostCommits \/ EndSession) /\ UNCHANGED <<process, serving>>
      PROVE  ServingInv'
  BY <1>0, <1>3, ServingFrame DEF GhostCommits, EndSession
<1>4. ASSUME NEW r \in Runners,
             StopsBeforeServing(r) \/ PoolFails(r) \/ Exit(r) \/ Killed(r)
      PROVE  ServingInv'
  BY <1>0, <1>4, GoneServing DEF StopsBeforeServing, PoolFails, Exit, Killed, Fault
<1>5. ASSUME NEW r \in Runners,
             \/ OpenPool(r) \/ Listen(r) \/ ListenFails(r)
             \/ Sigterm(r) \/ Drained(r) \/ GraceOver(r)
      PROVE  ServingInv'
  <2>1. UNCHANGED <<cfg, serving>> /\ faults' \in Nat
    BY <1>0, <1>5 DEF OpenPool, Listen, ListenFails, Sigterm, Drained, GraceOver, Fault
  <2>2. CASE OpenPool(r)
    BY <2>1, <2>2, PhaseServing DEF OpenPool, ServingInv, SlotsOK
  <2>3. CASE Drained(r)
    BY <2>1, <2>3, PhaseServing DEF Drained, ServingInv
  <2>4. CASE Listen(r) \/ ListenFails(r) \/ Sigterm(r) \/ GraceOver(r)
    BY <2>1, <2>4, PhaseServing DEF Listen, ListenFails, Sigterm, GraceOver, ServingInv
  <2> QED
    BY <1>5, <2>2, <2>3, <2>4
<1>6. CASE UNCHANGED svars
  BY <1>0, <1>6, ServingFrame DEF svars, vars
<1>7. ASSUME NEW r \in Runners, Main(r) PROVE ServingInv'
  BY <1>2, <1>4, <1>5, <1>7 DEF Main
<1>8. CASE SNext
  BY <1>1, <1>2, <1>3, <1>4, <1>5, <1>7, <1>8, AcceptStep, RequestStep DEF SNext
<1> QED
  BY <1>6, <1>8

THEOREM ServingInvariant == SSpec => []ServingInv
<1> QED
  BY ServingInit, ServingStep, PTL DEF SSpec

(* A process that ends by itself has no statement under way, and after a   *)
(* shutdown that was not cut short by the grace period no request at all.  *)
THEOREM ExitIsOrderly == SSpec => OrderlyExit
<1> DEFINE Orderly(r) ==
      phase[r] \in {"closing", "giving_up"} /\ phase'[r] = "down" /\ faults' = faults =>
         /\ \A s \in Slots : step[r][s] # "statement"
         /\ phase[r] = "closing" => step[r] = AllIdle
<1>1. ASSUME ServingInv, [SNext]_svars, NEW r \in Runners PROVE Orderly(r)
  <2> SUFFICES ASSUME phase[r] \in {"closing", "giving_up"}, phase'[r] = "down",
                      faults' = faults
               PROVE  /\ \A s \in Slots : step[r][s] # "statement"
                      /\ phase[r] = "closing" => step[r] = AllIdle
    OBVIOUS
  <2>1. SlotsOK(r) /\ faults \in Nat /\ DOMAIN phase = Runners
    BY <1>1 DEF ServingInv
  <2>2. PICK p \in Runners : \/ Exit(p) \/ StopsBeforeServing(p)
                             \/ PoolFails(p) \/ Killed(p)
                             \/ \E ph \in Phases \ {"down"} : Become(p, ph)
    <3>1. SNext /\ phase' # phase
      BY <1>1 DEF svars, process
    <3> QED
      BY <3>1
      DEF SNext, Main, Handler, Start, Accept, Sigterm, ListenFails, OpenPool, Listen,
          Drained, GraceOver, Ask, Obtain, Answered, Respond, Errs, process, Phases
  <2>3. p = r
    BY <2>1, <2>2 DEF Exit, StopsBeforeServing, PoolFails, Killed, Gone, Become
  <2>4. Exit(r)
    BY <2>1, <2>2, <2>3 DEF StopsBeforeServing, PoolFails, Killed, Fault, Become
  <2> QED
    BY <2>1, <2>4 DEF Exit, Held, SlotsOK
<1>2. ServingInv /\ [SNext]_svars => [\A r \in Runners : Orderly(r)]_svars
  BY <1>1
<1> QED
  BY <1>2, ServingInvariant, PTL DEF SSpec, OrderlyExit

-------------------------------------------------------------------------------
(* Types.                                                                  *)

Files == UNION {DOMAIN Dir[r] : r \in Runners}

FilesOK ==
    /\ DOMAIN applied \subseteq Files
    /\ \A tx \in ghostTx : tx[1] \in Files

LEMMA FilesStep == IInv /\ FilesOK /\ [SNext]_svars => FilesOK'
<1> SUFFICES ASSUME IInv, FilesOK, [SNext]_svars PROVE FilesOK'
  OBVIOUS
<1> USE DEF FilesOK
<1>1. ASSUME NEW r \in Runners, Commit(r) \/ LoseConnection(r) PROVE FilesOK'
  <2>1. place[r] = "commit" => NextFile(r) \in Files
    BY NextFileIsLeast DEF IInv, RunnerOK, Files
  <2>2. CASE Commit(r)
    BY <2>1, <2>2 DEF Commit, Committed
  <2>3. CASE LoseConnection(r)
    BY <2>1, <2>3 DEF LoseConnection, db
  <2> QED
    BY <1>1, <2>2, <2>3
<1>2. ASSUME GhostCommits PROVE FilesOK'
  BY <1>2 DEF GhostCommits, Committed
<1>3. ASSUME UNCHANGED applied, ghostTx' \subseteq ghostTx PROVE FilesOK'
  BY <1>3
<1>4. CASE EndSession \/ UNCHANGED svars
  BY <1>3, <1>4 DEF EndSession, svars, vars, db
<1>5. ASSUME NEW r \in Runners,
             \/ Acquire(r) \/ Load(r) \/ Skip(r) \/ RefuseEdited(r) \/ ApplyOne(r)
             \/ AllApplied(r) \/ Unlock(r) \/ StatementFails(r)
      PROVE  FilesOK'
  BY <1>3, <1>5
  DEF Acquire, Load, Skip, RefuseEdited, ApplyOne, AllApplied, Unlock, StatementFails, db
<1>6. ASSUME NEW r \in Runners,
             \/ \E c \in Configs[r] : Start(r, c)
             \/ StopsBeforeServing(r) \/ PoolFails(r) \/ OpenPool(r) \/ Listen(r)
             \/ ListenFails(r) \/ Accept(r) \/ Sigterm(r) \/ Drained(r)
             \/ GraceOver(r) \/ Exit(r) \/ Killed(r)
      PROVE  FilesOK'
  BY <1>3, <1>6
  DEF Start, Boot, StopsBeforeServing, PoolFails, Exit, Killed, Gone, OpenPool, Listen,
      ListenFails, Accept, Sigterm, Drained, GraceOver, migration, db
<1>7. ASSUME NEW r \in Runners, NEW s \in Slots, Handler(r, s) \/ Errs(r, s) PROVE FilesOK'
  BY <1>3, <1>7 DEF Handler, Ask, Obtain, Answered, Respond, Errs, migration, db
<1>8. CASE SNext
  BY <1>1, <1>2, <1>4, <1>5, <1>6, <1>7, <1>8 DEF SNext, Main, Work
<1> QED
  BY <1>4, <1>8

(* Every variable keeps its range, no process uses more connections than   *)
(* its pool has, and none has a request before it listens.                 *)
THEOREM ServerTypesHold == SSpec => []ServerTypeOK
<1>1. SInit => FilesOK
  BY DEF SInit, Init, FilesOK, Empty
<1>2. IInv /\ ServingInv /\ FilesOK => ServerTypeOK
  <2> SUFFICES ASSUME IInv, ServingInv, FilesOK PROVE ServerTypeOK
    OBVIOUS
  <2>1. \A f \in DOMAIN applied : applied[f] \in Contents
    <3> SUFFICES ASSUME NEW f \in DOMAIN applied PROVE applied[f] \in Contents
      OBVIOUS
    <3>1. f \in DOMAIN schema /\ schema[f] = <<f, applied[f]>> /\ schema[f] \in Nat \X Contents
      BY DEF IInv, Typing, History
    <3> QED
      BY <3>1
  <2>2. TypeOK
    BY <2>1 DEF IInv, Typing, Places, FilesOK, Files, TypeOK
  <2>3. \A r \in Runners : /\ left[r] \in [Slots -> 0..MaxStatements]
                           /\ phase[r] \in {"down", "migrating", "binding"} => step[r] = AllIdle
                           /\ Cardinality(Held(r)) <= PoolSize
    BY DEF ServingInv, SlotsOK
  <2> QED
    BY <2>2, <2>3 DEF IInv, Typing, ServingInv, Phases, Steps, ServerTypeOK
<1> QED
  BY <1>1, <1>2, FilesStep, Invariant, ServingInvariant, PTL DEF SSpec

===============================================================================
