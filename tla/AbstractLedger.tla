----------------------------- MODULE AbstractLedger -----------------------------
(***************************************************************************)
(* What Engine.Post promises its callers (the comments of ledger.go 122    *)
(* and transfer.go 1): a call either records its posting in one atomic     *)
(* step that moves every balance by exactly the posting's amounts, or      *)
(* returns the posting already recorded under its key, or fails.  A failed *)
(* call may still have recorded its posting: the reply may be lost.        *)
(*                                                                         *)
(* No transaction, lock, retry, wallet creation or int64 is visible here.  *)
(* Module Ledger implements this specification; module Transfer uses it.   *)
(***************************************************************************)
EXTENDS Posting

CONSTANTS Procs, Requests, None

VARIABLES journal, balance, status, req, posting, answer

vars == <<journal, balance, status, req, posting, answer>>

Init ==
    /\ journal = <<>>
    /\ balance = [w \in Wallets |-> 0]
    /\ status = [p \in Procs |-> "idle"]
    /\ req = [p \in Procs |-> None]
    /\ posting = [p \in Procs |-> 0]
    /\ answer = [p \in Procs |-> "none"]

Becomes(p, s, a) ==
    /\ status' = [status EXCEPT ![p] = s]
    /\ answer' = [answer EXCEPT ![p] = a]

(* A call of Post, or one refused at once, leaves the ledger alone. *)
Call(p, r) ==
    /\ status[p] = "idle"
    /\ req' = [req EXCEPT ![p] = r]
    /\ posting' = [posting EXCEPT ![p] = 0]
    /\ Becomes(p, "called", "none") \/ Becomes(p, "idle", "failed")
    /\ UNCHANGED <<journal, balance>>

Record(p) ==
    /\ status[p] = "called"
    /\ Balanced(req[p])
    /\ \A i \in DOMAIN journal : journal[i].key # req[p].key
    /\ journal' = Append(journal, req[p])
    /\ balance' = [w \in Wallets |-> balance[w] + Effect(req[p], w)]
    /\ posting' = [posting EXCEPT ![p] = Len(journal) + 1]
    /\ status' = [status EXCEPT ![p] = "recorded"]
    /\ UNCHANGED <<req, answer>>

AnswerPosted(p) ==
    /\ status[p] = "recorded"
    /\ Becomes(p, "idle", "posted")
    /\ UNCHANGED <<journal, balance, req, posting>>

AnswerReplayed(p) ==
    /\ status[p] = "called"
    /\ \E i \in DOMAIN journal :
          /\ journal[i].key = req[p].key
          /\ posting' = [posting EXCEPT ![p] = i]
    /\ Becomes(p, "idle", "replayed")
    /\ UNCHANGED <<journal, balance, req>>

AnswerFailed(p) ==
    /\ status[p] # "idle"
    /\ Becomes(p, "idle", "failed")
    /\ UNCHANGED <<journal, balance, req, posting>>

(* The server dies: the calls under way get no answer. *)
Crash ==
    /\ status' = [p \in Procs |-> "idle"]
    /\ answer' = [p \in Procs |-> IF status[p] = "idle" THEN answer[p] ELSE "none"]
    /\ UNCHANGED <<journal, balance, req, posting>>

Next ==
    \/ \E p \in Procs : \/ \E r \in Requests : Call(p, r)
                        \/ Record(p)
                        \/ AnswerPosted(p) \/ AnswerReplayed(p) \/ AnswerFailed(p)
    \/ Crash

Spec == Init /\ [][Next]_vars
=================================================================================
