---------------------------- MODULE Transfer_proofs ----------------------------
(***************************************************************************)
(* Theorems about the transfer service, for every set of users, handlers   *)
(* and calls, every calendar and table of limits, and behaviours of every  *)
(* length.  The balance check and the limit checks are read outside the    *)
(* posting's transaction: what they guarantee is proved for senders that   *)
(* have one call in flight at a time (~Overlap).                           *)
(***************************************************************************)
EXTENDS Transfer, Collections_proofs, TLAPS

-------------------------------------------------------------------------------
(* The ranges of the variables, and what a handler is serving.             *)

Served == {c \in Calls : ~Refused(c)}
Postings == {PostingInput(c) : c \in Served}

Places == {"idle", "balance", "limits", "day", "month", "engine", "posting"}

Typing ==
    /\ journal \in Seq(Postings)
    /\ created \in Seq(0 .. clock) /\ Len(created) = Len(journal)
    /\ clock \in 0 .. LastDay
    /\ balance \in [Wallets -> Int]
    /\ status \in [Procs -> {"idle", "called", "recorded"}]
    /\ req \in [Procs -> Postings \cup {None}]
    /\ posting \in [Procs -> 0 .. Len(journal)]
    /\ answer \in [Procs -> {"none", "posted", "replayed", "failed"}]
    /\ place \in [Procs -> Places]
    /\ call \in [Procs -> Calls \cup {None}]
    /\ outcome \in [Procs -> {"none", "ok", "invalid", "insufficient", "limit",
                              "error"}]
    /\ today \in [Procs -> 0 .. clock]
    /\ began \in [Procs -> 0 .. clock]

Serving ==
    \A p \in Procs :
       /\ place[p] # "idle" => call[p] \in Served /\ outcome[p] = "none"
       /\ place[p] \in {"balance", "limits", "day", "month"} => call[p].op = "p2p"
       /\ status[p] # "idle" => place[p] = "posting"
       /\ place[p] = "posting" =>
             req[p] = PostingInput(call[p]) /\ today[p] <= began[p]

-------------------------------------------------------------------------------
(* The two legs of a posting.                                              *)

LEMMA LegsOf ==
    ASSUME NEW c
    PROVE  /\ DOMAIN PostingInput(c).entries = {1, 2}
           /\ PostingInput(c).entries[1].account = c.from
           /\ PostingInput(c).entries[1].direction = "debit"
           /\ PostingInput(c).entries[1].amount = c.amount
           /\ PostingInput(c).entries[2].account = c.to
           /\ PostingInput(c).entries[2].direction = "credit"
           /\ PostingInput(c).entries[2].amount = c.amount
           /\ PostingInput(c).key = c.key
<1>1. /\ DOMAIN PostingInput(c).entries = {1, 2}
      /\ PostingInput(c).entries[1] = Leg(c, c.from, "debit")
      /\ PostingInput(c).entries[2] = Leg(c, c.to, "credit")
      /\ PostingInput(c).key = c.key
  BY DEF PostingInput
<1> QED
  BY <1>1 DEF Leg

(* The two parties differ: a payment to oneself is refused, and a top-up   *)
(* comes from the external account.                                        *)
LEMMA PartiesDiffer ==
    ASSUME NEW c \in Served
    PROVE  /\ c.from # c.to /\ c.amount \in Int64 /\ c.amount \in Nat \ {0}
           /\ c.from \in Wallets => c.op = "p2p"
           /\ c.op = "p2p" => c.from \in Wallets
BY CallsAssumption, HalfAssumption DEF Served, Refused, Int64

(* A sum over one position is its value.                                   *)
LEMMA SumOfOne ==
    ASSUME NEW f, NEW x, f[x] \in Int
    PROVE  SumFunctionOnSet(f, {x}) = f[x]
<1>1. SumFunctionOnSet(f, {} \cup {x}) = SumFunctionOnSet(f, {}) + f[x]
  BY SumAdds, FS_EmptySet
<1>2. {} \cup {x} = {x}
  OBVIOUS
<1>3. SumFunctionOnSet(f, {x}) = SumFunctionOnSet(f, {}) + f[x]
  BY <1>1, <1>2, Zenon
<1> QED
  BY <1>3, SumOfNothing

(* A posting takes its amount from the payer and gives it to the payee.    *)
LEMMA EffectOf ==
    ASSUME NEW c \in Served, NEW u
    PROVE  Effect(PostingInput(c), u) =
             IF u = c.from THEN -c.amount ELSE IF u = c.to THEN c.amount ELSE 0
<1> DEFINE r == PostingInput(c)
           S == {i \in DOMAIN r.entries : r.entries[i].account = u}
           f == [i \in S |-> Signed(r.entries[i])]
<1>1. Effect(r, u) = SumFunctionOnSet(f, S)
  BY DEF Effect, SumOver, SumFunction
<1>2. /\ r.entries[1].account = c.from /\ Signed(r.entries[1]) = -c.amount
      /\ r.entries[2].account = c.to /\ Signed(r.entries[2]) = c.amount
      /\ DOMAIN r.entries = {1, 2}
  BY LegsOf DEF Signed
<1>3. c.from # c.to /\ c.amount \in Int /\ -c.amount \in Int
  BY PartiesDiffer
<1>4. CASE u = c.from
  <2>1. S = {1} /\ f[1] = -c.amount
    BY <1>2, <1>3, <1>4
  <2>2. SumFunctionOnSet(f, {1}) = f[1]
    <3> HIDE DEF f
    <3>1. f[1] \in Int
      BY <1>3, <2>1
    <3> QED
      BY <3>1, SumOfOne
  <2> HIDE DEF f, S, r
  <2>3. SumFunctionOnSet(f, S) = SumFunctionOnSet(f, {1})
    BY <2>1, Zenon
  <2> QED
    BY <1>1, <1>4, <2>1, <2>2, <2>3 DEF r
<1>5. CASE u = c.to
  <2>1. S = {2} /\ f[2] = c.amount
    BY <1>2, <1>3, <1>5
  <2>2. SumFunctionOnSet(f, {2}) = f[2]
    <3> HIDE DEF f
    <3> QED
      BY <1>3, <2>1, SumOfOne
  <2> HIDE DEF f, S, r
  <2>3. SumFunctionOnSet(f, S) = SumFunctionOnSet(f, {2})
    BY <2>1, Zenon
  <2> QED
    BY <1>1, <1>3, <1>5, <2>1, <2>2, <2>3 DEF r
<1>6. CASE u # c.from /\ u # c.to
  <2>1. S = {}
    BY <1>2, <1>6
  <2> HIDE DEF f, S, r
  <2>2. SumFunctionOnSet(f, S) = SumFunctionOnSet(f, {})
    BY <2>1, Zenon
  <2> QED
    BY <1>1, <1>6, <2>2, SumOfNothing DEF r
<1> QED
  BY <1>4, <1>5, <1>6

LEMMA EffectIsInt == ASSUME NEW r \in Postings, NEW u PROVE Effect(r, u) \in Int
<1>1. PICK c \in Served : r = PostingInput(c)
  BY DEF Postings
<1>2. c.amount \in Int
  BY PartiesDiffer
<1> QED
  BY <1>1, <1>2, EffectOf

(* Only the payer is debited.                                              *)
LEMMA DebitedOf ==
    ASSUME NEW c \in Served, NEW u
    PROVE  Debited(PostingInput(c), u) = IF u = c.from THEN c.amount ELSE 0
<1> DEFINE r == PostingInput(c)
           S == {i \in DOMAIN r.entries : /\ r.entries[i].account = u
                                          /\ r.entries[i].direction = "debit"}
           f == [i \in S |-> r.entries[i].amount]
<1>1. Debited(r, u) = SumFunctionOnSet(f, S)
  BY DEF Debited, SumFunction
<1>2. /\ r.entries[1].account = c.from /\ r.entries[1].direction = "debit"
      /\ r.entries[1].amount = c.amount /\ r.entries[2].direction = "credit"
      /\ DOMAIN r.entries = {1, 2}
  BY LegsOf
<1>3. c.amount \in Int
  BY PartiesDiffer
<1>4. CASE u = c.from
  <2>1. S = {1} /\ f[1] = c.amount
    BY <1>2, <1>4
  <2>2. SumFunctionOnSet(f, {1}) = f[1]
    <3> HIDE DEF f
    <3> QED
      BY <1>3, <2>1, SumOfOne
  <2> HIDE DEF f, S, r
  <2>3. SumFunctionOnSet(f, S) = SumFunctionOnSet(f, {1})
    BY <2>1, Zenon
  <2> QED
    BY <1>1, <1>4, <2>1, <2>2, <2>3 DEF r
<1>5. CASE u # c.from
  <2>1. S = {}
    BY <1>2, <1>5
  <2> HIDE DEF f, S, r
  <2>2. SumFunctionOnSet(f, S) = SumFunctionOnSet(f, {})
    BY <2>1, Zenon
  <2> QED
    BY <1>1, <1>5, <2>2, SumOfNothing DEF r
<1> QED
  BY <1>4, <1>5

-------------------------------------------------------------------------------
LEMMA TypingInit == ServiceInit => Typing /\ Serving
BY CalendarAssumption DEF ServiceInit, Init, Typing, Serving, Places

LEMMA TypingStep == Typing /\ Serving /\ [ServiceNext]_allVars => Typing'
<1> SUFFICES ASSUME Typing, Serving, [ServiceNext]_allVars PROVE Typing'
  OBVIOUS
<1>a. clock \in Nat /\ LastDay \in Nat
  BY CalendarAssumption DEF Typing
<1>1. CASE UNCHANGED allVars
  BY <1>1 DEF Typing, allVars
<1>2. CASE NextDay
  <2>1. 0 .. clock \subseteq 0 .. clock' /\ clock' \in 0 .. LastDay
    BY <1>2, <1>a DEF NextDay
  <2>2. created' \in Seq(0 .. clock')
    BY <1>2, <2>1 DEF NextDay, Typing
  <2>3. today' \in [Procs -> 0 .. clock'] /\ began' \in [Procs -> 0 .. clock']
    BY <1>2, <2>1 DEF NextDay, Typing, handlerVars
  <2> QED
    BY <1>2, <2>1, <2>2, <2>3 DEF NextDay, Typing, ledgerVars, handlerVars
<1>3. CASE ServerCrash
  BY <1>3, <1>a DEF ServerCrash, Crash, Typing, Places
<1>4. ASSUME NEW p \in Procs, Handle(p) PROVE Typing'
  <2>1. CASE \E c \in Calls : Receive(p, c)
    BY <2>1 DEF Receive, Goto, Typing, Places, ledgerVars
  <2>2. CASE \E c \in Calls : Refuse(p, c)
    BY <2>2, <1>a DEF Refuse, Respond, Goto, Typing, Places, ledgerVars
  <2>3. CASE FundsSuffice(p)
    BY <2>3 DEF FundsSuffice, Goto, Typing, Places, ledgerVars
  <2>4. CASE InsufficientFunds(p)
    BY <2>4, <1>a DEF InsufficientFunds, Respond, Goto, Typing, Places, ledgerVars
  <2>5. CASE ReadClock(p)
    BY <2>5, <1>a DEF ReadClock, Goto, Typing, Places, ledgerVars
  <2>6. CASE WithinDaily(p)
    BY <2>6 DEF WithinDaily, Goto, Typing, Places, ledgerVars
  <2>7. CASE WithinMonthly(p)
    BY <2>7 DEF WithinMonthly, Goto, Typing, Places, ledgerVars
  <2>8. CASE LimitExceeded(p)
    BY <2>8, <1>a DEF LimitExceeded, Respond, Goto, Typing, Places, ledgerVars
  <2>9. CASE ReadFails(p)
    BY <2>9, <1>a DEF ReadFails, Respond, Goto, Typing, Places, ledgerVars
  <2>10. CASE CallEngine(p)
    <3>1. PostingInput(call[p]) \in Postings
      BY <2>10 DEF CallEngine, Serving, Postings
    <3>2. Call(p, PostingInput(call[p])) /\ UNCHANGED <<created, clock, call, outcome, today>>
      BY <2>10 DEF CallEngine
    <3>3. /\ UNCHANGED <<journal, balance>>
          /\ req' \in [Procs -> Postings \cup {None}]
          /\ posting' = [posting EXCEPT ![p] = 0]
          /\ Becomes(p, "called", "none") \/ Becomes(p, "idle", "failed")
      BY <3>1, <3>2 DEF Call, Typing
    <3>5. /\ status' \in [Procs -> {"idle", "called", "recorded"}]
          /\ answer' \in [Procs -> {"none", "posted", "replayed", "failed"}]
      BY <3>3 DEF Becomes, Typing
    <3>6. posting' \in [Procs -> 0 .. Len(journal')]
      BY <3>3 DEF Typing
    <3>4. began' \in [Procs -> 0 .. clock] /\ place' \in [Procs -> Places]
      BY <2>10, <1>a DEF CallEngine, Goto, Typing, Places
    <3> QED
      BY <3>2, <3>3, <3>4, <3>5, <3>6 DEF Typing
  <2>11. CASE EngineRecords(p)
    <3>1. Record(p) /\ UNCHANGED <<clock, handlerVars>>
      BY <2>11 DEF EngineRecords
    <3>2. req[p] \in Postings
      BY <3>1 DEF Record, Serving, Postings
    <3>3. journal' \in Seq(Postings) /\ Len(journal') = Len(journal) + 1
      BY <3>1, <3>2 DEF Record, Typing
    <3>4. PICK day \in began[p] .. clock : created' = Append(created, day)
      BY <2>11 DEF EngineRecords
    <3>5. day \in 0 .. clock
      BY <1>a DEF Typing
    <3>6. created' \in Seq(0 .. clock') /\ Len(created') = Len(journal')
      BY <3>1, <3>3, <3>4, <3>5 DEF Typing
    <3>7. balance' \in [Wallets -> Int]
      <4>1. \A w \in Wallets : Effect(req[p], w) \in Int
        BY <3>2, EffectIsInt
      <4> QED
        BY <3>1, <4>1 DEF Record, Typing
    <3>8. posting' \in [Procs -> 0 .. Len(journal')]
      BY <3>1, <3>3 DEF Record, Typing
    <3>9. /\ UNCHANGED <<req, answer>>
          /\ status' \in [Procs -> {"idle", "called", "recorded"}]
      BY <3>1 DEF Record, Typing
    <3>10. UNCHANGED <<clock, place, call, outcome, today, began>>
      BY <3>1 DEF handlerVars
    <3> QED
      BY <3>3, <3>6, <3>7, <3>8, <3>9, <3>10 DEF Typing
  <2>12. CASE EngineAnswers(p)
    <3>1. UNCHANGED <<journal, balance, req, created, clock, handlerVars>>
      BY <2>12 DEF EngineAnswers, AnswerPosted, AnswerReplayed, AnswerFailed
    <3>2. /\ status' \in [Procs -> {"idle", "called", "recorded"}]
          /\ answer' \in [Procs -> {"none", "posted", "replayed", "failed"}]
      BY <2>12 DEF EngineAnswers, AnswerPosted, AnswerReplayed, AnswerFailed, Becomes,
                   Typing
    <3>3. posting' \in [Procs -> 0 .. Len(journal)]
      <4>1. DOMAIN journal = 1 .. Len(journal) /\ Len(journal) \in Nat
        BY DEF Typing
      <4> QED
        BY <2>12, <4>1 DEF EngineAnswers, AnswerPosted, AnswerReplayed, AnswerFailed,
                           Typing
    <3> QED
      BY <3>1, <3>2, <3>3 DEF Typing, handlerVars
  <2>13. CASE Succeed(p)
    BY <2>13, <1>a DEF Succeed, Respond, Goto, Typing, Places, ledgerVars
  <2>14. CASE EngineFailed(p)
    BY <2>14, <1>a DEF EngineFailed, Respond, Goto, Typing, Places, ledgerVars
  <2> QED
    BY <1>4, <2>1, <2>2, <2>3, <2>4, <2>5, <2>6, <2>7, <2>8, <2>9, <2>10, <2>11,
       <2>12, <2>13, <2>14 DEF Handle
<1> QED
  BY <1>1, <1>2, <1>3, <1>4 DEF ServiceNext

LEMMA ServingStep ==
    Typing /\ Serving /\ [ServiceNext]_allVars => Serving'
<1> SUFFICES ASSUME Typing, Serving, [ServiceNext]_allVars PROVE Serving'
  OBVIOUS
<1>1. CASE UNCHANGED allVars
  BY <1>1 DEF Serving, allVars
<1>2. CASE NextDay
  BY <1>2 DEF NextDay, Serving, ledgerVars, handlerVars
<1>3. CASE ServerCrash
  BY <1>3 DEF ServerCrash, Crash, Serving
<1>4. ASSUME NEW p \in Procs, Handle(p) PROVE Serving'
  <2>1. CASE \E c \in Calls : Receive(p, c)
    BY <2>1, CallsAssumption DEF Receive, Goto, Typing, Serving, Served, ledgerVars
  <2>2. CASE \E c \in Calls : Refuse(p, c)
    BY <2>2 DEF Refuse, Respond, Goto, Typing, Serving, ledgerVars
  <2>3. CASE FundsSuffice(p)
    BY <2>3 DEF FundsSuffice, Goto, Typing, Serving, ledgerVars
  <2>4. CASE InsufficientFunds(p)
    BY <2>4 DEF InsufficientFunds, Respond, Goto, Typing, Serving, ledgerVars
  <2>5. CASE ReadClock(p)
    BY <2>5 DEF ReadClock, Goto, Typing, Serving, ledgerVars
  <2>6. CASE WithinDaily(p)
    BY <2>6 DEF WithinDaily, Goto, Typing, Serving, ledgerVars
  <2>7. CASE WithinMonthly(p)
    BY <2>7 DEF WithinMonthly, Goto, Typing, Serving, ledgerVars
  <2>8. CASE LimitExceeded(p)
    BY <2>8 DEF LimitExceeded, Respond, Goto, Typing, Serving, ledgerVars
  <2>9. CASE ReadFails(p)
    BY <2>9 DEF ReadFails, Respond, Goto, Typing, Serving, ledgerVars
  <2>10. CASE CallEngine(p)
    BY <2>10 DEF CallEngine, Call, Becomes, Goto, Typing, Serving
  <2>11. CASE EngineRecords(p)
    BY <2>11 DEF EngineRecords, Record, Typing, Serving, handlerVars
  <2>12. CASE EngineAnswers(p)
    BY <2>12 DEF EngineAnswers, AnswerPosted, AnswerReplayed, AnswerFailed, Becomes,
                 Typing, Serving, handlerVars
  <2>13. CASE Succeed(p)
    BY <2>13 DEF Succeed, Respond, Goto, Typing, Serving, ledgerVars
  <2>14. CASE EngineFailed(p)
    BY <2>14 DEF EngineFailed, Respond, Goto, Typing, Serving, ledgerVars
  <2> QED
    BY <1>4, <2>1, <2>2, <2>3, <2>4, <2>5, <2>6, <2>7, <2>8, <2>9, <2>10, <2>11,
       <2>12, <2>13, <2>14 DEF Handle
<1> QED
  BY <1>1, <1>2, <1>3, <1>4 DEF ServiceNext

-------------------------------------------------------------------------------
(* What one step moves.                                                    *)

(* A handler that serves a payment, and one whose payment has passed the   *)
(* checks before the given places and is not recorded yet.                 *)
Paying(p) == place[p] # "idle" /\ call[p].op = "p2p"
Reached(p, places) == Paying(p) /\ (place[p] \in places \/ status[p] = "called")

AfterBalance == {"limits", "day", "month", "engine"}
AfterClock == {"day", "month", "engine"}
AfterDay == {"month", "engine"}
AfterMonth == {"engine"}

LEMMA OthersStay ==
    ASSUME Typing, NEW p \in Procs, Handle(p), NEW q \in Procs, q # p
    PROVE  /\ place'[q] = place[q] /\ call'[q] = call[q] /\ outcome'[q] = outcome[q]
           /\ status'[q] = status[q] /\ req'[q] = req[q] /\ answer'[q] = answer[q]
           /\ posting'[q] = posting[q] /\ today'[q] = today[q] /\ began'[q] = began[q]
<1>1. CASE \E c \in Calls : Receive(p, c) \/ Refuse(p, c)
  BY <1>1 DEF Receive, Refuse, Respond, Goto, Typing, ledgerVars
<1>2. CASE FundsSuffice(p) \/ InsufficientFunds(p) \/ ReadClock(p)
  BY <1>2 DEF FundsSuffice, InsufficientFunds, ReadClock, Respond, Goto, Typing,
              ledgerVars
<1>3. CASE WithinDaily(p) \/ WithinMonthly(p) \/ LimitExceeded(p) \/ ReadFails(p)
  BY <1>3 DEF WithinDaily, WithinMonthly, LimitExceeded, ReadFails, Respond, Goto,
              Typing, ledgerVars
<1>4. CASE CallEngine(p)
  BY <1>4 DEF CallEngine, Call, Becomes, Goto, Typing
<1>5. CASE EngineRecords(p)
  BY <1>5 DEF EngineRecords, Record, Typing, handlerVars
<1>6. CASE EngineAnswers(p)
  BY <1>6 DEF EngineAnswers, AnswerPosted, AnswerReplayed, AnswerFailed, Becomes,
              Typing, handlerVars
<1>7. CASE Succeed(p) \/ EngineFailed(p)
  BY <1>7 DEF Succeed, EngineFailed, Respond, Goto, Typing, ledgerVars
<1> QED
  BY <1>1, <1>2, <1>3, <1>4, <1>5, <1>6, <1>7 DEF Handle

(* Only a posting that is recorded moves the ledger.                       *)
LEMMA LedgerStays ==
    ASSUME NEW p \in Procs, Handle(p), ~EngineRecords(p)
    PROVE  UNCHANGED <<journal, balance, created, clock>>
<1>1. CASE \E c \in Calls : Receive(p, c) \/ Refuse(p, c)
  BY <1>1 DEF Receive, Refuse, ledgerVars
<1>2. CASE FundsSuffice(p) \/ InsufficientFunds(p) \/ ReadClock(p)
  BY <1>2 DEF FundsSuffice, InsufficientFunds, ReadClock, ledgerVars
<1>3. CASE WithinDaily(p) \/ WithinMonthly(p) \/ LimitExceeded(p) \/ ReadFails(p)
  BY <1>3 DEF WithinDaily, WithinMonthly, LimitExceeded, ReadFails, ledgerVars
<1>4. CASE CallEngine(p)
  BY <1>4 DEF CallEngine, Call
<1>5. CASE EngineAnswers(p)
  BY <1>5 DEF EngineAnswers, AnswerPosted, AnswerReplayed, AnswerFailed
<1>6. CASE Succeed(p) \/ EngineFailed(p)
  BY <1>6 DEF Succeed, EngineFailed, ledgerVars
<1> QED
  BY <1>1, <1>2, <1>3, <1>4, <1>5, <1>6 DEF Handle

(* A payment gets past a check only by the step that makes the check.      *)
Kept(p, places) ==
    Reached(p, places) /\ call'[p] = call[p] /\ today'[p] = today[p]

LEMMA ChecksAreMade ==
    ASSUME Typing, Serving, NEW p \in Procs, Handle(p)
    PROVE  /\ Reached(p, AfterBalance)' => FundsSuffice(p) \/ Kept(p, AfterBalance)
                                            \/ ReadClock(p)
           /\ Reached(p, AfterClock)' => ReadClock(p) \/ Kept(p, AfterClock)
           /\ Reached(p, AfterDay)' => WithinDaily(p) \/ Kept(p, AfterDay)
           /\ Reached(p, AfterMonth)' => WithinMonthly(p) \/ Kept(p, AfterMonth)
<1> USE DEF Reached, Paying, AfterBalance, AfterClock, AfterDay, AfterMonth, Kept
<1>1. CASE \E c \in Calls : Receive(p, c)
  <2>1. PICK c \in Calls : Receive(p, c)
    BY <1>1
  <2>2. status'[p] = "idle" /\ call'[p] = c
    BY <2>1 DEF Receive, Typing, Serving, ledgerVars
  <2>3. place'[p] = IF c.op = "topup" THEN "engine" ELSE "balance"
    BY <2>1 DEF Receive, Goto, Typing
  <2>4. ~(call'[p].op = "p2p" /\ place'[p] = "engine")
    BY <2>2, <2>3
  <2>5. place'[p] \in {"engine", "balance"}
    BY <2>3
  <2> QED
    BY <2>2, <2>4, <2>5
<1>2. CASE \E c \in Calls : Refuse(p, c)
  BY <1>2 DEF Refuse, Respond, Goto, Typing, Serving, ledgerVars
<1>3. CASE FundsSuffice(p) \/ ReadClock(p)
  <2>1. CASE FundsSuffice(p)
    <3>1. place'[p] = "limits" /\ UNCHANGED <<ledgerVars, call, today>>
      BY <2>1 DEF FundsSuffice, Goto, Typing
    <3> QED
      BY <2>1, <3>1 DEF Serving, ledgerVars
  <2>2. CASE ReadClock(p)
    <3>1. place[p] = "limits" /\ place'[p] = "day" /\ UNCHANGED <<ledgerVars, call>>
      BY <2>2 DEF ReadClock, Goto, Typing
    <3> QED
      BY <2>2, <3>1 DEF Serving, ledgerVars
  <2> QED
    BY <1>3, <2>1, <2>2
<1>4. CASE WithinDaily(p) \/ WithinMonthly(p)
  <2>1. CASE WithinDaily(p)
    <3>1. place[p] = "day" /\ place'[p] = "month" /\ UNCHANGED <<ledgerVars, call, today>>
      BY <2>1 DEF WithinDaily, Goto, Typing
    <3> QED
      BY <2>1, <3>1 DEF Serving, ledgerVars
  <2>2. CASE WithinMonthly(p)
    <3>1. place[p] = "month" /\ place'[p] = "engine" /\ UNCHANGED <<ledgerVars, call, today>>
      BY <2>2 DEF WithinMonthly, Goto, Typing
    <3> QED
      BY <2>2, <3>1 DEF Serving, ledgerVars
  <2> QED
    BY <1>4, <2>1, <2>2
<1>5. CASE InsufficientFunds(p) \/ LimitExceeded(p) \/ ReadFails(p)
  BY <1>5 DEF InsufficientFunds, LimitExceeded, ReadFails, Respond, Goto, Typing,
              Serving, ledgerVars
<1>6. CASE CallEngine(p)
  BY <1>6 DEF CallEngine, Call, Becomes, Goto, Typing, Serving
<1>7. CASE EngineRecords(p)
  BY <1>7 DEF EngineRecords, Record, Typing, Serving, handlerVars
<1>8. CASE EngineAnswers(p)
  BY <1>8 DEF EngineAnswers, AnswerPosted, AnswerReplayed, AnswerFailed, Becomes,
              Typing, Serving, handlerVars
<1>9. CASE Succeed(p) \/ EngineFailed(p)
  BY <1>9 DEF Succeed, EngineFailed, Respond, Goto, Typing, Serving, ledgerVars
<1> QED
  BY <1>1, <1>2, <1>3, <1>4, <1>5, <1>6, <1>7, <1>8, <1>9 DEF Handle

(* A call is served as it was received.                                    *)
LEMMA CallsAreReceived ==
    ASSUME Typing, NEW p \in Procs, Handle(p), place'[p] # "idle"
    PROVE  \/ \E c \in Calls : Receive(p, c) /\ call'[p] = c
           \/ place[p] # "idle" /\ call'[p] = call[p]
<1>1. CASE \E c \in Calls : Receive(p, c)
  BY <1>1 DEF Receive, Typing
<1>2. CASE \E c \in Calls : Refuse(p, c)
  BY <1>2 DEF Refuse, Respond, Goto, Typing
<1>3. CASE FundsSuffice(p) \/ ReadClock(p) \/ WithinDaily(p) \/ WithinMonthly(p)
  BY <1>3 DEF FundsSuffice, ReadClock, WithinDaily, WithinMonthly
<1>4. CASE \/ InsufficientFunds(p) \/ LimitExceeded(p) \/ ReadFails(p)
           \/ Succeed(p) \/ EngineFailed(p)
  BY <1>4 DEF InsufficientFunds, LimitExceeded, ReadFails, Succeed, EngineFailed,
              Respond, Goto, Typing
<1>5. CASE CallEngine(p)
  BY <1>5 DEF CallEngine
<1>6. CASE EngineRecords(p) \/ EngineAnswers(p)
  BY <1>6 DEF EngineRecords, EngineAnswers, handlerVars
<1> QED
  BY <1>1, <1>2, <1>3, <1>4, <1>5, <1>6 DEF Handle

-------------------------------------------------------------------------------
(* One payment of a sender at a time, and the money of each payment that   *)
(* has passed the balance check is still there when it is recorded.        *)

Alone ==
    \A p, q \in Procs : Paying(p) /\ Paying(q) /\ p # q => call[p].from # call[q].from

LEMMA AloneStep ==
    ASSUME ~Overlap
    PROVE  Typing /\ Serving /\ Alone /\ [ServiceNext]_allVars => Alone'
<1> SUFFICES ASSUME Typing, Serving, Alone, [ServiceNext]_allVars PROVE Alone'
  OBVIOUS
<1>1. CASE UNCHANGED allVars \/ NextDay
  BY <1>1 DEF NextDay, Alone, Paying, allVars, handlerVars
<1>2. CASE ServerCrash
  BY <1>2 DEF ServerCrash, Alone, Paying
<1>3. ASSUME NEW p \in Procs, Handle(p) PROVE Alone'
  <2>1. ASSUME NEW q \in Procs, q # p, Paying(p)', Paying(q)'
        PROVE  call'[p].from # call'[q].from
    <3>1. Paying(q) /\ call'[q] = call[q]
      BY <1>3, <2>1, OthersStay DEF Paying
    <3>2. CASE \E c \in Calls : Receive(p, c) /\ call'[p] = c
      BY <2>1, <3>1, <3>2 DEF Receive, MayStart, Paying
    <3>3. CASE place[p] # "idle" /\ call'[p] = call[p]
      BY <2>1, <3>1, <3>3 DEF Alone, Paying
    <3> QED
      BY <1>3, <2>1, <3>2, <3>3, CallsAreReceived DEF Paying
  <2>2. ASSUME NEW q \in Procs, NEW r \in Procs, q # p, r # p, q # r,
               Paying(q)', Paying(r)'
        PROVE  call'[q].from # call'[r].from
    BY <1>3, <2>2, OthersStay DEF Alone, Paying
  <2> QED
    BY <2>1, <2>2 DEF Alone
<1> QED
  BY <1>1, <1>2, <1>3 DEF ServiceNext

Funded ==
    /\ \A p \in Procs : Reached(p, AfterBalance) => balance[call[p].from] >= call[p].amount
    /\ NoOverdraft

LEMMA FundedStep ==
    Typing /\ Serving /\ Alone /\ Funded /\ [ServiceNext]_allVars => Funded'
<1> SUFFICES ASSUME Typing, Serving, Alone, Funded, [ServiceNext]_allVars PROVE Funded'
  OBVIOUS
<1>1. CASE UNCHANGED allVars \/ NextDay
  BY <1>1 DEF NextDay, Funded, NoOverdraft, Reached, Paying, allVars, ledgerVars, handlerVars
<1>2. CASE ServerCrash
  BY <1>2 DEF ServerCrash, Crash, Funded, NoOverdraft, Reached, Paying
<1>3. ASSUME NEW p \in Procs, Handle(p), ~EngineRecords(p) PROVE Funded'
  <2>1. balance' = balance
    BY <1>3, LedgerStays
  <2>2. ASSUME NEW q \in Procs, q # p, Reached(q, AfterBalance)'
        PROVE  balance'[call'[q].from] >= call'[q].amount
    BY <1>3, <2>1, <2>2, OthersStay DEF Funded, Reached, Paying
  <2>3. ASSUME Reached(p, AfterBalance)'
        PROVE  balance'[call'[p].from] >= call'[p].amount
    <3>1. CASE FundsSuffice(p)
      BY <2>1, <3>1 DEF FundsSuffice, CanPay
    <3>2. CASE ReadClock(p)
      <4>1. Reached(p, AfterBalance) /\ call'[p] = call[p]
        BY <3>2 DEF ReadClock, Reached, Paying, AfterBalance, Serving
      <4> QED
        BY <2>1, <4>1 DEF Funded
    <3>3. CASE Kept(p, AfterBalance)
      BY <2>1, <3>3 DEF Kept, Funded
    <3> QED
      BY <1>3, <2>3, <3>1, <3>2, <3>3, ChecksAreMade
  <2> QED
    BY <2>1, <2>2, <2>3 DEF Funded, NoOverdraft
<1>4. ASSUME NEW p \in Procs, EngineRecords(p) PROVE Funded'
  <2> DEFINE c == call[p]
  <2>1. c \in Served /\ req[p] = PostingInput(c) /\ place[p] = "posting" /\ status[p] = "called"
    BY <1>4 DEF EngineRecords, Record, Serving
  <2>2. /\ \A w \in Wallets : balance'[w] = balance[w] + Effect(PostingInput(c), w)
        /\ status'[p] = "recorded" /\ place' = place /\ call' = call
    BY <1>4, <2>1 DEF EngineRecords, Record, Typing, handlerVars
  <2>3. \A w \in Wallets : balance[w] \in Int
    BY DEF Typing
  <2>4. c.amount \in Nat
    BY <2>1, PartiesDiffer
  <2> HIDE DEF c
  <2>5. \A w \in Wallets : w # c.from => balance'[w] >= balance[w]
    BY <2>1, <2>2, <2>3, <2>4, EffectOf
  <2>6. c.from \in Wallets => balance'[c.from] = balance[c.from] - c.amount
    BY <2>1, <2>2, <2>3, <2>4, EffectOf
  <2>7. c.from \in Wallets => Paying(p) /\ Reached(p, AfterBalance)
    BY <2>1, PartiesDiffer DEF Paying, Reached, c
  <2>8. NoOverdraft'
    <3>1. ASSUME NEW w \in Wallets PROVE balance'[w] >= 0
      <4>1. CASE w = c.from
        BY <2>3, <2>4, <2>6, <2>7, <4>1 DEF Funded, c
      <4>2. CASE w # c.from
        <5>1. balance[w] >= 0 /\ balance'[w] \in Int
          BY <2>1, <2>2, <2>3, EffectIsInt DEF Funded, NoOverdraft, Postings
        <5> QED
          BY <2>3, <2>5, <4>2, <5>1
      <4> QED
        BY <4>1, <4>2
    <3> QED
      BY <3>1 DEF NoOverdraft
  <2>9. ASSUME NEW q \in Procs, Reached(q, AfterBalance)'
        PROVE  balance'[call'[q].from] >= call'[q].amount
    <3>1. q # p
      BY <2>1, <2>2, <2>9 DEF Reached, AfterBalance
    <3>2. Reached(q, AfterBalance) /\ Paying(q) /\ call'[q] = call[q]
      BY <1>4, <2>2, <2>9, <3>1, OthersStay DEF Reached, Paying, Handle
    <3>3. call[q].from \in Wallets /\ call[q].amount \in Nat
      BY <3>2, PartiesDiffer DEF Paying, Serving
    <3>4. call[q].from # c.from
      BY <2>7, <3>1, <3>2, <3>3 DEF Alone, c
    <3>5. balance[call[q].from] >= call[q].amount
      BY <3>2 DEF Funded
    <3>6. balance'[call[q].from] \in Int
      BY <2>1, <2>2, <2>3, <3>3, EffectIsInt DEF Postings
    <3> QED
      BY <2>3, <2>5, <3>2, <3>3, <3>4, <3>5, <3>6
  <2> QED
    BY <2>8, <2>9 DEF Funded
<1> QED
  BY <1>1, <1>2, <1>3, <1>4 DEF ServiceNext

-------------------------------------------------------------------------------
(* What a user spent: sums over the positions of the journal.              *)

PostedIn(days) == {i \in DOMAIN journal : created[i] \in days}

LEMMA SpentAsSum ==
    ASSUME Typing, NEW u, NEW days, NEW f, f = [i \in DOMAIN journal |-> Debited(journal[i], u)]
    PROVE  /\ SpentIn(u, days) = SumFunctionOnSet(f, PostedIn(days))
           /\ PostedIn(days) \in SUBSET DOMAIN journal /\ IsFiniteSet(PostedIn(days))
           /\ \A i \in DOMAIN journal : f[i] \in Nat
<1> DEFINE T == PostedIn(days)
           g == [i \in T |-> Debited(journal[i], u)]
<1>1. T \in SUBSET DOMAIN journal
  BY DEF PostedIn
<1>2. IsFiniteSet(T)
  <2>1. DOMAIN journal = 1 .. Len(journal) /\ Len(journal) \in Nat
    BY DEF Typing
  <2> QED
    BY <1>1, <2>1, PositionsAreFinite
<1>3. SpentIn(u, days) = SumFunctionOnSet(g, T)
  BY DEF SpentIn, SumFunction, PostedIn
<1>4. \A i \in DOMAIN journal : f[i] \in Nat
  <2> SUFFICES ASSUME NEW i \in DOMAIN journal PROVE Debited(journal[i], u) \in Nat
    OBVIOUS
  <2>1. journal[i] \in Postings
    BY DEF Typing
  <2>2. PICK c \in Served : journal[i] = PostingInput(c)
    BY <2>1 DEF Postings
  <2> QED
    BY <2>2, DebitedOf, PartiesDiffer
<1>5. \A i \in T : g[i] = f[i]
  BY <1>1
<1> HIDE DEF T, g
<1>6. SumFunctionOnSet(g, T) = SumFunctionOnSet(f, T)
  BY <1>2, <1>5, SumAgrees
<1> QED
  BY <1>1, <1>2, <1>3, <1>4, <1>6 DEF T

LEMMA SpentIsNat ==
    ASSUME Typing, NEW u, NEW days
    PROVE  SpentIn(u, days) \in Nat
<1> DEFINE f == [i \in DOMAIN journal |-> Debited(journal[i], u)]
<1> HIDE DEF f
<1>1. /\ SpentIn(u, days) = SumFunctionOnSet(f, PostedIn(days))
      /\ PostedIn(days) \in SUBSET DOMAIN journal /\ IsFiniteSet(PostedIn(days))
      /\ \A i \in DOMAIN journal : f[i] \in Nat
  BY SpentAsSum DEF f
<1> QED
  BY <1>1, SumIsNat

(* Days on which the user spent nothing do not count.                      *)
LEMMA SpentDepends ==
    ASSUME Typing, NEW u, NEW D, NEW E,
           \A i \in DOMAIN journal :
              Debited(journal[i], u) # 0 => (created[i] \in D <=> created[i] \in E)
    PROVE  SpentIn(u, D) = SpentIn(u, E)
<1> DEFINE f == [i \in DOMAIN journal |-> Debited(journal[i], u)]
           I == PostedIn(D) \cap PostedIn(E)
<1>1. \A i \in DOMAIN journal : f[i] = Debited(journal[i], u)
  OBVIOUS
<1>2. f = [i \in DOMAIN journal |-> Debited(journal[i], u)]
  OBVIOUS
<1> HIDE DEF f
<1>3. /\ SpentIn(u, D) = SumFunctionOnSet(f, PostedIn(D))
      /\ PostedIn(D) \in SUBSET DOMAIN journal /\ IsFiniteSet(PostedIn(D))
      /\ \A i \in DOMAIN journal : f[i] \in Nat
  BY <1>2, SpentAsSum
<1>4. /\ SpentIn(u, E) = SumFunctionOnSet(f, PostedIn(E))
      /\ PostedIn(E) \in SUBSET DOMAIN journal /\ IsFiniteSet(PostedIn(E))
  BY <1>2, SpentAsSum
<1>5. /\ \A i \in PostedIn(D) \ I : f[i] = 0
      /\ \A i \in PostedIn(E) \ I : f[i] = 0
  BY <1>1 DEF PostedIn
<1>6. I \in SUBSET PostedIn(D) /\ I \in SUBSET PostedIn(E)
  OBVIOUS
<1> HIDE DEF I
<1>7. SumFunctionOnSet(f, PostedIn(D)) = SumFunctionOnSet(f, I)
  BY <1>3, <1>5, <1>6, SumSkipsZeros
<1>8. SumFunctionOnSet(f, PostedIn(E)) = SumFunctionOnSet(f, I)
  BY <1>3, <1>4, <1>5, <1>6, SumSkipsZeros
<1> QED
  BY <1>3, <1>4, <1>7, <1>8

LEMMA SpentNever ==
    ASSUME Typing, NEW u, NEW D,
           \A i \in DOMAIN journal : Debited(journal[i], u) # 0 => created[i] \notin D
    PROVE  SpentIn(u, D) = 0
<1> DEFINE f == [i \in DOMAIN journal |-> Debited(journal[i], u)]
<1>1. SpentIn(u, D) = SpentIn(u, {})
  BY SpentDepends
<1>2. f = [i \in DOMAIN journal |-> Debited(journal[i], u)]
  OBVIOUS
<1> HIDE DEF f
<1>3. SpentIn(u, {}) = SumFunctionOnSet(f, PostedIn({}))
  BY <1>2, SpentAsSum
<1>4. PostedIn({}) = {}
  BY DEF PostedIn
<1>5. SumFunctionOnSet(f, PostedIn({})) = SumFunctionOnSet(f, {})
  BY <1>4, Zenon
<1> QED
  BY <1>1, <1>3, <1>5, SumOfNothing

(* The query's "since" and the days of the ledger's clock.                 *)
LEMMA OutgoingIsSpent ==
    ASSUME Typing, NEW u, NEW day
    PROVE  OutgoingSince(u, day) = SpentIn(u, {n \in Nat : n >= day})
<1> DEFINE A == {j \in DOMAIN journal : created[j] >= day}
           B == {j \in DOMAIN journal : created[j] \in {n \in Nat : n >= day}}
           f == [i \in A |-> Debited(journal[i], u)]
           g == [i \in B |-> Debited(journal[i], u)]
<1>1. A = B
  <2>1. \A j \in DOMAIN journal : created[j] \in Nat
    <3>1. DOMAIN journal = 1 .. Len(journal) /\ DOMAIN created = 1 .. Len(created)
      BY DEF Typing
    <3> QED
      BY <3>1 DEF Typing
  <2> QED
    BY <2>1
<1>2. OutgoingSince(u, day) = SumFunctionOnSet(f, A)
  BY DEF OutgoingSince, SumFunction
<1>3. SpentIn(u, {n \in Nat : n >= day}) = SumFunctionOnSet(g, B)
  BY DEF SpentIn, SumFunction
<1>4. f = g
  BY <1>1
<1> HIDE DEF A, B, f, g
<1>5. SumFunctionOnSet(f, A) = SumFunctionOnSet(g, B)
  BY <1>1, <1>4, Zenon
<1> QED
  BY <1>2, <1>3, <1>5

(* One more posting.                                                       *)
LEMMA SpentGrows ==
    ASSUME Typing, Typing', NEW c \in Served, NEW day, NEW u, NEW D,
           journal' = Append(journal, PostingInput(c)), created' = Append(created, day)
    PROVE  SpentIn(u, D)' = SpentIn(u, D)
                            + (IF u = c.from /\ day \in D THEN c.amount ELSE 0)
<1> DEFINE n == Len(journal)
           J == 1 .. n
           T == {j \in J : created[j] \in D}
           T1 == {j \in 1 .. n + 1 : created'[j] \in D}
           f == [i \in T |-> Debited(journal[i], u)]
           g == [i \in 1 .. n + 1 |-> Debited(journal'[i], u)]
           g1 == [i \in T1 |-> Debited(journal'[i], u)]
<1>1. /\ n \in Nat /\ DOMAIN journal = J /\ DOMAIN journal' = 1 .. n + 1
      /\ \A i \in J : journal'[i] = journal[i] /\ journal[i] \in Postings
      /\ journal'[n + 1] = PostingInput(c)
  BY DEF Typing
<1>2. /\ \A i \in J : created'[i] = created[i]
      /\ created'[n + 1] = day
  BY DEF Typing
<1>3. SpentIn(u, D) = SumFunctionOnSet(f, T)
  BY <1>1 DEF SpentIn, SumFunction
<1>4. SpentIn(u, D)' = SumFunctionOnSet(g1, T1)
  BY <1>1 DEF SpentIn, SumFunction
<1>5. Debited(PostingInput(c), u) = (IF u = c.from THEN c.amount ELSE 0) /\ c.amount \in Nat
  BY DebitedOf, PartiesDiffer
<1>6. \A i \in 1 .. n + 1 : g[i] \in Int
  <2> SUFFICES ASSUME NEW i \in 1 .. n + 1 PROVE Debited(journal'[i], u) \in Int
    OBVIOUS
  <2>1. journal'[i] \in Postings
    BY <1>1 DEF Typing
  <2>2. PICK e \in Served : journal'[i] = PostingInput(e)
    BY <2>1 DEF Postings
  <2> QED
    BY <2>2, DebitedOf, PartiesDiffer
<1>7. /\ T \subseteq 1 .. n /\ T \subseteq 1 .. n + 1 /\ T1 \subseteq 1 .. n + 1
      /\ n + 1 \notin T
      /\ T1 = IF day \in D THEN T \cup {n + 1} ELSE T
  <2> HIDE DEF n
  <2>1. n \in Nat /\ 1 .. n + 1 = J \cup {n + 1} /\ n + 1 \notin J
    BY <1>1
  <2>2. T \subseteq J /\ T1 \subseteq 1 .. n + 1
    OBVIOUS
  <2>3. \A j \in J : created'[j] \in D <=> created[j] \in D
    BY <1>2
  <2>4. created'[n + 1] = day
    BY <1>2
  <2> HIDE DEF J
  <2>5. T1 = IF day \in D THEN T \cup {n + 1} ELSE T
    BY <2>1, <2>3, <2>4
  <2> QED
    BY <2>1, <2>2, <2>5 DEF J
<1>8. IsFiniteSet(T) /\ IsFiniteSet(T1)
  BY <1>1, <1>7, PositionsAreFinite
<1>9. /\ \A i \in T : f[i] = g[i]
      /\ \A i \in T1 : g1[i] = g[i]
      /\ g[n + 1] = Debited(PostingInput(c), u)
  <2> HIDE DEF n
  <2>1. \A i \in T : i \in 1 .. n + 1 /\ journal'[i] = journal[i]
    BY <1>1
  <2>2. n + 1 \in 1 .. n + 1
    BY <1>1
  <2> QED
    BY <1>1, <2>1, <2>2
<1> HIDE DEF n, J, T, T1, f, g, g1
<1>10. SumFunctionOnSet(f, T) = SumFunctionOnSet(g, T) /\ SumFunctionOnSet(g, T) \in Int
  BY <1>6, <1>7, <1>8, <1>9, SumAgrees, SumIsInt
<1>11. SumFunctionOnSet(g1, T1) = SumFunctionOnSet(g, T1)
  BY <1>8, <1>9, SumAgrees
<1>12. CASE day \in D
  <2>1. SumFunctionOnSet(g, T \cup {n + 1}) = SumFunctionOnSet(g, T) + g[n + 1]
    <3>1. \A i \in T \cup {n + 1} : g[i] \in Int
      BY <1>1, <1>6, <1>7
    <3> QED
      BY <3>1, <1>7, <1>8, SumAdds
  <2>2. SumFunctionOnSet(g, T1) = SumFunctionOnSet(g, T \cup {n + 1})
    <3>1. T1 = T \cup {n + 1}
      BY <1>7, <1>12
    <3> QED
      BY <3>1, Zenon
  <2> QED
    BY <1>3, <1>4, <1>5, <1>9, <1>10, <1>11, <1>12, <2>1, <2>2
<1>13. CASE day \notin D
  <2>1. SumFunctionOnSet(g, T1) = SumFunctionOnSet(g, T)
    <3>1. T1 = T
      BY <1>7, <1>13
    <3> QED
      BY <3>1, Zenon
  <2> QED
    BY <1>3, <1>4, <1>10, <1>11, <1>13, <2>1
<1> QED
  BY <1>12, <1>13

-------------------------------------------------------------------------------
(* The calendar: a day's month is the month that holds the day.            *)

Month(day) == StartOfMonth(day) .. StartOfMonth(day) + DaysPerMonth - 1

LEMMA DaysOfMonth ==
    ASSUME NEW n \in Nat
    PROVE  /\ n = DaysPerMonth * (n \div DaysPerMonth) + (n % DaysPerMonth)
           /\ n % DaysPerMonth \in 0 .. DaysPerMonth - 1 /\ n \div DaysPerMonth \in Nat
BY CalendarAssumption

LEMMA OneRemainder ==
    ASSUME NEW a \in Nat, NEW b \in Nat,
           NEW r \in 0 .. DaysPerMonth - 1, NEW s \in 0 .. DaysPerMonth - 1,
           DaysPerMonth * a + r = DaysPerMonth * b + s
    PROVE  r = s
<1> DEFINE D == DaysPerMonth
<1>0. D \in Nat \ {0}
  BY CalendarAssumption
<1> HIDE DEF D
<1>1. ASSUME NEW x \in Nat, NEW y \in Nat, x < y PROVE D * x + D <= D * y
  <2>1. D * (x + 1) = D * x + D
    BY <1>0
  <2>2. PICK z \in Nat : y = (x + 1) + z
    <3>1. y - (x + 1) \in Nat
      BY <1>1
    <3> QED
      BY <3>1
  <2>3. D * y = D * (x + 1) + D * z /\ D * z \in Nat /\ D * x \in Nat
    BY <1>0, <2>2
  <2> QED
    BY <1>0, <2>1, <2>3
<1>2. D * a \in Nat /\ D * b \in Nat
  BY <1>0
<1>3. r \in 0 .. D - 1 /\ s \in 0 .. D - 1 /\ D * a + r = D * b + s
  BY DEF D
<1>4. CASE a < b
  BY <1>0, <1>1, <1>2, <1>3, <1>4
<1>5. CASE b < a
  BY <1>0, <1>1, <1>2, <1>3, <1>5
<1>6. CASE a = b
  BY <1>0, <1>2, <1>3, <1>6
<1> QED
  BY <1>4, <1>5, <1>6

LEMMA MonthsAgree ==
    ASSUME NEW t \in Nat, NEW day \in Nat, t \in Month(day)
    PROVE  StartOfMonth(t) = StartOfMonth(day)
<1> DEFINE D == DaysPerMonth
           q == day \div D
           k == t \div D
<1>1. day = D * q + (day % D) /\ day % D \in 0 .. D - 1 /\ q \in Nat
  BY DaysOfMonth
<1>2. t = D * k + (t % D) /\ t % D \in 0 .. D - 1 /\ k \in Nat
  BY DaysOfMonth
<1>3. D \in Nat \ {0} /\ D * q \in Nat /\ D * k \in Nat
  BY <1>1, <1>2, CalendarAssumption
<1> HIDE DEF q, k
<1>4. StartOfMonth(day) = D * q /\ StartOfMonth(t) = D * k
  BY <1>1, <1>2, <1>3 DEF StartOfMonth
<1>5. t - D * q \in 0 .. D - 1
  BY <1>3, <1>4 DEF Month
<1>6. D * q + (t - D * q) = D * k + (t % D)
  BY <1>2, <1>3
<1>7. t - D * q = t % D
  BY <1>1, <1>2, <1>5, <1>6, OneRemainder
<1> QED
  BY <1>2, <1>3, <1>4, <1>7

LEMMA MonthHasDay ==
    ASSUME NEW t \in Nat
    PROVE  /\ StartOfMonth(t) \in Nat /\ StartOfMonth(t) <= t
           /\ t <= StartOfMonth(t) + DaysPerMonth - 1
<1> DEFINE D == DaysPerMonth
           q == t \div D
           r == t % D
<1>1. t = D * q + r /\ r \in 0 .. D - 1 /\ q \in Nat /\ D \in Nat \ {0}
  BY DaysOfMonth, CalendarAssumption
<1>2. D * q \in Nat
  BY <1>1
<1>3. StartOfMonth(t) = t - r
  BY DEF StartOfMonth
<1> HIDE DEF D, q, r
<1> QED
  BY <1>1, <1>2, <1>3 DEF D

-------------------------------------------------------------------------------
(* The limits: no day and no month holds more than they allow, and a       *)
(* payment that has passed a check still fits, because nobody else spends  *)
(* for its sender.  The int64 additions of the checks must not wrap: this  *)
(* is so when an amount and a limit together fit an int64.                 *)

SumsFit ==
    \A c \in Served : c.op = "p2p" =>
       /\ LimitsFor(c.from).daily + c.amount \in Int64
       /\ LimitsFor(c.from).monthly + c.amount \in Int64

Dated ==
    \A p \in Procs, u \in Wallets :
       Reached(p, AfterClock) /\ call[p].from = u =>
          \A i \in DOMAIN journal : Debited(journal[i], u) # 0 => created[i] <= today[p]

FitsDay ==
    \A p \in Procs, u \in Wallets, t \in Nat :
       Reached(p, AfterDay) /\ call[p].from = u /\ today[p] = t =>
          SpentIn(u, {t}) + call[p].amount <= LimitsFor(u).daily

FitsMonth ==
    \A p \in Procs, u \in Wallets, t \in Nat :
       Reached(p, AfterMonth) /\ call[p].from = u /\ today[p] = t =>
          SpentIn(u, Month(t)) + call[p].amount <= LimitsFor(u).monthly

Capped ==
    \A u \in Wallets, day \in Nat :
       /\ SpentIn(u, {day}) <= LimitsFor(u).daily
       /\ SpentIn(u, Month(day)) <= LimitsFor(u).monthly

Limited == Dated /\ FitsDay /\ FitsMonth /\ Capped

LEMMA LimitsAreNat ==
    ASSUME NEW u \in Wallets
    PROVE  LimitsFor(u).daily \in Nat /\ LimitsFor(u).monthly \in Nat
<1>1. Half \in Nat \ {0}
  BY HalfAssumption
<1>2. (IF Level[u] \in DOMAIN LimitsByLevel THEN Level[u] ELSE 0) \in DOMAIN LimitsByLevel
  BY LimitsAssumption
<1>3. LimitsFor(u) \in [daily : 0 .. Half - 1, monthly : 0 .. Half - 1]
  BY <1>2, LimitsAssumption DEF LimitsFor
<1> QED
  BY <1>1, <1>3

(* A total that the check compares is the exact one.                       *)
LEMMA TotalIsExact ==
    ASSUME NEW spent \in Nat, NEW amount \in Nat, NEW limit \in Nat,
           spent <= limit, limit + amount \in Int64
    PROVE  Wrap(spent + amount) = spent + amount
<1>1. Half \in Nat \ {0}
  BY HalfAssumption
<1>2. spent + amount \in -Half .. Half - 1
  BY <1>1 DEF Int64
<1> QED
  BY <1>1, <1>2, ModKeeps DEF Wrap

LEMMA LimitedInit == ServiceInit => Limited
<1> SUFFICES ASSUME ServiceInit PROVE Limited
  OBVIOUS
<1>1. \A p \in Procs : place[p] = "idle" /\ status[p] = "idle"
  BY DEF ServiceInit, Init
<1>2. Dated /\ FitsDay /\ FitsMonth
  BY <1>1 DEF Dated, FitsDay, FitsMonth, Reached, Paying
<1>3. Typing /\ journal = <<>>
  BY TypingInit DEF ServiceInit, Init
<1>4. ASSUME NEW u \in Wallets, NEW D PROVE SpentIn(u, D) = 0
  BY <1>3, SpentNever
<1>5. Capped
  BY <1>4, LimitsAreNat DEF Capped
<1> QED
  BY <1>2, <1>5 DEF Limited

LEMMA SpentStays ==
    ASSUME UNCHANGED <<journal, created>>, NEW u, NEW D
    PROVE  SpentIn(u, D)' = SpentIn(u, D)
BY DEF SpentIn

(* A step that moves neither the ledger nor a handler.                     *)
LEMMA LimitedStays ==
    ASSUME Limited, UNCHANGED <<journal, created>>,
           \/ UNCHANGED <<place, call, status, today>>
           \/ \A p \in Procs : place'[p] = "idle"
    PROVE  Limited'
<1>1. \A p \in Procs : place'[p] # "idle" =>
         /\ place'[p] = place[p] /\ call'[p] = call[p]
         /\ status'[p] = status[p] /\ today'[p] = today[p]
  OBVIOUS
<1>2. Dated'
  BY <1>1 DEF Limited, Dated, Reached, Paying
<1>3. FitsDay'
  BY <1>1, SpentStays DEF Limited, FitsDay, Reached, Paying
<1>4. FitsMonth'
  BY <1>1, SpentStays DEF Limited, FitsMonth, Reached, Paying
<1>5. Capped'
  BY SpentStays DEF Limited, Capped
<1> QED
  BY <1>2, <1>3, <1>4, <1>5 DEF Limited

LEMMA DatesOf ==
    ASSUME Typing
    PROVE  /\ clock \in Nat
           /\ \A i \in DOMAIN journal : created[i] \in Nat /\ created[i] <= clock
           /\ \A p \in Procs : /\ today[p] \in Nat /\ today[p] <= clock
                                /\ began[p] \in Nat /\ began[p] <= clock
<1>1. clock \in Nat /\ DOMAIN journal = 1 .. Len(journal) /\ DOMAIN created = 1 .. Len(journal)
  BY CalendarAssumption DEF Typing
<1> QED
  BY <1>1 DEF Typing

(* What the checks of one handler establish.                               *)
LEMMA DayChecked ==
    ASSUME SumsFit, Typing, Serving, Limited, NEW p \in Procs, WithinDaily(p),
           NEW u \in Wallets, u = call[p].from, NEW t \in Nat, t = today[p]
    PROVE  SpentIn(u, {t}) + call[p].amount <= LimitsFor(u).daily
<1>1. place[p] = "day" /\ call[p] \in Served /\ call[p].op = "p2p"
  BY DEF WithinDaily, Serving
<1>2. Reached(p, AfterClock)
  BY <1>1 DEF Reached, AfterClock, Paying
<1>3. \A i \in DOMAIN journal : Debited(journal[i], u) # 0 => created[i] <= t
  BY <1>2 DEF Limited, Dated
<1>4. OutgoingSince(u, t) = SpentIn(u, {t})
  <2>1. \A i \in DOMAIN journal : Debited(journal[i], u) # 0 =>
           (created[i] \in {n \in Nat : n >= t} <=> created[i] \in {t})
    BY <1>3, DatesOf
  <2>2. SpentIn(u, {n \in Nat : n >= t}) = SpentIn(u, {t})
    BY <2>1, SpentDepends
  <2> QED
    BY <2>2, OutgoingIsSpent
<1>5. Wrap(OutgoingSince(u, t) + call[p].amount) <= LimitsFor(u).daily
  BY DEF WithinDaily, DayTotal
<1>6. SpentIn(u, {t}) \in Nat /\ SpentIn(u, {t}) <= LimitsFor(u).daily
  BY SpentIsNat DEF Limited, Capped
<1>7. LimitsFor(u).daily + call[p].amount \in Int64 /\ call[p].amount \in Nat
  BY <1>1, PartiesDiffer DEF SumsFit
<1>8. Wrap(SpentIn(u, {t}) + call[p].amount) = SpentIn(u, {t}) + call[p].amount
  BY <1>6, <1>7, LimitsAreNat, TotalIsExact
<1> QED
  BY <1>4, <1>5, <1>8

LEMMA MonthChecked ==
    ASSUME SumsFit, Typing, Serving, Limited, NEW p \in Procs, WithinMonthly(p),
           NEW u \in Wallets, u = call[p].from, NEW t \in Nat, t = today[p]
    PROVE  SpentIn(u, Month(t)) + call[p].amount <= LimitsFor(u).monthly
<1>1. place[p] = "month" /\ call[p] \in Served /\ call[p].op = "p2p"
  BY DEF WithinMonthly, Serving
<1>2. Reached(p, AfterClock)
  BY <1>1 DEF Reached, AfterClock, Paying
<1>3. \A i \in DOMAIN journal : Debited(journal[i], u) # 0 => created[i] <= t
  BY <1>2 DEF Limited, Dated
<1> DEFINE first == StartOfMonth(t)
<1>4. OutgoingSince(u, first) = SpentIn(u, Month(t))
  <2>1. first \in Nat /\ t <= first + DaysPerMonth - 1
    BY MonthHasDay
  <2>2. DaysPerMonth \in Nat
    BY CalendarAssumption
  <2>3. \A i \in DOMAIN journal : Debited(journal[i], u) # 0 =>
           (created[i] \in {n \in Nat : n >= first}
              <=> created[i] \in first .. first + DaysPerMonth - 1)
    <3> HIDE DEF first
    <3> QED
      BY <1>3, <2>1, <2>2, DatesOf
  <2>4. SpentIn(u, {n \in Nat : n >= first}) = SpentIn(u, first .. first + DaysPerMonth - 1)
    BY <2>3, SpentDepends
  <2> QED
    BY <2>4, OutgoingIsSpent DEF Month
<1>5. Wrap(OutgoingSince(u, first) + call[p].amount) <= LimitsFor(u).monthly
  BY DEF WithinMonthly, MonthTotal
<1>6. SpentIn(u, Month(t)) \in Nat /\ SpentIn(u, Month(t)) <= LimitsFor(u).monthly
  BY SpentIsNat DEF Limited, Capped
<1>7. LimitsFor(u).monthly + call[p].amount \in Int64 /\ call[p].amount \in Nat
  BY <1>1, PartiesDiffer DEF SumsFit
<1>8. Wrap(SpentIn(u, Month(t)) + call[p].amount) = SpentIn(u, Month(t)) + call[p].amount
  BY <1>6, <1>7, LimitsAreNat, TotalIsExact
<1> QED
  BY <1>4, <1>5, <1>8

LEMMA CheckedStep ==
    ASSUME SumsFit, Typing, Serving, Limited, NEW p \in Procs, Handle(p), ~EngineRecords(p)
    PROVE  Limited'
<1>1. UNCHANGED <<journal, balance, created, clock>>
  BY LedgerStays
<1>2. ASSUME NEW q \in Procs, q # p
      PROVE  /\ place'[q] = place[q] /\ call'[q] = call[q]
             /\ status'[q] = status[q] /\ today'[q] = today[q]
  BY <1>2, OthersStay
<1>3. Dated'
  <2> SUFFICES ASSUME NEW q \in Procs, NEW u \in Wallets,
                      Reached(q, AfterClock)', call'[q].from = u,
                      NEW i \in DOMAIN journal, Debited(journal[i], u) # 0
               PROVE  created[i] <= today'[q]
    BY <1>1 DEF Dated
  <2>1. CASE q # p
    BY <1>2, <2>1 DEF Limited, Dated, Reached, Paying
  <2>2. CASE q = p
    <3>1. CASE ReadClock(p)
      BY <2>2, <3>1, DatesOf DEF ReadClock, Typing
    <3>2. CASE Kept(p, AfterClock)
      BY <2>2, <3>2 DEF Kept, Limited, Dated
    <3> QED
      BY <2>2, <3>1, <3>2, ChecksAreMade
  <2> QED
    BY <2>1, <2>2
<1>4. FitsDay'
  <2> SUFFICES ASSUME NEW q \in Procs, NEW u \in Wallets, NEW t \in Nat,
                      Reached(q, AfterDay)', call'[q].from = u, today'[q] = t
               PROVE  SpentIn(u, {t})' + call'[q].amount <= LimitsFor(u).daily
    BY DEF FitsDay
  <2>0. SpentIn(u, {t})' = SpentIn(u, {t})
    BY <1>1, SpentStays
  <2>1. CASE q # p
    BY <1>2, <2>0, <2>1 DEF Limited, FitsDay, Reached, Paying
  <2>2. CASE q = p
    <3>1. CASE WithinDaily(p)
      <4>1. call'[p] = call[p] /\ today'[p] = today[p]
        BY <3>1 DEF WithinDaily
      <4> QED
        BY <2>0, <2>2, <3>1, <4>1, DayChecked
    <3>2. CASE Kept(p, AfterDay)
      BY <2>0, <2>2, <3>2 DEF Kept, Limited, FitsDay
    <3> QED
      BY <2>2, <3>1, <3>2, ChecksAreMade
  <2> QED
    BY <2>1, <2>2
<1>5. FitsMonth'
  <2> SUFFICES ASSUME NEW q \in Procs, NEW u \in Wallets, NEW t \in Nat,
                      Reached(q, AfterMonth)', call'[q].from = u, today'[q] = t
               PROVE  SpentIn(u, Month(t))' + call'[q].amount <= LimitsFor(u).monthly
    BY DEF FitsMonth
  <2>0. SpentIn(u, Month(t))' = SpentIn(u, Month(t))
    BY <1>1, SpentStays
  <2>1. CASE q # p
    BY <1>2, <2>0, <2>1 DEF Limited, FitsMonth, Reached, Paying
  <2>2. CASE q = p
    <3>1. CASE WithinMonthly(p)
      <4>1. call'[p] = call[p] /\ today'[p] = today[p]
        BY <3>1 DEF WithinMonthly
      <4> QED
        BY <2>0, <2>2, <3>1, <4>1, MonthChecked
    <3>2. CASE Kept(p, AfterMonth)
      BY <2>0, <2>2, <3>2 DEF Kept, Limited, FitsMonth
    <3> QED
      BY <2>2, <3>1, <3>2, ChecksAreMade
  <2> QED
    BY <2>1, <2>2
<1>6. Capped'
  BY <1>1, SpentStays DEF Limited, Capped
<1> QED
  BY <1>3, <1>4, <1>5, <1>6 DEF Limited

(* A recorded payment keeps its sender within the limits, whether it is    *)
(* recorded on the day of the check, later in that month or after it.      *)
LEMMA DayAbsorbs ==
    ASSUME Typing, Limited, NEW p \in Procs, Reached(p, {}), call[p] \in Served,
           NEW u \in Wallets, u = call[p].from, NEW t \in Nat, t = today[p],
           NEW day \in Nat, t <= day
    PROVE  SpentIn(u, {day}) + call[p].amount <= LimitsFor(u).daily
<1>1. SpentIn(u, {t}) + call[p].amount <= LimitsFor(u).daily
  BY DEF Limited, FitsDay, Reached
<1>2. CASE t = day
  BY <1>1, <1>2
<1>3. CASE t < day
  <2>1. \A i \in DOMAIN journal : Debited(journal[i], u) # 0 => created[i] \notin {day}
    BY <1>3, DatesOf DEF Limited, Dated, Reached
  <2>2. SpentIn(u, {day}) = 0
    BY <2>1, SpentNever
  <2>3. SpentIn(u, {t}) \in Nat /\ call[p].amount \in Nat
    BY SpentIsNat, PartiesDiffer
  <2> QED
    BY <1>1, <2>2, <2>3, LimitsAreNat
<1> QED
  BY <1>2, <1>3

LEMMA MonthAbsorbs ==
    ASSUME Typing, Limited, NEW p \in Procs, Reached(p, {}), call[p] \in Served,
           NEW u \in Wallets, u = call[p].from, NEW t \in Nat, t = today[p],
           NEW day \in Nat, NEW d \in Month(day), d \in Nat, t <= d
    PROVE  SpentIn(u, Month(day)) + call[p].amount <= LimitsFor(u).monthly
<1>1. SpentIn(u, Month(t)) + call[p].amount <= LimitsFor(u).monthly
  BY DEF Limited, FitsMonth, Reached
<1>2. CASE t \in Month(day)
  <2>1. StartOfMonth(t) = StartOfMonth(day)
    BY <1>2, MonthsAgree
  <2>2. Month(t) = Month(day)
    BY <2>1, Zenon DEF Month
  <2> QED
    BY <1>1, <2>2
<1>3. CASE t \notin Month(day)
  <2> DEFINE first == StartOfMonth(day)
  <2>1. first \in Nat /\ DaysPerMonth \in Nat
    BY MonthHasDay, CalendarAssumption
  <2>2. t < first
    <3> HIDE DEF first
    <3>1. Month(day) = first .. first + DaysPerMonth - 1
      BY DEF Month, first
    <3> QED
      BY <1>3, <2>1, <3>1
  <2>3. \A i \in DOMAIN journal : Debited(journal[i], u) # 0 => created[i] \notin Month(day)
    <3>1. \A i \in DOMAIN journal : Debited(journal[i], u) # 0 =>
             created[i] \in Nat /\ created[i] <= t
      BY DatesOf DEF Limited, Dated, Reached
    <3>2. Month(day) = first .. first + DaysPerMonth - 1
      BY DEF Month
    <3> HIDE DEF first
    <3> QED
      BY <2>1, <2>2, <3>1, <3>2
  <2>4. SpentIn(u, Month(day)) = 0
    BY <2>3, SpentNever
  <2>5. SpentIn(u, Month(t)) \in Nat /\ call[p].amount \in Nat
    BY SpentIsNat, PartiesDiffer
  <2> QED
    BY <1>1, <2>4, <2>5, LimitsAreNat
<1> QED
  BY <1>2, <1>3

LEMMA RecordedStep ==
    ASSUME Typing, Typing', Serving, Alone, Limited, NEW p \in Procs, EngineRecords(p)
    PROVE  Limited'
<1>1. PICK c : c = call[p]
  OBVIOUS
<1>2. /\ c \in Served /\ req[p] = PostingInput(c) /\ status[p] = "called"
      /\ place[p] = "posting" /\ today[p] <= began[p]
  BY <1>1 DEF EngineRecords, Record, Serving
<1>3. /\ journal' = Append(journal, PostingInput(c))
      /\ status' = [status EXCEPT ![p] = "recorded"]
      /\ UNCHANGED <<clock, place, call, today>>
  BY <1>2 DEF EngineRecords, Record, handlerVars
<1>4. PICK d \in began[p] .. clock : created' = Append(created, d)
  BY DEF EngineRecords
<1>5. d \in Nat /\ today[p] \in Nat /\ today[p] <= d
  BY <1>2, DatesOf
<1>6. ASSUME NEW u \in Wallets, NEW D
      PROVE  SpentIn(u, D)' = SpentIn(u, D) + (IF u = c.from /\ d \in D THEN c.amount ELSE 0)
  BY <1>2, <1>3, <1>4, SpentGrows
<1>7. ASSUME NEW u \in Wallets, NEW D PROVE SpentIn(u, D) \in Nat
  BY SpentIsNat
<1>8. ASSUME c.from \in Wallets
      PROVE  Paying(p) /\ \A places : Reached(p, places)
  BY <1>1, <1>2, <1>8, PartiesDiffer DEF Paying, Reached
<1>9. ASSUME NEW q \in Procs, NEW u \in Wallets, NEW places,
             Reached(q, places)', call'[q].from = u, "posting" \notin places
      PROVE  Reached(q, places) /\ call[q].from = u /\ call'[q] = call[q]
             /\ today'[q] = today[q] /\ u # c.from
  <2>1. q # p
    BY <1>2, <1>3, <1>9 DEF Reached, Typing
  <2>2. Reached(q, places) /\ call[q].from = u /\ Paying(q)
    BY <1>3, <1>9, <2>1 DEF Reached, Paying, Typing
  <2>3. u # c.from
    BY <1>1, <1>8, <2>1, <2>2 DEF Alone
  <2> QED
    BY <1>3, <2>2, <2>3
<1>10. Dated'
  <2> SUFFICES ASSUME NEW q \in Procs, NEW u \in Wallets,
                      Reached(q, AfterClock)', call'[q].from = u,
                      NEW i \in DOMAIN journal', Debited(journal'[i], u) # 0
               PROVE  created'[i] <= today'[q]
    BY DEF Dated
  <2>1. Reached(q, AfterClock) /\ call[q].from = u /\ today'[q] = today[q] /\ u # c.from
    <3>1. "posting" \notin AfterClock
      BY DEF AfterClock
    <3> QED
      BY <1>9, <3>1
  <2>2. i \in DOMAIN journal /\ journal'[i] = journal[i] /\ created'[i] = created[i]
    <3>1. Debited(PostingInput(c), u) = 0
      BY <1>2, <2>1, DebitedOf
    <3>2. i # Len(journal) + 1
      BY <1>3, <3>1 DEF Typing
    <3> QED
      BY <1>3, <1>4, <3>2 DEF Typing
  <2> QED
    BY <2>1, <2>2 DEF Limited, Dated
<1>11. FitsDay'
  <2> SUFFICES ASSUME NEW q \in Procs, NEW u \in Wallets, NEW t \in Nat,
                      Reached(q, AfterDay)', call'[q].from = u, today'[q] = t
               PROVE  SpentIn(u, {t})' + call'[q].amount <= LimitsFor(u).daily
    BY DEF FitsDay
  <2>1. /\ Reached(q, AfterDay) /\ call[q].from = u /\ call'[q] = call[q]
        /\ today'[q] = today[q] /\ u # c.from
    BY <1>9 DEF AfterDay
  <2>2. SpentIn(u, {t})' = SpentIn(u, {t})
    BY <1>6, <1>7, <2>1
  <2> QED
    BY <2>1, <2>2 DEF Limited, FitsDay
<1>12. FitsMonth'
  <2> SUFFICES ASSUME NEW q \in Procs, NEW u \in Wallets, NEW t \in Nat,
                      Reached(q, AfterMonth)', call'[q].from = u, today'[q] = t
               PROVE  SpentIn(u, Month(t))' + call'[q].amount <= LimitsFor(u).monthly
    BY DEF FitsMonth
  <2>1. /\ Reached(q, AfterMonth) /\ call[q].from = u /\ call'[q] = call[q]
        /\ today'[q] = today[q] /\ u # c.from
    BY <1>9 DEF AfterMonth
  <2>2. SpentIn(u, Month(t))' = SpentIn(u, Month(t))
    BY <1>6, <1>7, <2>1
  <2> QED
    BY <2>1, <2>2 DEF Limited, FitsMonth
<1>13. Capped'
  <2> SUFFICES ASSUME NEW u \in Wallets, NEW day \in Nat
               PROVE  /\ SpentIn(u, {day})' <= LimitsFor(u).daily
                      /\ SpentIn(u, Month(day))' <= LimitsFor(u).monthly
    BY DEF Capped
  <2>1. /\ SpentIn(u, {day}) <= LimitsFor(u).daily
        /\ SpentIn(u, Month(day)) <= LimitsFor(u).monthly
    BY DEF Limited, Capped
  <2>2. SpentIn(u, {day})' <= LimitsFor(u).daily
    <3>1. CASE u = c.from /\ d \in {day}
      <4>1. SpentIn(u, {d}) + c.amount <= LimitsFor(u).daily
        BY <1>1, <1>2, <1>5, <1>8, <3>1, DayAbsorbs
      <4> QED
        BY <1>6, <3>1, <4>1
    <3>2. CASE ~ (u = c.from /\ d \in {day})
      BY <1>6, <1>7, <2>1, <3>2
    <3> QED
      BY <3>1, <3>2
  <2>3. SpentIn(u, Month(day))' <= LimitsFor(u).monthly
    <3>1. CASE u = c.from /\ d \in Month(day)
      <4>1. SpentIn(u, Month(day)) + c.amount <= LimitsFor(u).monthly
        BY <1>1, <1>2, <1>5, <1>8, <3>1, MonthAbsorbs
      <4> QED
        BY <1>6, <3>1, <4>1
    <3>2. CASE ~ (u = c.from /\ d \in Month(day))
      BY <1>6, <1>7, <2>1, <3>2
    <3> QED
      BY <3>1, <3>2
  <2> QED
    BY <2>2, <2>3
<1> QED
  BY <1>10, <1>11, <1>12, <1>13 DEF Limited

LEMMA LimitedStep ==
    ASSUME SumsFit
    PROVE  Typing /\ Typing' /\ Serving /\ Alone /\ Limited /\ [ServiceNext]_allVars
             => Limited'
<1> SUFFICES ASSUME Typing, Typing', Serving, Alone, Limited, [ServiceNext]_allVars
             PROVE  Limited'
  OBVIOUS
<1>1. CASE UNCHANGED allVars \/ NextDay
  BY <1>1, LimitedStays DEF NextDay, allVars, ledgerVars, handlerVars
<1>2. CASE ServerCrash
  BY <1>2, LimitedStays DEF ServerCrash, Crash
<1>3. ASSUME NEW p \in Procs, Handle(p) PROVE Limited'
  BY <1>3, CheckedStep, RecordedStep
<1> QED
  BY <1>1, <1>2, <1>3 DEF ServiceNext

-------------------------------------------------------------------------------
(* The receipts: a call that is answered with a posting has its own,       *)
(* provided that no two calls are sent with one key.                       *)

OneKeyEach == \A c, d \in Served : c.key = d.key => c = d

Claims(p) ==
    \/ outcome[p] = "ok"
    \/ status[p] = "recorded"
    \/ /\ place[p] = "posting" /\ status[p] = "idle"
       /\ answer[p] \in {"posted", "replayed"}

Receipt(p) ==
    /\ posting[p] \in DOMAIN journal /\ call[p] \in Served
    /\ journal[posting[p]] = PostingInput(call[p])

Receipts == \A p \in Procs : Claims(p) => Receipt(p)

LEMMA JournalKeeps ==
    ASSUME Typing, NEW p \in Procs, Handle(p)
    PROVE  \A i \in DOMAIN journal : i \in DOMAIN journal' /\ journal'[i] = journal[i]
<1>1. CASE EngineRecords(p)
  BY <1>1 DEF EngineRecords, Record, Typing
<1>2. CASE ~EngineRecords(p)
  BY <1>2, LedgerStays
<1> QED
  BY <1>1, <1>2

LEMMA ReceiptsStep ==
    ASSUME OneKeyEach
    PROVE  Typing /\ Serving /\ Receipts /\ [ServiceNext]_allVars => Receipts'
<1> SUFFICES ASSUME Typing, Serving, Receipts, [ServiceNext]_allVars PROVE Receipts'
  OBVIOUS
<1>1. CASE UNCHANGED allVars \/ NextDay
  BY <1>1 DEF NextDay, Receipts, Claims, Receipt, allVars, ledgerVars, handlerVars
<1>2. CASE ServerCrash
  BY <1>2 DEF ServerCrash, Crash, Receipts, Claims, Receipt
<1>3. ASSUME NEW p \in Procs, Handle(p) PROVE Receipts'
  <2>1. ASSUME NEW q \in Procs, q # p, Claims(q)' PROVE Receipt(q)'
    <3>1. /\ place'[q] = place[q] /\ call'[q] = call[q] /\ outcome'[q] = outcome[q]
          /\ status'[q] = status[q] /\ answer'[q] = answer[q] /\ posting'[q] = posting[q]
      BY <1>3, <2>1, OthersStay
    <3>2. Receipt(q)
      BY <2>1, <3>1 DEF Receipts, Claims
    <3>3. \A i \in DOMAIN journal : i \in DOMAIN journal' /\ journal'[i] = journal[i]
      BY <1>3, JournalKeeps
    <3>4. /\ posting[q] \in DOMAIN journal' /\ call[q] \in Served
          /\ journal'[posting[q]] = PostingInput(call[q])
      BY <3>2, <3>3 DEF Receipt
    <3> QED
      BY <3>1, <3>4, Zenon DEF Receipt
  <2>2. ASSUME Claims(p)' PROVE Receipt(p)'
    <3>1. CASE \E c \in Calls : Receive(p, c)
      <4>1. status'[p] = "idle" /\ outcome'[p] = "none"
        BY <3>1 DEF Receive, Typing, Serving, ledgerVars
      <4>2. place'[p] \in {"engine", "balance"}
        BY <3>1 DEF Receive, Goto, Typing
      <4> QED
        BY <2>2, <4>1, <4>2 DEF Claims
    <3>2. CASE \E c \in Calls : Refuse(p, c)
      BY <2>2, <3>2, ZenonT(30) DEF Refuse, Respond, Goto, Typing, Serving, Claims, ledgerVars
    <3>3. CASE FundsSuffice(p) \/ ReadClock(p) \/ WithinDaily(p) \/ WithinMonthly(p)
      BY <2>2, <3>3 DEF FundsSuffice, ReadClock, WithinDaily, WithinMonthly, Goto,
                        Typing, Serving, Claims, ledgerVars
    <3>4. CASE InsufficientFunds(p) \/ LimitExceeded(p) \/ ReadFails(p)
      BY <2>2, <3>4 DEF InsufficientFunds, LimitExceeded, ReadFails, Respond, Goto,
                        Typing, Serving, Claims, ledgerVars
    <3>5. CASE CallEngine(p)
      BY <2>2, <3>5 DEF CallEngine, Call, Becomes, Goto, Typing, Serving, Claims
    <3>6. CASE EngineRecords(p)
      <4>1. /\ call[p] \in Served /\ req[p] = PostingInput(call[p])
            /\ journal' = Append(journal, req[p])
            /\ posting'[p] = Len(journal) + 1 /\ call' = call
        BY <3>6 DEF EngineRecords, Record, Typing, Serving, handlerVars
      <4> QED
        BY <4>1 DEF Receipt, Typing
    <3>7. CASE EngineAnswers(p)
      <4>1. /\ call[p] \in Served /\ req[p] = PostingInput(call[p])
            /\ outcome[p] = "none" /\ place[p] = "posting"
            /\ UNCHANGED <<journal, call, place, outcome>>
        BY <3>7 DEF EngineAnswers, AnswerPosted, AnswerReplayed, AnswerFailed, Serving,
                    handlerVars
      <4>2. CASE AnswerPosted(p)
        BY <4>1, <4>2 DEF AnswerPosted, Receipts, Claims, Receipt
      <4>3. CASE AnswerReplayed(p)
        <5>1. PICK i \in DOMAIN journal : /\ journal[i].key = req[p].key
                                          /\ posting' = [posting EXCEPT ![p] = i]
          BY <4>3 DEF AnswerReplayed
        <5>2. PICK c \in Served : journal[i] = PostingInput(c)
          <6>1. journal[i] \in Postings
            BY DEF Typing
          <6> QED
            BY <6>1 DEF Postings
        <5>3. c = call[p]
          BY <4>1, <5>1, <5>2, LegsOf DEF OneKeyEach
        <5> QED
          BY <4>1, <5>1, <5>2, <5>3 DEF Receipt, Typing
      <4>4. CASE AnswerFailed(p)
        BY <2>2, <4>1, <4>4 DEF AnswerFailed, Becomes, Typing, Claims
      <4> QED
        BY <3>7, <4>2, <4>3, <4>4 DEF EngineAnswers
    <3>8. CASE Succeed(p)
      <4>1. Claims(p)
        BY <3>8 DEF Succeed, Claims
      <4> QED
        BY <3>8, <4>1 DEF Succeed, Receipts, Receipt, ledgerVars
    <3>9. CASE EngineFailed(p)
      BY <2>2, <3>9 DEF EngineFailed, Respond, Goto, Typing, Serving, Claims, ledgerVars
    <3> QED
      BY <1>3, <3>1, <3>2, <3>3, <3>4, <3>5, <3>6, <3>7, <3>8, <3>9 DEF Handle
  <2> QED
    BY <2>1, <2>2 DEF Receipts
<1> QED
  BY <1>1, <1>2, <1>3 DEF ServiceNext

-------------------------------------------------------------------------------
(* The histories: every posting adds one line to each party's, and the     *)
(* lines add up to the balance.                                            *)

Value(t) == IF t.kind = "in" THEN t.amount ELSE -t.amount

HistoryOf(u) == SumFunctionOnSet([t \in Transactions(u) |-> Value(t)], Transactions(u))

Histories ==
    \A u \in Wallets : /\ IsFiniteSet(Transactions(u))
                       /\ balance[u] = HistoryOf(u)

LEMMA LinesOf ==
    ASSUME NEW u, NEW t
    PROVE  t \in Transactions(u) <=>
              \E i \in DOMAIN journal :
                 \E e \in EntriesOf(journal[i], u) : t = Line(i, Kind(e), e.amount)
BY DEF Transactions

LEMMA LinesOfPosting ==
    ASSUME NEW c \in Served, NEW u, NEW e
    PROVE  e \in EntriesOf(PostingInput(c), u) <=>
              \/ u = c.from /\ e = Leg(c, c.from, "debit")
              \/ u = c.to /\ e = Leg(c, c.to, "credit")
<1>1. /\ DOMAIN PostingInput(c).entries = {1, 2}
      /\ PostingInput(c).entries[1] = Leg(c, c.from, "debit")
      /\ PostingInput(c).entries[2] = Leg(c, c.to, "credit")
  BY DEF PostingInput
<1>2. \A x : x \in Range(PostingInput(c).entries) <=>
         x \in {Leg(c, c.from, "debit"), Leg(c, c.to, "credit")}
  BY <1>1 DEF Range
<1>3. /\ Leg(c, c.from, "debit").account = c.from
      /\ Leg(c, c.to, "credit").account = c.to
  BY DEF Leg
<1> QED
  BY <1>2, <1>3 DEF EntriesOf

LEMMA LinesAreTyped ==
    ASSUME Typing, NEW u, NEW t \in Transactions(u)
    PROVE  t.posting \in DOMAIN journal /\ Value(t) \in Int
<1>1. PICK i \in DOMAIN journal :
         \E e \in EntriesOf(journal[i], u) : t = Line(i, Kind(e), e.amount)
  BY LinesOf
<1>2. journal[i] \in Postings
  BY DEF Typing
<1>3. PICK c \in Served : journal[i] = PostingInput(c)
  BY <1>2 DEF Postings
<1>4. PICK e \in EntriesOf(PostingInput(c), u) : t = Line(i, Kind(e), e.amount)
  BY <1>1, <1>3
<1>5. e.amount = c.amount /\ c.amount \in Int
  BY LinesOfPosting, PartiesDiffer DEF Leg
<1> QED
  BY <1>4, <1>5 DEF Line, Value

(* The lines a posting adds to a history. *)
NewLines(u, c, n) ==
    IF u = c.from THEN {Line(n, "out", c.amount)}
    ELSE IF u = c.to THEN {Line(n, "in", c.amount)} ELSE {}

LEMMA LinesGrow ==
    ASSUME Typing, Typing', NEW c \in Served, NEW u, NEW n, n = Len(journal) + 1,
           journal' = Append(journal, PostingInput(c))
    PROVE  Transactions(u)' = Transactions(u) \cup NewLines(u, c, n)
<1>1. /\ DOMAIN journal' = DOMAIN journal \cup {n}
      /\ \A i \in DOMAIN journal : journal'[i] = journal[i]
      /\ journal'[n] = PostingInput(c)
  BY DEF Typing
<1>2. ASSUME NEW t
      PROVE  t \in NewLines(u, c, n) <=>
               \E e \in EntriesOf(PostingInput(c), u) : t = Line(n, Kind(e), e.amount)
  <2>1. /\ Kind(Leg(c, c.from, "debit")) = "out" /\ Leg(c, c.from, "debit").amount = c.amount
        /\ Kind(Leg(c, c.to, "credit")) = "in" /\ Leg(c, c.to, "credit").amount = c.amount
    BY DEF Kind, Leg
  <2>2. c.from # c.to
    BY PartiesDiffer
  <2> QED
    BY <2>1, <2>2, LinesOfPosting DEF NewLines
<1>3. ASSUME NEW t
      PROVE  t \in Transactions(u)' <=>
               \E i \in DOMAIN journal' :
                  \E e \in EntriesOf(journal'[i], u) : t = Line(i, Kind(e), e.amount)
  BY DEF Transactions
<1>4. ASSUME NEW t PROVE t \in Transactions(u)' <=> t \in Transactions(u) \cup NewLines(u, c, n)
  BY <1>1, <1>2, <1>3, LinesOf
<1> QED
  BY <1>4


LEMMA HistoryGrows ==
    ASSUME Typing, Typing', NEW c \in Served, NEW u, IsFiniteSet(Transactions(u)),
           journal' = Append(journal, PostingInput(c))
    PROVE  /\ IsFiniteSet(Transactions(u)')
           /\ HistoryOf(u)' = HistoryOf(u) + Effect(PostingInput(c), u)
<1> DEFINE n == Len(journal) + 1
           S == Transactions(u)
           T == Transactions(u)'
           f == [t \in S |-> Value(t)]
           g == [t \in T |-> Value(t)]
<1>1. n \notin DOMAIN journal
  BY DEF Typing
<1>2. T = S \cup NewLines(u, c, n)
  BY LinesGrow
<1>3. HistoryOf(u) = SumFunctionOnSet(f, S) /\ HistoryOf(u)' = SumFunctionOnSet(g, T)
  BY DEF HistoryOf
<1>4. \A t \in S : Value(t) \in Int
  BY LinesAreTyped
<1>5. /\ c.from # c.to /\ c.amount \in Int /\ -c.amount \in Int
      /\ Value(Line(n, "out", c.amount)) = -c.amount
      /\ Value(Line(n, "in", c.amount)) = c.amount
  BY PartiesDiffer DEF Value, Line
<1>6. \A kind : Line(n, kind, c.amount) \notin S
  <2>1. \A kind : Line(n, kind, c.amount).posting = n
    BY DEF Line
  <2> QED
    BY <1>1, <2>1, LinesAreTyped
<1> HIDE DEF n
<1>7. ASSUME NEW e, e \notin S, Value(e) \in Int, T = S \cup {e}
      PROVE  IsFiniteSet(T) /\ SumFunctionOnSet(g, T) = SumFunctionOnSet(f, S) + Value(e)
  <2>1. \A t \in S \cup {e} : g[t] \in Int
    BY <1>4, <1>7
  <2>2. \A t \in S : g[t] = f[t]
    BY <1>7
  <2>3. g[e] = Value(e)
    BY <1>7
  <2>4. IsFiniteSet(S)
    OBVIOUS
  <2> HIDE DEF S, T, f, g
  <2>5. SumFunctionOnSet(g, S \cup {e}) = SumFunctionOnSet(g, S) + g[e]
    BY <1>7, <2>1, <2>4, SumAdds
  <2>6. SumFunctionOnSet(g, S) = SumFunctionOnSet(f, S)
    BY <2>2, <2>4, SumAgrees
  <2>7. SumFunctionOnSet(g, T) = SumFunctionOnSet(g, S \cup {e})
    BY <1>7, Zenon
  <2>8. IsFiniteSet(T)
    BY <1>7, <2>4, FS_AddElement
  <2> QED
    BY <2>3, <2>5, <2>6, <2>7, <2>8
<1>8. CASE u = c.from
  <2>1. T = S \cup {Line(n, "out", c.amount)}
    BY <1>2, <1>8 DEF NewLines
  <2>2. Effect(PostingInput(c), u) = -c.amount
    BY <1>8, EffectOf
  <2> HIDE DEF S, T, f, g
  <2> QED
    BY <1>3, <1>5, <1>6, <1>7, <2>1, <2>2 DEF T
<1>9. CASE u = c.to
  <2>1. T = S \cup {Line(n, "in", c.amount)}
    BY <1>2, <1>5, <1>9 DEF NewLines
  <2>2. Effect(PostingInput(c), u) = c.amount
    BY <1>5, <1>9, EffectOf
  <2> HIDE DEF S, T, f, g
  <2> QED
    BY <1>3, <1>5, <1>6, <1>7, <2>1, <2>2 DEF T
<1>10. CASE u # c.from /\ u # c.to
  <2>1. T = S
    BY <1>2, <1>10 DEF NewLines
  <2>2. Effect(PostingInput(c), u) = 0
    BY <1>10, EffectOf
  <2>3. \A t \in S : f[t] \in Int
    BY <1>4
  <2>4. f = g
    BY <2>1
  <2>5. IsFiniteSet(S)
    OBVIOUS
  <2>6. IsFiniteSet(T)
    BY <2>1
  <2> HIDE DEF S, T, f, g
  <2>7. SumFunctionOnSet(g, T) = SumFunctionOnSet(f, S)
    BY <2>1, <2>4, Zenon
  <2>8. SumFunctionOnSet(f, S) \in Int
    BY <2>3, <2>5, SumIsInt
  <2> QED
    BY <1>3, <2>2, <2>6, <2>7, <2>8 DEF T
<1> QED
  BY <1>8, <1>9, <1>10

LEMMA TransactionsStay ==
    ASSUME UNCHANGED journal, NEW u
    PROVE  Transactions(u)' = Transactions(u) /\ HistoryOf(u)' = HistoryOf(u)
BY DEF Transactions, HistoryOf

LEMMA HistoriesInit == ServiceInit => Histories
<1> SUFFICES ASSUME ServiceInit, NEW u \in Wallets
             PROVE  IsFiniteSet(Transactions(u)) /\ balance[u] = HistoryOf(u)
  BY DEF Histories
<1> DEFINE f == [t \in {} |-> Value(t)]
<1>1. Transactions(u) = {}
  BY DEF ServiceInit, Init, Transactions
<1>2. HistoryOf(u) = SumFunctionOnSet(f, {})
  BY <1>1, Zenon DEF HistoryOf
<1> HIDE DEF f
<1> QED
  BY <1>1, <1>2, SumOfNothing, FS_EmptySet DEF ServiceInit, Init

LEMMA HistoriesStep ==
    Typing /\ Typing' /\ Serving /\ Histories /\ [ServiceNext]_allVars => Histories'
<1> SUFFICES ASSUME Typing, Typing', Serving, Histories, [ServiceNext]_allVars,
                    NEW u \in Wallets
             PROVE  IsFiniteSet(Transactions(u)') /\ balance'[u] = HistoryOf(u)'
  BY DEF Histories
<1>0. IsFiniteSet(Transactions(u)) /\ balance[u] = HistoryOf(u)
  BY DEF Histories
<1>1. CASE UNCHANGED <<journal, balance>>
  BY <1>0, <1>1, TransactionsStay
<1>2. ASSUME NEW p \in Procs, EngineRecords(p)
      PROVE  IsFiniteSet(Transactions(u)') /\ balance'[u] = HistoryOf(u)'
  <2>1. call[p] \in Served /\ req[p] = PostingInput(call[p])
    BY <1>2 DEF EngineRecords, Record, Serving
  <2>2. PICK c \in Served : req[p] = PostingInput(c)
    BY <2>1
  <2>3. /\ journal' = Append(journal, PostingInput(c))
        /\ balance'[u] = balance[u] + Effect(PostingInput(c), u)
    BY <1>2, <2>2 DEF EngineRecords, Record
  <2> QED
    BY <1>0, <2>3, HistoryGrows
<1>3. CASE NextDay \/ ServerCrash \/ UNCHANGED allVars
  BY <1>1, <1>3 DEF NextDay, ServerCrash, Crash, ledgerVars, allVars
<1>4. ASSUME NEW p \in Procs, Handle(p), ~EngineRecords(p)
      PROVE  UNCHANGED <<journal, balance>>
  BY <1>4, LedgerStays
<1> QED
  BY <1>1, <1>2, <1>3, <1>4 DEF ServiceNext

-------------------------------------------------------------------------------
(* The theorems.                                                           *)

LEMMA TypingInvariance == ServiceSpec => [](Typing /\ Serving)
<1>1. ServiceInit => Typing /\ Serving
  BY TypingInit
<1>2. Typing /\ Serving /\ [ServiceNext]_allVars => (Typing /\ Serving)'
  BY TypingStep, ServingStep
<1> QED
  BY <1>1, <1>2, PTL DEF ServiceSpec

(* TLC checks ServiceTypeOK: a handler has a call under way in the engine  *)
(* only while it waits for its answer.                                     *)
THEOREM TypeCorrect == ServiceSpec => []ServiceTypeOK
<1>1. Typing /\ Serving => ServiceTypeOK
  <2> SUFFICES ASSUME Typing, Serving PROVE ServiceTypeOK
    OBVIOUS
  <2>1. Postings \subseteq {PostingInput(c) : c \in Calls}
    BY DEF Postings, Served
  <2>2. journal \in Seq({PostingInput(c) : c \in Calls})
    BY <2>1 DEF Typing
  <2> QED
    BY <2>2 DEF Typing, Serving, ServiceTypeOK, Places
<1> QED
  BY <1>1, TypingInvariance, PTL

(* Every history that is shown adds up to the balance shown next to it,    *)
(* and a receipt names the posting that moved the money: for every set of  *)
(* calls in which each payment has a key of its own.                       *)
THEOREM ReceiptsMatch ==
    ASSUME OneKeyEach
    PROVE  ServiceSpec => []ReceiptMatches
<1>1. ServiceInit => Receipts /\ Histories
  BY HistoriesInit DEF ServiceInit, Init, Receipts, Claims
<1>2. Typing /\ Serving /\ (Typing /\ Serving)' /\ Receipts /\ Histories /\ [ServiceNext]_allVars
        => (Receipts /\ Histories)'
  BY ReceiptsStep, HistoriesStep
<1>3. Typing /\ Receipts /\ Histories => ReceiptMatches
  <2> SUFFICES ASSUME Typing, Receipts, Histories PROVE ReceiptMatches
    OBVIOUS
  <2>1. ASSUME NEW p \in Procs, outcome[p] = "ok"
        PROVE  /\ posting[p] \in DOMAIN journal /\ journal[posting[p]] = PostingInput(call[p])
               /\ Line(posting[p], "in", call[p].amount) \in Transactions(call[p].to)
               /\ Line(posting[p], "out", call[p].amount) \in Transactions(call[p].from)
    <3>1. PICK c \in Served : c = call[p]
      BY <2>1 DEF Receipts, Claims, Receipt
    <3>2. PICK i \in DOMAIN journal : i = posting[p] /\ journal[i] = PostingInput(c)
      BY <2>1, <3>1 DEF Receipts, Claims, Receipt
    <3>3. Line(i, "in", c.amount) \in Transactions(c.to)
      <4>1. Leg(c, c.to, "credit") \in EntriesOf(journal[i], c.to)
        BY <3>2, LinesOfPosting
      <4>2. Line(i, "in", c.amount) = Line(i, Kind(Leg(c, c.to, "credit")),
                                           Leg(c, c.to, "credit").amount)
        BY DEF Leg, Kind
      <4> QED
        BY <4>1, <4>2, LinesOf
    <3>4. Line(i, "out", c.amount) \in Transactions(c.from)
      <4>1. Leg(c, c.from, "debit") \in EntriesOf(journal[i], c.from)
        BY <3>2, LinesOfPosting
      <4>2. Line(i, "out", c.amount) = Line(i, Kind(Leg(c, c.from, "debit")),
                                            Leg(c, c.from, "debit").amount)
        BY DEF Leg, Kind
      <4> QED
        BY <4>1, <4>2, LinesOf
    <3> QED
      BY <3>1, <3>2, <3>3, <3>4
  <2>2. ASSUME NEW u \in Wallets
        PROVE  Balances(u) = SumFunction([t \in Transactions(u) |->
                                  IF t.kind = "in" THEN t.amount ELSE -t.amount])
    BY DEF Histories, HistoryOf, Balances, SumFunction, Value
  <2> QED
    BY <2>1, <2>2 DEF ReceiptMatches
<1> QED
  BY <1>1, <1>2, <1>3, TypingInvariance, PTL DEF ServiceSpec

(* "guarded by a balance check": no wallet goes below zero, whatever is    *)
(* retried, lost or crashes, as long as no sender has two calls in flight. *)
(* With two, TLC finds the overdraft (run transfer_overdraft).             *)
THEOREM NeverOverdrawn ==
    ASSUME ~Overlap
    PROVE  ServiceSpec => []NoOverdraft
<1>1. ServiceInit => Alone /\ Funded
  BY DEF ServiceInit, Init, Alone, Funded, NoOverdraft, Reached, Paying
<1>2. Typing /\ Serving /\ Alone /\ Funded /\ [ServiceNext]_allVars => (Alone /\ Funded)'
  BY AloneStep, FundedStep
<1>3. Funded => NoOverdraft
  BY DEF Funded
<1> QED
  BY <1>1, <1>2, <1>3, TypingInvariance, PTL DEF ServiceSpec

(* "and the sender's KYC spending limits": what a user spends in a day and *)
(* in a month stays within the limits of the user's level, under the same  *)
(* condition, for amounts that the checks can add up in an int64.          *)
THEOREM LimitsHold ==
    ASSUME ~Overlap, SumsFit
    PROVE  ServiceSpec => []SpendingCaps
<1>1. ServiceInit => Alone /\ Limited
  BY LimitedInit DEF ServiceInit, Init, Alone, Paying
<1>2. Typing /\ Serving /\ (Typing /\ Serving)' /\ Alone /\ Limited /\ [ServiceNext]_allVars
        => (Alone /\ Limited)'
  BY AloneStep, LimitedStep
<1>3. Typing /\ Limited => SpendingCaps
  <2> SUFFICES ASSUME Typing, Limited,
                      NEW u \in Wallets, NEW day \in {created[i] : i \in DOMAIN created},
                      NEW l \in DOMAIN LimitsByLevel,
                      Level[u] = l \/ Level[u] \notin DOMAIN LimitsByLevel
               PROVE  /\ SpentIn(u, {day}) <= LimitsByLevel[l].daily
                      /\ SpentIn(u, Month(day)) <= LimitsByLevel[l].monthly
    BY DEF SpendingCaps, Month
  <2>1. day \in Nat
    <3>1. DOMAIN created = DOMAIN journal
      BY DEF Typing
    <3> QED
      BY <3>1, DatesOf
  <2>2. /\ SpentIn(u, {day}) <= LimitsFor(u).daily
        /\ SpentIn(u, Month(day)) <= LimitsFor(u).monthly
    BY <2>1 DEF Limited, Capped
  <2>3. /\ LimitsFor(u).daily <= LimitsByLevel[l].daily
        /\ LimitsFor(u).monthly <= LimitsByLevel[l].monthly
    <3>1. CASE Level[u] = l
      <4>1. LimitsFor(u) = LimitsByLevel[l]
        BY <3>1 DEF LimitsFor
      <4>2. LimitsByLevel[l].daily \in Int /\ LimitsByLevel[l].monthly \in Int
        BY LimitsAssumption, HalfAssumption
      <4> QED
        BY <4>1, <4>2
    <3>2. CASE Level[u] \notin DOMAIN LimitsByLevel
      BY <3>2, LimitsAssumption DEF LimitsFor
    <3> QED
      BY <3>1, <3>2
  <2>4. /\ SpentIn(u, {day}) \in Nat /\ SpentIn(u, Month(day)) \in Nat
        /\ LimitsFor(u).daily \in Nat /\ LimitsFor(u).monthly \in Nat
        /\ LimitsByLevel[l].daily \in Int /\ LimitsByLevel[l].monthly \in Int
    BY SpentIsNat, LimitsAreNat, LimitsAssumption, HalfAssumption
  <2> QED
    BY <2>2, <2>3, <2>4
<1> QED
  BY <1>1, <1>2, <1>3, TypingInvariance, PTL DEF ServiceSpec
================================================================================
