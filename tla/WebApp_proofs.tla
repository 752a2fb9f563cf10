---------------------------- MODULE WebApp_proofs ----------------------------
(***************************************************************************)
(* What holds of the web app over the mock API for any number of numbers,  *)
(* accounts, calls and amounts: the books agree, a number has              *)
(* one account, a user sees their own money and a submission reports what  *)
(* it did.                                                                 *)
(*                                                                         *)
(* The queue of timers carries the argument: what a queued call finds when *)
(* it fires is what its flow left behind when it was queued, because all   *)
(* calls but a logout fire from the head.                                  *)
(***************************************************************************)
EXTENDS WebApp, Collections_proofs

ListCalls == {"listWallets", "listTransactions"}
AuthCalls == {"login", "register", "verifyPhone"}
CallNames == AuthCalls \cup ListCalls \cup {"logout", "transfer", "payRequest", "topUp"}
Ops == {"none", "login", "register", "verify", "logout", "send", "pay", "topUp", "fetch"}
Accounts == [phone : Phones, balance : Nat, history : Movements]
Readings == [owner : Nat, history : Movements]
FlowStates == [op : Ops, to : Nat, amount : Nat, here : BOOLEAN, moved : Nat,
               got : Readings, told : {"none", "done", "failed"}]
TimerRecords == [flow : Flows, call : CallNames]
Registrations == [phone : Phones, live : BOOLEAN]

DatabaseTyped ==
    /\ users \in Seq(Accounts)
    /\ byPhone \in [Phones -> 0 .. Len(users)]
    /\ pendings \in Seq(Registrations)
    /\ session \in 0 .. Len(users)

StoresTyped ==
    /\ user \in 0 .. Len(users)
    /\ pending \in 0 .. Len(pendings)
    /\ loading \in BOOLEAN /\ fetching \in BOOLEAN
    /\ shown \in Readings /\ shown.owner <= Len(users)

FlowsTyped ==
    /\ flow \in [Flows -> FlowStates]
    /\ \A f \in Flows : flow[f].got.owner <= Len(users)

Typing == DatabaseTyped /\ StoresTyped /\ FlowsTyped /\ timers \in Seq(TimerRecords)

(* What a flow does while it waits for a call. *)
Runs(call, r, registered) ==
    /\ r.op # "none" /\ r.told = "none"
    /\ call \in {"login", "register"} => r.op = call /\ r.to \in Phones
    /\ call = "verifyPhone" => r.op = "verify" /\ r.to \in 1 .. registered
    /\ call = "logout" => r.op = "logout"
    /\ call = "transfer" => r.op = "send" /\ r.to \in Phones /\ r.moved = 0
    /\ call = "payRequest" => r.op = "pay" /\ r.moved = 0
    /\ call = "topUp" => r.op = "topUp" /\ r.moved = 0
    /\ call \in ListCalls =>
          r.op = "fetch" \/ (r.op \in {"send", "pay", "topUp"} /\ r.moved = 1)

Running == \A i \in DOMAIN timers : Runs(timers[i].call, flow[timers[i].flow], Len(pendings))

(* A flow waits for one call, or for its two lists, the one right behind   *)
(* the other; the second list is left alone only at the head.              *)
Queued(ts) ==
    /\ \A i, j \in DOMAIN ts : i < j /\ ts[i].flow = ts[j].flow =>
          j = i + 1 /\ ts[i].call = "listWallets" /\ ts[j].call = "listTransactions"
    /\ \A i \in DOMAIN ts : ts[i].call = "listWallets" =>
          i + 1 \in DOMAIN ts /\ ts[i + 1] = Timer(ts[i].flow, "listTransactions")
    /\ \A i \in DOMAIN ts : ts[i].call = "listTransactions" =>
          i = 1 \/ ts[i - 1] = Timer(ts[i].flow, "listWallets")

(* The second list is answered in the session, and of the wallet, in which *)
(* the first was, unless there is no session any more.                     *)
HalfRead ==
    1 \in DOMAIN timers /\ timers[1].call = "listTransactions" /\ session # 0 =>
       flow[timers[1].flow].got.owner = session

(* One form of the sign-in or the registration is submitted at a time. *)
Waiting == ToSet(timers)

OneForm ==
    /\ \A s, t \in Waiting : s.call \in AuthCalls /\ t.call \in AuthCalls => s = t
    /\ \A t \in Waiting : t.call \in AuthCalls => loading

IsFree(k) == byPhone[pendings[k].phone] = 0

(* A registration that can still be verified is of a number nobody has. *)
Numbered ==
    /\ \A u \in DOMAIN users : byPhone[users[u].phone] = u
    /\ pending # 0 => IsFree(pending)
    /\ \A t \in Waiting : t.call = "verifyPhone" => IsFree(flow[t.flow].to)

(* Who signs in on the home page finds a fetchAll queued behind.           *)
Fetching(i) == \E j \in DOMAIN timers : i < j /\ timers[j].call = "listTransactions"
Screens ==
    /\ user = session
    /\ \A i \in DOMAIN timers :
          page = "home" /\ timers[i].call \in {"login", "verifyPhone"} => Fetching(i)
    /\ \/ user = 0
       \/ shown.owner = user /\ shown.history = users[user].history
       \/ \E t \in Waiting : t.call = "listTransactions"

(* The history on the pages is a past of the true one. *)
Past(s, t) == Len(s) <= Len(t) /\ \A i \in 1 .. Len(s) : s[i] = t[i]
PageIsPast == shown.owner # 0 => Past(shown.history, users[shown.owner].history)

-------------------------------------------------------------------------------
(* The queue.                                                              *)

(* delay() is never longer than that of the calls that are not a logout:   *)
(* they fire from the head.                                                *)
LEMMA DueIsHead ==
    ASSUME NEW f, NEW call, call # "logout", Due(f, call), timers \in Seq(TimerRecords)
    PROVE  1 \in DOMAIN timers /\ timers[1] = Timer(f, call)
<1>1. PICK i \in DOMAIN timers :
        timers[i] = Timer(f, call) /\ \A j \in 1 .. i - 1 : Latency(timers[j].call) > Latency(call)
  BY DEF Due
<1>2. i = 1
  <2> SUFFICES ASSUME i # 1 PROVE FALSE
    OBVIOUS
  <2>1. 1 \in 1 .. i - 1
    BY <1>1
  <2>2. Latency(timers[1].call) > Latency(call)
    BY <1>1, <2>1
  <2> QED
    BY <2>2 DEF Latency
<1> QED
  BY <1>1, <1>2

LEMMA DueIsQueued ==
    ASSUME NEW f, NEW call, Due(f, call)
    PROVE  \E i \in DOMAIN timers : timers[i] = Timer(f, call)
BY DEF Due

(* h says where the timers of ts were in the queue. *)
From(h, ts) ==
    /\ h \in [DOMAIN ts -> DOMAIN timers]
    /\ \A k \in DOMAIN ts : ts[k] = timers[h[k]]
    /\ \A k, l \in DOMAIN ts : k < l => h[k] < h[l]

LEMMA WithoutTimers ==
    ASSUME NEW ts \in Seq(TimerRecords), NEW xs
    PROVE  /\ Without(ts, xs) \in Seq(TimerRecords)
           /\ \E h : Embeds(h, Without(ts, xs), ts, Len(ts), xs)
BY WithoutEmbeds

LEMMA OthersFrom ==
    ASSUME Typing, NEW f
    PROVE  /\ Others(f) \in Seq(TimerRecords)
           /\ \E h : /\ From(h, Others(f))
                     /\ \A k \in DOMAIN Others(f) : Others(f)[k].flow # f
                     /\ \A i \in DOMAIN timers : timers[i].flow # f =>
                           \E k \in DOMAIN Others(f) : h[k] = i
<1>1. timers \in Seq(TimerRecords)
  BY DEF Typing
<1> DEFINE R == Others(f)
<1>2. R \in Seq(TimerRecords) /\ \E h : Embeds(h, R, timers, Len(timers), TimersOf(f))
  BY <1>1, WithoutTimers DEF Others
<1> HIDE DEF R
<1>3. PICK h : Embeds(h, R, timers, Len(timers), TimersOf(f))
  BY <1>2
<1>4. DOMAIN R = 1 .. Len(R) /\ DOMAIN timers = 1 .. Len(timers)
  BY <1>1, <1>2
<1>5. \A i \in DOMAIN timers : timers[i] \in TimersOf(f) <=> timers[i].flow = f
  BY DEF TimersOf, ToSet
<1>6. From(h, R)
  BY <1>3, <1>4 DEF From, Embeds
<1>7. \A k \in DOMAIN R : R[k].flow # f
  BY <1>3, <1>4, <1>5 DEF Embeds
<1>8. \A i \in DOMAIN timers : timers[i].flow # f => \E k \in DOMAIN R : h[k] = i
  BY <1>3, <1>4, <1>5 DEF Embeds
<1> QED
  BY <1>2, <1>6, <1>7, <1>8 DEF R

(* Neighbours that both stay are neighbours. *)
LEMMA Neighbours ==
    ASSUME NEW ts \in Seq(TimerRecords), timers \in Seq(TimerRecords), NEW h, From(h, ts),
           NEW k \in DOMAIN ts, NEW l \in DOMAIN ts, h[l] = h[k] + 1
    PROVE  l = k + 1
<1>1. k \in Nat /\ l \in Nat /\ DOMAIN ts = 1 .. Len(ts)
  OBVIOUS
<1>2. \A m \in DOMAIN ts : h[m] \in Nat
  BY DEF From
<1>3. k < l
  <2> SUFFICES ASSUME ~(k < l) PROVE FALSE
    OBVIOUS
  <2>1. CASE k = l
    BY <1>2, <2>1
  <2>2. CASE l < k
    BY <1>2, <2>2 DEF From
  <2> QED
    BY <1>1, <2>1, <2>2
<1>4. CASE k + 1 < l
  <2>1. k + 1 \in DOMAIN ts
    BY <1>1, <1>4
  <2>2. h[k] < h[k + 1] /\ h[k + 1] < h[l]
    BY <1>1, <1>4, <2>1 DEF From
  <2> QED
    BY <1>2, <2>1, <2>2
<1> QED
  BY <1>1, <1>3, <1>4

LEMMA OthersQueued ==
    ASSUME Typing, Queued(timers), NEW f
    PROVE  /\ Queued(Others(f))
           /\ \A k \in DOMAIN Others(f) :
                 Others(f)[k].call = "listTransactions" /\ k = 1 => 
                    1 \in DOMAIN timers /\ Others(f)[k] = timers[1]
<1> DEFINE R == Others(f)
<1>1. R \in Seq(TimerRecords) /\ timers \in Seq(TimerRecords)
  BY OthersFrom DEF Typing
<1>2. PICK h : /\ From(h, R)
               /\ \A k \in DOMAIN R : R[k].flow # f
               /\ \A i \in DOMAIN timers : timers[i].flow # f => \E k \in DOMAIN R : h[k] = i
  BY OthersFrom
<1> HIDE DEF R
<1>3. \A k \in DOMAIN R : h[k] \in DOMAIN timers /\ h[k] \in Nat /\ R[k] = timers[h[k]]
  BY <1>1, <1>2 DEF From
<1>4. ASSUME NEW i \in DOMAIN R, NEW j \in DOMAIN R, i < j, R[i].flow = R[j].flow
      PROVE  j = i + 1 /\ R[i].call = "listWallets" /\ R[j].call = "listTransactions"
  <2>1. h[i] < h[j]
    BY <1>2, <1>4 DEF From
  <2>2. /\ h[j] = h[i] + 1
        /\ timers[h[i]].call = "listWallets" /\ timers[h[j]].call = "listTransactions"
    BY <1>3, <1>4, <2>1 DEF Queued
  <2>3. j = i + 1
    BY <1>1, <1>2, <2>2, Neighbours
  <2> QED
    BY <1>3, <2>2, <2>3
<1>5. ASSUME NEW i \in DOMAIN R, R[i].call = "listWallets"
      PROVE  i + 1 \in DOMAIN R /\ R[i + 1] = Timer(R[i].flow, "listTransactions")
  <2>1. h[i] + 1 \in DOMAIN timers /\ timers[h[i] + 1] = Timer(R[i].flow, "listTransactions")
    BY <1>3, <1>5 DEF Queued
  <2>2. timers[h[i] + 1].flow # f
    BY <1>2, <2>1 DEF Timer
  <2>3. PICK k \in DOMAIN R : h[k] = h[i] + 1
    BY <1>2, <2>1, <2>2
  <2>4. k = i + 1
    BY <1>1, <1>2, <2>3, Neighbours
  <2> QED
    BY <1>3, <2>1, <2>3, <2>4
<1>6. ASSUME NEW i \in DOMAIN R, R[i].call = "listTransactions"
      PROVE  \/ i = 1 /\ h[i] = 1
             \/ i # 1 /\ R[i - 1] = Timer(R[i].flow, "listWallets")
  <2>1. CASE h[i] = 1
    <3>1. i = 1
      <4> SUFFICES ASSUME i # 1 PROVE FALSE
        OBVIOUS
      <4>1. 1 \in DOMAIN R /\ 1 < i
        BY <1>1
      <4>2. h[1] < h[i]
        BY <1>2, <4>1 DEF From
      <4> QED
        BY <1>1, <1>3, <2>1, <4>1, <4>2
    <3> QED
      BY <2>1, <3>1
  <2>2. CASE h[i] # 1
    <3>1. timers[h[i] - 1] = Timer(R[i].flow, "listWallets")
      BY <1>3, <1>6, <2>2 DEF Queued
    <3>2. h[i] - 1 \in DOMAIN timers
      BY <1>1, <1>3, <2>2
    <3>3. timers[h[i] - 1].flow # f
      BY <1>2, <3>1 DEF Timer
    <3>4. PICK k \in DOMAIN R : h[k] = h[i] - 1
      BY <1>2, <3>2, <3>3
    <3>5. h[i] = h[k] + 1
      BY <1>3, <3>4
    <3>6. i = k + 1
      BY <1>1, <1>2, <3>5, Neighbours
    <3> QED
      BY <1>1, <1>3, <3>1, <3>4, <3>6
  <2> QED
    BY <2>1, <2>2
<1>7. Queued(R)
  BY <1>4, <1>5, <1>6 DEF Queued
<1>8. ASSUME NEW k \in DOMAIN R, R[k].call = "listTransactions", k = 1
      PROVE  1 \in DOMAIN timers /\ R[k] = timers[1]
  BY <1>3, <1>6, <1>8
<1> QED
  BY <1>7, <1>8 DEF R

(* Two lists are queued behind the rest. *)
LEMMA ListsQueued ==
    ASSUME NEW ts \in Seq(TimerRecords), Queued(ts), NEW f \in Flows,
           \A i \in DOMAIN ts : ts[i].flow # f
    PROVE  LET us == ts \o Lists(f) IN
           /\ us \in Seq(TimerRecords) /\ Len(us) = Len(ts) + 2
           /\ Queued(us)
           /\ \A i \in DOMAIN ts : i \in DOMAIN us /\ us[i] = ts[i]
           /\ us[Len(ts) + 1] = Timer(f, "listWallets")
           /\ us[Len(ts) + 2] = Timer(f, "listTransactions")
<1> DEFINE n == Len(ts)
           a == Timer(f, "listWallets")
           b == Timer(f, "listTransactions")
           us == ts \o Lists(f)
<1>1. a \in TimerRecords /\ b \in TimerRecords /\ a # b
  BY DEF Timer, TimerRecords, CallNames, ListCalls
<1>2. Lists(f) = <<a, b>>
  BY DEF Lists
<1>3. n \in Nat /\ DOMAIN ts = 1 .. n
  OBVIOUS
<1> HIDE DEF a, b
<1>4. /\ us \in Seq(TimerRecords) /\ Len(us) = n + 2
      /\ \A i \in 1 .. n : us[i] = ts[i]
      /\ us[n + 1] = a /\ us[n + 2] = b
  BY <1>1, <1>2
<1> HIDE DEF us, n
<1>5. DOMAIN us = 1 .. n + 2
  BY <1>4
<1>6. \A i \in DOMAIN us : i \in 1 .. n \/ i = n + 1 \/ i = n + 2
  BY <1>3, <1>5
<1>7. a.flow = f /\ a.call = "listWallets" /\ b.flow = f /\ b.call = "listTransactions"
  BY DEF a, b, Timer
<1>8. ASSUME NEW i \in DOMAIN us, NEW j \in DOMAIN us, i < j, us[i].flow = us[j].flow
      PROVE  j = i + 1 /\ us[i].call = "listWallets" /\ us[j].call = "listTransactions"
  <2>1. CASE i \in 1 .. n /\ j \in 1 .. n
    BY <1>3, <1>4, <1>8, <2>1 DEF Queued
  <2>2. CASE i \in 1 .. n /\ j \notin 1 .. n
    BY <1>3, <1>4, <1>6, <1>7, <1>8, <2>2
  <2>3. CASE i \notin 1 .. n
    <3>1. i = n + 1 /\ j = n + 2
      BY <1>3, <1>5, <1>6, <1>8, <2>3
    <3> QED
      BY <1>3, <1>4, <1>7, <3>1
  <2> QED
    BY <2>1, <2>2, <2>3
<1>9. ASSUME NEW i \in DOMAIN us, us[i].call = "listWallets"
      PROVE  i + 1 \in DOMAIN us /\ us[i + 1] = Timer(us[i].flow, "listTransactions")
  <2>1. CASE i \in 1 .. n
    <3>1. i + 1 \in DOMAIN ts /\ ts[i + 1] = Timer(ts[i].flow, "listTransactions")
      BY <1>3, <1>4, <1>9, <2>1 DEF Queued
    <3> QED
      BY <1>3, <1>4, <1>5, <2>1, <3>1
  <2>2. CASE i = n + 1
    <3>1. i + 1 = n + 2 /\ i + 1 \in DOMAIN us
      BY <1>3, <1>5, <2>2
    <3>2. us[i + 1] = b /\ us[i].flow = f
      BY <1>4, <1>7, <2>2, <3>1
    <3> QED
      BY <3>1, <3>2 DEF b
  <2>3. CASE i = n + 2
    BY <1>4, <1>7, <1>9, <2>3
  <2> QED
    BY <1>6, <2>1, <2>2, <2>3
<1>10. ASSUME NEW i \in DOMAIN us, us[i].call = "listTransactions"
       PROVE  i = 1 \/ us[i - 1] = Timer(us[i].flow, "listWallets")
  <2>1. CASE i \in 1 .. n
    <3>1. i = 1 \/ ts[i - 1] = Timer(ts[i].flow, "listWallets")
      BY <1>3, <1>4, <1>10, <2>1 DEF Queued
    <3>2. CASE i # 1
      <4>1. i - 1 \in 1 .. n
        BY <1>3, <2>1, <3>2
      <4> QED
        BY <1>4, <2>1, <3>1, <4>1
    <3> QED
      BY <3>2
  <2>2. CASE i = n + 1
    BY <1>4, <1>7, <1>10, <2>2
  <2>3. CASE i = n + 2
    <3>1. i - 1 = n + 1
      BY <1>3, <2>3
    <3>2. us[i - 1] = a /\ us[i].flow = f
      BY <1>4, <1>7, <2>3, <3>1
    <3> QED
      BY <3>2 DEF a
  <2> QED
    BY <1>6, <2>1, <2>2, <2>3
<1>11. Queued(us)
  BY <1>8, <1>9, <1>10 DEF Queued
<1>12. \A i \in DOMAIN ts : i \in DOMAIN us /\ us[i] = ts[i]
  BY <1>3, <1>4, <1>5
<1> QED
  BY <1>4, <1>11, <1>12 DEF us, n, a, b

(* So is any other call. *)
LEMMA CallQueued ==
    ASSUME NEW ts \in Seq(TimerRecords), Queued(ts), NEW f \in Flows,
           \A i \in DOMAIN ts : ts[i].flow # f, NEW call \in CallNames \ ListCalls
    PROVE  LET us == Append(ts, Timer(f, call)) IN
           /\ us \in Seq(TimerRecords) /\ Len(us) = Len(ts) + 1
           /\ Queued(us)
           /\ \A i \in DOMAIN ts : i \in DOMAIN us /\ us[i] = ts[i]
           /\ us[Len(ts) + 1] = Timer(f, call)
<1> DEFINE n == Len(ts)
           a == Timer(f, call)
           us == Append(ts, a)
<1>1. a \in TimerRecords
  BY DEF Timer, TimerRecords
<1>2. a.flow = f /\ a.call \notin ListCalls
  BY DEF Timer
<1>3. n \in Nat /\ DOMAIN ts = 1 .. n
  OBVIOUS
<1> HIDE DEF a
<1>4. /\ us \in Seq(TimerRecords) /\ Len(us) = n + 1
      /\ \A i \in 1 .. n : us[i] = ts[i]
      /\ us[n + 1] = a
  BY <1>1
<1> HIDE DEF us, n
<1>5. DOMAIN us = 1 .. n + 1
  BY <1>4
<1>6. \A i \in DOMAIN us : i \in 1 .. n \/ i = n + 1
  BY <1>3, <1>5
<1>8. ASSUME NEW i \in DOMAIN us, NEW j \in DOMAIN us, i < j, us[i].flow = us[j].flow
      PROVE  j = i + 1 /\ us[i].call = "listWallets" /\ us[j].call = "listTransactions"
  <2>1. i \in 1 .. n
    BY <1>3, <1>5, <1>6, <1>8
  <2>2. CASE j \in 1 .. n
    BY <1>3, <1>4, <1>8, <2>1, <2>2 DEF Queued
  <2>3. CASE j = n + 1
    BY <1>2, <1>3, <1>4, <1>8, <2>1, <2>3
  <2> QED
    BY <1>6, <2>2, <2>3
<1>9. ASSUME NEW i \in DOMAIN us, us[i].call = "listWallets"
      PROVE  i + 1 \in DOMAIN us /\ us[i + 1] = Timer(us[i].flow, "listTransactions")
  <2>1. i \in 1 .. n
    BY <1>2, <1>4, <1>6, <1>9 DEF ListCalls
  <2>2. i + 1 \in DOMAIN ts /\ ts[i + 1] = Timer(ts[i].flow, "listTransactions")
    BY <1>3, <1>4, <1>9, <2>1 DEF Queued
  <2> QED
    BY <1>3, <1>4, <1>5, <2>1, <2>2
<1>10. ASSUME NEW i \in DOMAIN us, us[i].call = "listTransactions"
       PROVE  i = 1 \/ us[i - 1] = Timer(us[i].flow, "listWallets")
  <2>1. i \in 1 .. n
    BY <1>2, <1>4, <1>6, <1>10 DEF ListCalls
  <2>2. i = 1 \/ ts[i - 1] = Timer(ts[i].flow, "listWallets")
    BY <1>3, <1>4, <1>10, <2>1 DEF Queued
  <2>3. CASE i # 1
    <3>1. i - 1 \in 1 .. n
      BY <1>3, <2>1, <2>3
    <3> QED
      BY <1>4, <2>1, <2>2, <3>1
  <2> QED
    BY <2>3
<1>11. Queued(us)
  BY <1>8, <1>9, <1>10 DEF Queued
<1>12. \A i \in DOMAIN ts : i \in DOMAIN us /\ us[i] = ts[i]
  BY <1>3, <1>4, <1>5
<1> QED
  BY <1>4, <1>11, <1>12 DEF us, n, a

(* The first list is answered: the second is at the head, alone.           *)
HalfDone(f) == Without(timers, {Timer(f, "listWallets")})

LEMMA HalfQueued ==
    ASSUME Typing, Queued(timers), NEW f \in Flows,
           1 \in DOMAIN timers, timers[1] = Timer(f, "listWallets")
    PROVE  /\ HalfDone(f) \in Seq(TimerRecords)
           /\ Queued(HalfDone(f))
           /\ 1 \in DOMAIN HalfDone(f)
           /\ HalfDone(f)[1] = Timer(f, "listTransactions")
           /\ \E h : /\ From(h, HalfDone(f))
                     /\ \A i \in DOMAIN timers : i # 1 => \E k \in DOMAIN HalfDone(f) : h[k] = i
<1> DEFINE R == HalfDone(f)
           a == Timer(f, "listWallets")
           b == Timer(f, "listTransactions")
<1>1. timers \in Seq(TimerRecords)
  BY DEF Typing
<1>2. R \in Seq(TimerRecords) /\ \E h : Embeds(h, R, timers, Len(timers), {a})
  BY <1>1, WithoutTimers DEF HalfDone
<1> HIDE DEF R
<1>3. PICK h : Embeds(h, R, timers, Len(timers), {a})
  BY <1>2
<1>4. DOMAIN R = 1 .. Len(R) /\ DOMAIN timers = 1 .. Len(timers) /\ Len(timers) \in Nat
  BY <1>1, <1>2
<1>5. From(h, R)
  BY <1>3, <1>4 DEF From, Embeds
<1>6. \A k \in DOMAIN R : h[k] \in DOMAIN timers /\ h[k] \in Nat /\ R[k] = timers[h[k]] /\ R[k] # a
  BY <1>3, <1>4 DEF Embeds
(* There is no other timer of f but the second list. *)
<1>7. /\ 2 \in DOMAIN timers /\ timers[2] = b
      /\ a.flow = f /\ a.call = "listWallets" /\ b.flow = f /\ b.call = "listTransactions"
  <2>1. a.flow = f /\ a.call = "listWallets" /\ b.flow = f /\ b.call = "listTransactions"
    BY DEF Timer
  <2>2. 1 + 1 \in DOMAIN timers /\ timers[1 + 1] = Timer(timers[1].flow, "listTransactions")
    BY <2>1 DEF Queued
  <2> QED
    BY <2>1, <2>2
<1>8. \A i \in DOMAIN timers : timers[i].flow = f => i = 1 \/ i = 2
  <2> SUFFICES ASSUME NEW i \in DOMAIN timers, timers[i].flow = f, i # 1 PROVE i = 2
    OBVIOUS
  <2>1. 1 < i
    BY <1>4
  <2> QED
    BY <1>7, <2>1 DEF Queued
<1> HIDE DEF a, b
<1>9. \A i \in DOMAIN timers : i # 1 => timers[i] # a
  <2> SUFFICES ASSUME NEW i \in DOMAIN timers, i # 1 PROVE timers[i] # a
    OBVIOUS
  <2>1. CASE timers[i].flow = f
    BY <1>7, <1>8, <2>1
  <2> QED
    BY <1>7, <2>1
<1>10. \A i \in DOMAIN timers : i # 1 => \E k \in DOMAIN R : h[k] = i
  BY <1>3, <1>4, <1>9 DEF Embeds
<1>11. \A k \in DOMAIN R : h[k] # 1
  BY <1>6 DEF a
<1>12. PICK k2 \in DOMAIN R : h[k2] = 2
  BY <1>7, <1>10
<1>13. k2 = 1
  <2> SUFFICES ASSUME k2 # 1 PROVE FALSE
    OBVIOUS
  <2>1. 1 \in DOMAIN R /\ 1 < k2
    BY <1>2, <1>4
  <2>2. h[1] < h[k2]
    BY <1>5, <2>1 DEF From
  <2>3. h[1] \in 1 .. Len(timers) /\ h[1] # 1
    BY <1>4, <1>6, <1>11, <2>1
  <2> QED
    BY <1>12, <2>2, <2>3
<1>14. 1 \in DOMAIN R /\ R[1] = b
  BY <1>6, <1>7, <1>12, <1>13
<1>15. ASSUME NEW i \in DOMAIN R, NEW j \in DOMAIN R, i < j, R[i].flow = R[j].flow
       PROVE  j = i + 1 /\ R[i].call = "listWallets" /\ R[j].call = "listTransactions"
  <2>1. h[i] < h[j]
    BY <1>5, <1>15 DEF From
  <2>2. /\ h[j] = h[i] + 1
        /\ timers[h[i]].call = "listWallets" /\ timers[h[j]].call = "listTransactions"
    BY <1>6, <1>15, <2>1 DEF Queued
  <2>3. j = i + 1
    BY <1>1, <1>2, <1>5, <2>2, Neighbours
  <2> QED
    BY <1>6, <2>2, <2>3
<1>16. ASSUME NEW i \in DOMAIN R, R[i].call = "listWallets"
       PROVE  i + 1 \in DOMAIN R /\ R[i + 1] = Timer(R[i].flow, "listTransactions")
  <2>1. h[i] + 1 \in DOMAIN timers /\ timers[h[i] + 1] = Timer(R[i].flow, "listTransactions")
    BY <1>6, <1>16 DEF Queued
  <2>2. h[i] + 1 # 1
    BY <1>4, <1>6
  <2>3. PICK k \in DOMAIN R : h[k] = h[i] + 1
    BY <1>10, <2>1, <2>2
  <2>4. k = i + 1
    BY <1>1, <1>2, <1>5, <2>3, Neighbours
  <2> QED
    BY <1>6, <2>1, <2>3, <2>4
<1>17. ASSUME NEW i \in DOMAIN R, R[i].call = "listTransactions"
       PROVE  i = 1 \/ R[i - 1] = Timer(R[i].flow, "listWallets")
  <2> SUFFICES ASSUME i # 1 PROVE R[i - 1] = Timer(R[i].flow, "listWallets")
    OBVIOUS
  <2>1. timers[h[i] - 1] = Timer(R[i].flow, "listWallets")
    BY <1>6, <1>11, <1>17 DEF Queued
  <2>2. h[1] < h[i] /\ h[1] = 2
    BY <1>2, <1>4, <1>5, <1>12, <1>13, <1>14 DEF From
  <2>3. h[i] - 1 \in DOMAIN timers /\ h[i] - 1 # 1
    BY <1>4, <1>6, <2>2
  <2>4. PICK k \in DOMAIN R : h[k] = h[i] - 1
    BY <1>10, <2>3
  <2>5. h[i] = h[k] + 1
    BY <1>6, <2>4
  <2>6. i = k + 1
    BY <1>1, <1>2, <1>5, <2>5, Neighbours
  <2> QED
    BY <1>2, <1>6, <2>1, <2>4, <2>6
<1>18. Queued(R)
  BY <1>15, <1>16, <1>17 DEF Queued
<1> QED
  BY <1>2, <1>5, <1>10, <1>14, <1>18 DEF R, b

-------------------------------------------------------------------------------
(* What a step does to the flows and to the queue.                         *)

SameRun(r, s) ==
    /\ r.op = s.op /\ r.to = s.to /\ r.amount = s.amount
    /\ r.moved = s.moved /\ r.told = s.told

OthersRun(f) ==
    \A g \in Flows \ {f} : SameRun(flow'[g], flow[g]) /\ flow'[g].got = flow[g].got

(* The pages change with the answer to the second list. *)
Shows(f) ==
    /\ session # 0 /\ 1 \in DOMAIN timers /\ timers[1] = Timer(f, "listTransactions")
    /\ shown' = Read(f, "listTransactions") /\ UNCHANGED <<mock, user>>

Listed(f) == session = 0 \/ Shows(f)

(* f's call is due, or f has not begun. *)
Fires(f) ==
    \/ flow[f] = Nothing
    \/ \E call \in CallNames : Due(f, call) /\ (call \in ListCalls => Listed(f))

(* A form is given back when its call is answered. *)
Freed(f) ==
    loading' = loading \/ (loading' = FALSE /\ \E call \in AuthCalls : Due(f, call))

Stays ==
    /\ timers' = timers /\ page' = page /\ loading' = loading
    /\ \A g \in Flows : \/ SameRun(flow'[g], flow[g]) /\ flow'[g].got = flow[g].got
                        \/ flow[g].told # "none"

Starts(f, call) ==
    /\ flow[f] = Nothing
    /\ timers' = Append(timers, Timer(f, call)) /\ page' = page
    /\ Runs(call, flow'[f], Len(pendings))
    /\ OthersRun(f)
    /\ IF call \in AuthCalls THEN ~loading /\ loading' = TRUE /\ page # "home"
       ELSE loading' = loading
    /\ call = "verifyPhone" => pending # 0 /\ flow'[f].to = pending

Ends(f) ==
    /\ Fires(f) /\ Freed(f)
    /\ timers' = Others(f) /\ (page' = "home" => page = "home")
    /\ OthersRun(f)

Lists2(f) ==
    /\ Fires(f) /\ Freed(f)
    /\ timers' = Others(f) \o Lists(f)
    /\ Runs("listWallets", flow'[f], Len(pendings))
    /\ OthersRun(f)

Halves(f) ==
    /\ 1 \in DOMAIN timers /\ timers[1] = Timer(f, "listWallets")
    /\ timers' = HalfDone(f) /\ page' = page /\ loading' = loading
    /\ SameRun(flow'[f], flow[f])
    /\ session # 0 /\ flow'[f].got = Read(f, "listWallets") /\ UNCHANGED mock
    /\ OthersRun(f)

Shape ==
    \/ Stays
    \/ \E f \in Flows :
          \/ \E call \in CallNames \ ListCalls : Starts(f, call)
          \/ Ends(f) \/ Lists2(f) \/ Halves(f)

LEMMA NoTimers ==
    ASSUME Running, NEW f, flow[f].op = "none" \/ flow[f].told # "none"
    PROVE  \A i \in DOMAIN timers : timers[i].flow # f
BY DEF Running, Runs

LEMMA FlowRecord ==
    ASSUME FlowsTyped, NEW f \in Flows
    PROVE  /\ flow[f] \in FlowStates /\ DOMAIN flow = Flows
           /\ flow[f].op \in Ops /\ flow[f].to \in Nat /\ flow[f].amount \in Nat
           /\ flow[f].here \in BOOLEAN /\ flow[f].moved \in Nat
           /\ flow[f].got \in Readings /\ flow[f].told \in {"none", "done", "failed"}
<1>1. flow[f] \in FlowStates /\ DOMAIN flow = Flows
  BY DEF FlowsTyped
<1> QED
  BY <1>1 DEF FlowStates

LEMMA NothingIs ==
    /\ Nothing.op = "none" /\ Nothing.to = 0 /\ Nothing.amount = 0 /\ Nothing.here = FALSE
    /\ Nothing.moved = 0 /\ Nothing.got = Unread /\ Nothing.told = "none"
BY DEF Nothing, Begun

LEMMA StartBegins ==
    ASSUME FlowsTyped, NEW f \in Flows, NEW op, NEW to, NEW amount, NEW call,
           Start(f, op, to, amount, call)
    PROVE  /\ flow' = [flow EXCEPT ![f] = Begun(op, to, amount, TRUE)]
           /\ flow'[f] = Begun(op, to, amount, TRUE)
           /\ \A g \in Flows \ {f} : flow'[g] = flow[g]
BY FlowRecord DEF Start

LEMMA StartShape ==
    ASSUME FlowsTyped, NEW f \in Flows, NEW op \in Ops \ {"none"}, NEW to, NEW amount,
           NEW call \in CallNames \ ListCalls,
           Start(f, op, to, amount, call), page' = page,
           Runs(call, Begun(op, to, amount, TRUE), Len(pendings)),
           IF call \in AuthCalls THEN ~loading /\ loading' = TRUE /\ page # "home"
           ELSE loading' = loading,
           call = "verifyPhone" => pending # 0 /\ to = pending
    PROVE  Starts(f, call)
<1>1. flow'[f] = Begun(op, to, amount, TRUE) /\ \A g \in Flows \ {f} : flow'[g] = flow[g]
  BY StartBegins
<1>2. OthersRun(f)
  BY <1>1 DEF OthersRun, SameRun
<1>3. flow'[f].to = to
  BY <1>1 DEF Begun
<1> QED
  BY <1>1, <1>2, <1>3 DEF Starts, Start

LEMMA GoToShape ==
    ASSUME FlowsTyped, NEW f \in Flows, NEW p, GoTo(f, p), Fires(f), Freed(f)
    PROVE  /\ OthersRun(f)
           /\ \A g \in Flows \ {f} : flow'[g] = [flow[g] EXCEPT !.here = FALSE]
           /\ Fetches(p) => flow'[f] = Begun("fetch", 0, 0, FALSE) /\ Lists2(f)
           /\ ~Fetches(p) => flow'[f] = Nothing /\ Ends(f)
<1>1. /\ Away(flow) = [g \in Flows |-> [flow[g] EXCEPT !.here = FALSE]]
      /\ DOMAIN Away(flow) = Flows
  BY DEF Away
<1>2. \E r : flow' = [Away(flow) EXCEPT ![f] = r]
  BY DEF GoTo
<1>3. \A g \in Flows \ {f} : flow'[g] = [flow[g] EXCEPT !.here = FALSE]
  BY <1>1, <1>2
<1>4. OthersRun(f)
  <2> SUFFICES ASSUME NEW g \in Flows \ {f}
               PROVE  SameRun(flow'[g], flow[g]) /\ flow'[g].got = flow[g].got
    BY DEF OthersRun
  <2>1. flow'[g] = [flow[g] EXCEPT !.here = FALSE] /\ flow[g] \in FlowStates
    BY <1>3, FlowRecord
  <2> QED
    BY <2>1 DEF SameRun, FlowStates
<1>5. ASSUME Fetches(p) PROVE flow'[f] = Begun("fetch", 0, 0, FALSE) /\ Lists2(f)
  <2>2. flow'[f] = Begun("fetch", 0, 0, FALSE) /\ timers' = Others(f) \o Lists(f)
    BY <1>1, <1>5 DEF GoTo
  <2>3. Runs("listWallets", Begun("fetch", 0, 0, FALSE), Len(pendings))
    BY DEF Runs, Begun
  <2> QED
    BY <1>4, <2>2, <2>3 DEF Lists2
<1>6. ASSUME ~Fetches(p) PROVE flow'[f] = Nothing /\ Ends(f)
  BY <1>1, <1>4, <1>6 DEF GoTo, Ends, Fetches
<1> QED
  BY <1>3, <1>4, <1>5, <1>6

(* A flow that ends, or that writes to itself and goes on. *)
LEMMA OnlyOne ==
    ASSUME FlowsTyped, NEW f \in Flows, NEW r, flow' = [flow EXCEPT ![f] = r]
    PROVE  flow'[f] = r /\ OthersRun(f) /\ \A g \in Flows \ {f} : flow'[g] = flow[g]
BY FlowRecord DEF OthersRun, SameRun

LEMMA EnterShape ==
    ASSUME FlowsTyped, NEW f \in Flows, NEW u, Enter(f, u),
           NEW call \in AuthCalls, Due(f, call)
    PROVE  /\ page = "home" => flow'[f] = Nothing /\ Ends(f)
           /\ page # "home" => flow'[f] = Begun("fetch", 0, 0, FALSE) /\ Lists2(f)
<1>0. Fires(f) /\ Freed(f)
  BY DEF Enter, Fires, Freed, CallNames, AuthCalls, ListCalls
<1>1. CASE page = "home"
  BY <1>0, <1>1, OnlyOne DEF Enter, Ends
<1>2. CASE page # "home"
  BY <1>0, <1>2, GoToShape DEF Enter, Fetches
<1> QED
  BY <1>1, <1>2

LEMMA MovedShape ==
    ASSUME FlowsTyped, NEW f \in Flows, flow[f].op \in {"send", "pay", "topUp"},
           flow[f].moved = 0, flow[f].told = "none", Moved(f), Fires(f)
    PROVE  /\ Lists2(f) /\ flow'[f] = [flow[f] EXCEPT !.moved = 1]
           /\ \A g \in Flows \ {f} : flow'[g] = flow[g]
<1>1. flow' = [flow EXCEPT ![f] = [flow[f] EXCEPT !.moved = 1]]
  BY FlowRecord DEF Moved
<1>2. flow'[f] = [flow[f] EXCEPT !.moved = 1] /\ OthersRun(f)
      /\ \A g \in Flows \ {f} : flow'[g] = flow[g]
  BY <1>1, OnlyOne
<1>3. flow[f] \in FlowStates
  BY FlowRecord
<1>4. flow'[f].op = flow[f].op /\ flow'[f].moved = 1 /\ flow'[f].told = "none"
  BY <1>2, <1>3 DEF FlowStates
<1>5. Runs("listWallets", flow'[f], Len(pendings))
  BY <1>4 DEF Runs, ListCalls
<1> QED
  BY <1>2, <1>5 DEF Moved, Lists2, Freed, stores

LEMMA ToldShape ==
    ASSUME FlowsTyped, NEW f \in Flows, NEW what, Told(f, what), Fires(f)
    PROVE  /\ Ends(f) /\ flow'[f] = [flow[f] EXCEPT !.told = what]
           /\ \A g \in Flows \ {f} : flow'[g] = flow[g]
BY OnlyOne DEF Told, Ends, Freed, screen

LEMMA FetchEndsShape ==
    ASSUME FlowsTyped, NEW f \in Flows, NEW what, FetchEnds(f, what), Fires(f)
    PROVE  /\ Ends(f)
           /\ IF flow[f].op = "fetch" THEN flow'[f] = Nothing
              ELSE flow'[f] = [flow[f] EXCEPT !.told = what]
           /\ \A g \in Flows \ {f} : flow'[g] = flow[g]
<1>1. CASE flow[f].op = "fetch"
  BY <1>1, OnlyOne DEF FetchEnds, Ends, Freed, screen
<1>2. CASE flow[f].op # "fetch"
  BY <1>2, ToldShape DEF FetchEnds
<1> QED
  BY <1>1, <1>2

(* The flow of a call that is due. *)
LEMMA DueRuns ==
    ASSUME Running, NEW f, NEW call, Due(f, call)
    PROVE  Runs(call, flow[f], Len(pendings))
<1>1. PICK i \in DOMAIN timers : timers[i] = Timer(f, call)
  BY DueIsQueued
<1> QED
  BY <1>1 DEF Running, Timer

(* Which of its timers f has, when the answered one is all of them or not. *)
LEMMA ListShape ==
    ASSUME Typing, Running, Queued(timers), NEW f \in Flows, NEW call \in ListCalls,
           ListAnswered(f, call)
    PROVE  \/ /\ call = "listWallets" /\ Halves(f)
              /\ flow'[f] = [flow[f] EXCEPT !.got = Read(f, call)]
              /\ \A g \in Flows \ {f} : flow'[g] = flow[g]
              /\ UNCHANGED <<mock, stores, screen, calls>>
           \/ /\ call = "listTransactions" /\ Fires(f)
              /\ 1 \in DOMAIN timers /\ timers[1] = Timer(f, call)
              /\ shown' = Read(f, call) /\ FetchEnds(f, "done")
<1>0. FlowsTyped /\ timers \in Seq(TimerRecords)
  BY DEF Typing
<1>1. 1 \in DOMAIN timers /\ timers[1] = Timer(f, call)
  BY <1>0, DueIsHead DEF ListAnswered, ListCalls
<1>2. CASE call = "listWallets"
  <2>1. 2 \in DOMAIN timers /\ timers[2] = Timer(f, "listTransactions")
    <3>1. 1 + 1 \in DOMAIN timers /\ timers[1 + 1] = Timer(timers[1].flow, "listTransactions")
      BY <1>1, <1>2 DEF Queued, Timer
    <3> QED
      BY <1>1, <3>1 DEF Timer
  <2>2. Timer(f, "listTransactions") \in TimersOf(f)
    BY <2>1 DEF TimersOf, ToSet, Timer
  <2>3. TimersOf(f) # {Timer(f, call)}
    BY <1>2, <2>2 DEF Timer
  <2>4. /\ flow' = [flow EXCEPT ![f] = [flow[f] EXCEPT !.got = Read(f, call)]]
        /\ timers' = HalfDone(f)
        /\ UNCHANGED <<mock, stores, screen, calls>>
    BY <1>2, <2>3 DEF ListAnswered, HalfDone
  <2>5. flow'[f] = [flow[f] EXCEPT !.got = Read(f, call)] /\ OthersRun(f)
        /\ \A g \in Flows \ {f} : flow'[g] = flow[g]
    BY <1>0, <2>4, OnlyOne
  <2>6. SameRun(flow'[f], flow[f]) /\ flow'[f].got = Read(f, call)
    BY <1>0, <2>5, FlowRecord DEF SameRun, FlowStates
  <2> QED
    BY <1>1, <1>2, <2>4, <2>5, <2>6 DEF Halves, ListAnswered, stores, screen
<1>3. CASE call = "listTransactions"
  <2>1. \A i \in DOMAIN timers : timers[i].flow = f => i = 1
    <3> SUFFICES ASSUME NEW i \in DOMAIN timers, timers[i].flow = f, i # 1 PROVE FALSE
      OBVIOUS
    <3>1. 1 < i /\ timers[1].flow = f /\ timers[1].call = "listTransactions"
      BY <1>0, <1>1, <1>3 DEF Timer
    <3> QED
      BY <1>1, <3>1 DEF Queued
  <2>2. TimersOf(f) = {Timer(f, call)}
    <3>1. \A t \in TimersOf(f) : t = Timer(f, call)
      BY <1>1, <2>1 DEF TimersOf, ToSet
    <3>2. Timer(f, call) \in TimersOf(f)
      BY <1>1 DEF TimersOf, ToSet, Timer
    <3> QED
      BY <3>1, <3>2
  <2>3. shown' = Read(f, call) /\ FetchEnds(f, "done") /\ session # 0 /\ Due(f, call)
    BY <2>2 DEF ListAnswered
  <2>4. Shows(f)
    BY <1>1, <1>3, <2>3 DEF Shows, FetchEnds, Told
  <2>5. Fires(f)
    BY <2>3, <2>4 DEF Fires, Listed, CallNames
  <2> QED
    BY <1>1, <1>3, <2>3, <2>5
<1> QED
  BY <1>2, <1>3 DEF ListCalls

LEMMA UseShape ==
    ASSUME Typing, Running, NEW f \in Flows, Use(f) PROVE Shape
<1>0. FlowsTyped
  BY DEF Typing
<1>1. ASSUME NEW p \in Phones, SubmitLogin(f, p) PROVE Shape
  <2>1. Runs("login", Begun("login", p, 0, TRUE), Len(pendings))
    BY DEF Runs, Begun, ListCalls
  <2>2. "login" \in CallNames \ ListCalls /\ "login" \in Ops \ {"none"}
    BY DEF CallNames, AuthCalls, ListCalls, Ops
  <2>3. Starts(f, "login")
    BY <1>0, <1>1, <2>1, <2>2, StartShape DEF SubmitLogin, Idle, screen, AuthCalls
  <2> QED
    BY <2>2, <2>3 DEF Shape
<1>2. ASSUME NEW p \in Phones, SubmitPhone(f, p) PROVE Shape
  <2>1. Runs("register", Begun("register", p, 0, TRUE), Len(pendings))
    BY DEF Runs, Begun, ListCalls
  <2>2. "register" \in CallNames \ ListCalls /\ "register" \in Ops \ {"none"}
    BY DEF CallNames, AuthCalls, ListCalls, Ops
  <2>3. Starts(f, "register")
    BY <1>0, <1>2, <2>1, <2>2, StartShape DEF SubmitPhone, Idle, screen, AuthCalls
  <2> QED
    BY <2>2, <2>3 DEF Shape
<1>3. CASE SubmitCode(f)
  <2>0. pending \in 1 .. Len(pendings)
    BY <1>3 DEF SubmitCode, Typing, StoresTyped, DatabaseTyped
  <2>1. Runs("verifyPhone", Begun("verify", pending, 0, TRUE), Len(pendings))
    BY <2>0 DEF Runs, Begun, ListCalls
  <2>2. "verifyPhone" \in CallNames \ ListCalls /\ "verify" \in Ops \ {"none"}
    BY DEF CallNames, AuthCalls, ListCalls, Ops
  <2>3. Starts(f, "verifyPhone")
    BY <1>0, <1>3, <2>1, <2>2, StartShape DEF SubmitCode, Idle, screen, AuthCalls
  <2> QED
    BY <2>2, <2>3 DEF Shape
<1>4. CASE LogOut(f)
  <2>1. Runs("logout", Begun("logout", 0, 0, TRUE), Len(pendings))
    BY DEF Runs, Begun, ListCalls
  <2>2. "logout" \in CallNames \ ListCalls /\ "logout" \in Ops \ {"none"}
    BY DEF CallNames, AuthCalls, ListCalls, Ops
  <2>3. Starts(f, "logout")
    BY <1>0, <1>4, <2>1, <2>2, StartShape DEF LogOut, stores, screen, AuthCalls
  <2> QED
    BY <2>2, <2>3 DEF Shape
<1>5. CASE SwitchMode(f)
  <2>1. flow' = [flow EXCEPT ![f] = [flow[f] EXCEPT !.here = FALSE]] /\ timers' = timers
    BY <1>5 DEF SwitchMode
  <2>2. flow'[f] = [flow[f] EXCEPT !.here = FALSE] /\ OthersRun(f)
    BY <1>0, <2>1, OnlyOne
  <2>3. SameRun(flow'[f], flow[f]) /\ flow'[f].got = flow[f].got
    BY <1>0, <2>2, FlowRecord DEF SameRun, FlowStates
  <2> QED
    BY <1>5, <2>1, <2>2, <2>3 DEF SwitchMode, Shape, Stays, OthersRun, stores, screen
<1>6. CASE Dismiss(f)
  <2>1. OthersRun(f)
    BY <1>0, <1>6, OnlyOne DEF Dismiss
  <2> QED
    BY <1>6, <2>1 DEF Dismiss, Shape, Stays, OthersRun, stores, screen
<1>7. ASSUME NEW n \in Amounts, NEW p \in Phones, Send(f, p, n) PROVE Shape
  <2>1. Runs("transfer", Begun("send", p, n, TRUE), Len(pendings))
    BY DEF Runs, Begun, ListCalls
  <2>2. "transfer" \in CallNames \ ListCalls /\ "send" \in Ops \ {"none"}
    BY DEF CallNames, AuthCalls, ListCalls, Ops
  <2>3. Starts(f, "transfer")
    BY <1>0, <1>7, <2>1, <2>2, StartShape DEF Send, stores, screen, AuthCalls
  <2> QED
    BY <2>2, <2>3 DEF Shape
<1>8. ASSUME NEW n \in Amounts, NEW to, Pay(f, to, n) PROVE Shape
  <2>1. Runs("payRequest", Begun("pay", to, n, TRUE), Len(pendings))
    BY DEF Runs, Begun, ListCalls
  <2>2. "payRequest" \in CallNames \ ListCalls /\ "pay" \in Ops \ {"none"}
    BY DEF CallNames, AuthCalls, ListCalls, Ops
  <2>3. Starts(f, "payRequest")
    BY <1>0, <1>8, <2>1, <2>2, StartShape DEF Pay, stores, screen, AuthCalls
  <2> QED
    BY <2>2, <2>3 DEF Shape
<1>9. ASSUME NEW n \in Amounts, TopUp(f, n) PROVE Shape
  <2>1. Runs("topUp", Begun("topUp", 0, n, TRUE), Len(pendings))
    BY DEF Runs, Begun, ListCalls
  <2>2. "topUp" \in CallNames \ ListCalls /\ "topUp" \in Ops \ {"none"}
    BY DEF CallNames, AuthCalls, ListCalls, Ops
  <2>3. Starts(f, "topUp")
    BY <1>0, <1>9, <2>1, <2>2, StartShape DEF TopUp, stores, screen, AuthCalls
  <2> QED
    BY <2>2, <2>3 DEF Shape
<1>10. ASSUME NEW p, Visit(f, p) PROVE Shape
  BY <1>0, <1>10, GoToShape DEF Visit, Shape, Fires, Freed, stores
<1> QED
  BY <1>1, <1>2, <1>3, <1>4, <1>5, <1>6, <1>7, <1>8, <1>9, <1>10 DEF Use

(* A call that moves money is of a flow that has moved none yet.           *)
LEMMA PayRuns ==
    ASSUME Running, NEW f, PayDue(f) \/ Due(f, "topUp")
    PROVE  /\ flow[f].op \in {"send", "pay", "topUp"}
           /\ flow[f].moved = 0 /\ flow[f].told = "none"
<1>1. PICK call \in {"transfer", "payRequest", "topUp"} : Due(f, call)
  BY DEF PayDue
<1>2. Runs(call, flow[f], Len(pendings))
  BY <1>1, DueRuns
<1> QED
  BY <1>2 DEF Runs

LEMMA FireShape ==
    ASSUME Typing, Running, Queued(timers), NEW f \in Flows, Fire(f) PROVE Shape
<1>0. FlowsTyped
  BY DEF Typing
<1>1. CASE LoginAnswered(f)
  BY <1>0, <1>1, EnterShape DEF LoginAnswered, Shape, AuthCalls
<1>2. CASE LoginRefused(f) \/ RegisterRefused(f) \/ VerifyRefused(f)
  <2>1. Fires(f) /\ Freed(f)
    BY <1>2 DEF LoginRefused, RegisterRefused, VerifyRefused, Rejected, Fires, Freed, AuthCalls,
                CallNames, ListCalls
  <2> QED
    BY <1>0, <1>2, <2>1, OnlyOne
       DEF LoginRefused, RegisterRefused, VerifyRefused, Rejected, Shape, Ends, screen
<1>3. CASE Registered(f)
  <2>1. Fires(f) /\ Freed(f)
    BY <1>3 DEF Registered, Fires, Freed, AuthCalls, CallNames, ListCalls
  <2> QED
    BY <1>0, <1>3, <2>1, OnlyOne DEF Registered, Shape, Ends
<1>4. CASE Verified(f)
  BY <1>0, <1>4, EnterShape DEF Verified, Shape, AuthCalls
<1>5. CASE LoggedOut(f)
  <2>1. Fires(f) /\ Freed(f)
    BY <1>5 DEF LoggedOut, Fires, Freed, CallNames, ListCalls
  <2> QED
    BY <1>0, <1>5, <2>1, GoToShape DEF LoggedOut, Shape
<1>6. CASE Transferred(f) \/ ToppedUp(f)
  <2>1. Fires(f)
    BY <1>6 DEF Transferred, ToppedUp, PayDue, Fires, CallNames, ListCalls
  <2> QED
    BY <1>0, <1>6, <2>1, PayRuns, MovedShape DEF Transferred, ToppedUp, Shape
<1>7. CASE TransferRefused(f) \/ TopUpRefused(f)
  <2>1. Fires(f)
    BY <1>7 DEF TransferRefused, TopUpRefused, PayDue, Fires, CallNames, ListCalls
  <2> QED
    BY <1>0, <1>7, <2>1, ToldShape DEF TransferRefused, TopUpRefused, Shape
<1>8. ASSUME NEW call \in ListCalls, ListAnswered(f, call) PROVE Shape
  BY <1>0, <1>8, ListShape, FetchEndsShape DEF Shape
<1>9. CASE ListsRefused(f)
  <2>1. Fires(f)
    BY <1>9 DEF ListsRefused, Fires, Listed, CallNames, ListCalls
  <2> QED
    BY <1>0, <1>9, <2>1, FetchEndsShape DEF ListsRefused, FetchFailed, Shape
<1> QED
  BY <1>1, <1>2, <1>3, <1>4, <1>5, <1>6, <1>7, <1>8, <1>9 DEF Fire, ListCalls

LEMMA StepShape ==
    ASSUME Typing, Running, Queued(timers), [Next]_vars PROVE Shape
<1>1. CASE ChangePhone \/ UNCHANGED vars
  BY <1>1 DEF ChangePhone, vars, Shape, Stays, SameRun, stores
<1>2. ASSUME NEW f \in Flows, Fire(f) \/ Use(f) PROVE Shape
  BY <1>2, FireShape, UseShape
<1> QED
  BY <1>1, <1>2 DEF Next

-------------------------------------------------------------------------------
(* The queue keeps its order, and every flow runs what it waits for.       *)

LEMMA SameRuns ==
    ASSUME NEW call, NEW r, NEW s, NEW m \in Nat, NEW n \in Nat, m <= n,
           SameRun(r, s), Runs(call, s, m)
    PROVE  Runs(call, r, n)
BY DEF Runs, SameRun

RunsAll(ts, n) == \A i \in DOMAIN ts : Runs(ts[i].call, flow'[ts[i].flow], n)

LEMMA QueueStep ==
    ASSUME Typing, Running, Queued(timers), Shape, Len(pendings') \in Nat,
           Len(pendings) <= Len(pendings')
    PROVE  timers' \in Seq(TimerRecords) /\ Queued(timers') /\ Running'
<1> DEFINE m == Len(pendings)
           n == Len(pendings')
<1>0. m \in Nat /\ n \in Nat /\ m <= n /\ timers \in Seq(TimerRecords)
  BY DEF Typing, DatabaseTyped
<1>1. RunsAll(timers', n) => Running'
  BY DEF RunsAll, Running, Runs, ListCalls
<1>2. \A i \in DOMAIN timers : timers[i].flow \in Flows /\ timers[i].call \in CallNames
  <2> SUFFICES ASSUME NEW i \in DOMAIN timers
               PROVE  timers[i].flow \in Flows /\ timers[i].call \in CallNames
    OBVIOUS
  <2>1. timers[i] \in TimerRecords
    BY <1>0
  <2> QED
    BY <2>1 DEF TimerRecords
(* The timers of the other flows. *)
<1>3. ASSUME NEW f \in Flows, OthersRun(f), NEW ts \in Seq(TimerRecords), NEW h, From(h, ts),
             NEW k \in DOMAIN ts, ts[k].flow # f
      PROVE  Runs(ts[k].call, flow'[ts[k].flow], n)
  <2>1. h[k] \in DOMAIN timers /\ ts[k] = timers[h[k]]
    BY <1>3 DEF From
  <2>2. Runs(ts[k].call, flow[ts[k].flow], m) /\ ts[k].flow \in Flows
    BY <1>2, <2>1 DEF Running
  <2>3. SameRun(flow'[ts[k].flow], flow[ts[k].flow])
    BY <1>3, <2>2 DEF OthersRun
  <2> QED
    BY <1>0, <2>2, <2>3, SameRuns
<1>4. ASSUME NEW f \in Flows, OthersRun(f)
      PROVE  /\ Others(f) \in Seq(TimerRecords) /\ Queued(Others(f))
             /\ RunsAll(Others(f), n)
             /\ \A k \in DOMAIN Others(f) : Others(f)[k].flow # f
  <2>1. PICK h : From(h, Others(f)) /\ \A k \in DOMAIN Others(f) : Others(f)[k].flow # f
    BY OthersFrom
  <2> QED
    BY <1>3, <1>4, <2>1, OthersFrom, OthersQueued DEF RunsAll
<1>5. CASE Stays
  <2>1. RunsAll(timers, n)
    <3> SUFFICES ASSUME NEW i \in DOMAIN timers
                 PROVE  Runs(timers[i].call, flow'[timers[i].flow], n)
      BY DEF RunsAll
    <3>1. Runs(timers[i].call, flow[timers[i].flow], m) /\ timers[i].flow \in Flows
      BY <1>2 DEF Running
    <3>2. flow[timers[i].flow].told = "none"
      BY <3>1 DEF Runs
    <3>3. SameRun(flow'[timers[i].flow], flow[timers[i].flow])
      BY <1>5, <3>1, <3>2 DEF Stays
    <3> QED
      BY <1>0, <3>1, <3>3, SameRuns
  <2>2. timers' = timers
    BY <1>5 DEF Stays
  <2>3. RunsAll(timers', n)
    BY <2>1, <2>2 DEF RunsAll
  <2> QED
    BY <1>0, <1>1, <2>2, <2>3
<1>6. ASSUME NEW f \in Flows, NEW call \in CallNames \ ListCalls, Starts(f, call)
      PROVE  timers' \in Seq(TimerRecords) /\ Queued(timers') /\ RunsAll(timers', n)
  <2>1. \A i \in DOMAIN timers : timers[i].flow # f
    BY <1>6, NothingIs, NoTimers DEF Starts
  <2>2. LET us == Append(timers, Timer(f, call)) IN
           /\ us \in Seq(TimerRecords) /\ Len(us) = Len(timers) + 1 /\ Queued(us)
           /\ \A i \in DOMAIN timers : i \in DOMAIN us /\ us[i] = timers[i]
           /\ us[Len(timers) + 1] = Timer(f, call)
    BY <1>0, <2>1, CallQueued
  <2>3. timers' \in Seq(TimerRecords) /\ Len(timers') = Len(timers) + 1 /\ Queued(timers')
        /\ (\A i \in DOMAIN timers : timers'[i] = timers[i])
        /\ timers'[Len(timers) + 1] = Timer(f, call)
    BY <1>6, <2>2 DEF Starts
  <2>4. ASSUME NEW i \in DOMAIN timers' PROVE Runs(timers'[i].call, flow'[timers'[i].flow], n)
    <3>1. CASE i \in DOMAIN timers
      <4>1. Runs(timers[i].call, flow[timers[i].flow], m) /\ timers[i].flow \in Flows \ {f}
        BY <1>2, <2>1, <3>1 DEF Running
      <4>2. SameRun(flow'[timers[i].flow], flow[timers[i].flow])
        BY <1>6, <4>1 DEF Starts, OthersRun
      <4>3. Runs(timers[i].call, flow'[timers[i].flow], n)
        BY <1>0, <4>1, <4>2, SameRuns
      <4> QED
        BY <2>3, <3>1, <4>3
    <3>2. CASE i \notin DOMAIN timers
      <4>1. i = Len(timers) + 1
        BY <1>0, <2>3, <2>4, <3>2
      <4>2. Runs(call, flow'[f], m)
        BY <1>6 DEF Starts
      <4>3. Runs(call, flow'[f], n)
        BY <1>0, <4>2, SameRuns DEF SameRun
      <4> QED
        BY <2>3, <4>1, <4>3 DEF Timer
    <3> QED
      BY <3>1, <3>2
  <2> QED
    BY <2>3, <2>4 DEF RunsAll
<1>7. ASSUME NEW f \in Flows, Ends(f)
      PROVE  timers' \in Seq(TimerRecords) /\ Queued(timers') /\ RunsAll(timers', n)
  BY <1>4, <1>7 DEF Ends
<1>8. ASSUME NEW f \in Flows, Lists2(f)
      PROVE  timers' \in Seq(TimerRecords) /\ Queued(timers') /\ RunsAll(timers', n)
  <2> DEFINE ts == Others(f)
             us == ts \o Lists(f)
  <2>1. /\ ts \in Seq(TimerRecords) /\ Queued(ts) /\ RunsAll(ts, n)
        /\ \A k \in DOMAIN ts : ts[k].flow # f
    BY <1>4, <1>8 DEF Lists2
  <2> HIDE DEF ts
  <2>2. /\ us \in Seq(TimerRecords) /\ Len(us) = Len(ts) + 2 /\ Queued(us)
        /\ \A i \in DOMAIN ts : i \in DOMAIN us /\ us[i] = ts[i]
        /\ us[Len(ts) + 1] = Timer(f, "listWallets")
        /\ us[Len(ts) + 2] = Timer(f, "listTransactions")
    BY <2>1, ListsQueued
  <2> HIDE DEF us
  <2>3. Runs("listWallets", flow'[f], n) /\ Runs("listTransactions", flow'[f], n)
    <3>1. Runs("listWallets", flow'[f], m)
      BY <1>8 DEF Lists2
    <3> QED
      BY <3>1 DEF Runs, ListCalls
  <2>4. ASSUME NEW i \in DOMAIN us PROVE Runs(us[i].call, flow'[us[i].flow], n)
    <3>1. CASE i \in DOMAIN ts
      BY <2>1, <2>2, <3>1 DEF RunsAll
    <3>2. CASE i \notin DOMAIN ts
      <4>1. i = Len(ts) + 1 \/ i = Len(ts) + 2
        BY <2>1, <2>2, <3>2
      <4> QED
        BY <2>2, <2>3, <4>1 DEF Timer
    <3> QED
      BY <3>1, <3>2
  <2>5. timers' = us
    BY <1>8 DEF Lists2, us, ts
  <2> QED
    BY <2>2, <2>4, <2>5 DEF RunsAll
<1>9. ASSUME NEW f \in Flows, Halves(f)
      PROVE  timers' \in Seq(TimerRecords) /\ Queued(timers') /\ RunsAll(timers', n)
  <2> DEFINE ts == HalfDone(f)
  <2>1. ts \in Seq(TimerRecords) /\ Queued(ts) /\ \E h : From(h, ts)
    BY <1>9, HalfQueued DEF Halves
  <2>2. PICK h : From(h, ts)
    BY <2>1
  <2> HIDE DEF ts
  <2>3. ASSUME NEW k \in DOMAIN ts PROVE Runs(ts[k].call, flow'[ts[k].flow], n)
    <3>1. CASE ts[k].flow # f
      BY <1>3, <1>9, <2>1, <2>2, <3>1 DEF Halves
    <3>2. CASE ts[k].flow = f
      <4>1. h[k] \in DOMAIN timers /\ ts[k] = timers[h[k]]
        BY <2>2 DEF From
      <4>2. Runs(ts[k].call, flow[f], m)
        BY <3>2, <4>1 DEF Running
      <4>3. SameRun(flow'[f], flow[f])
        BY <1>9 DEF Halves
      <4> QED
        BY <1>0, <3>2, <4>2, <4>3, SameRuns
    <3> QED
      BY <3>1, <3>2
  <2>4. timers' = ts
    BY <1>9 DEF Halves, ts
  <2> QED
    BY <2>1, <2>3, <2>4 DEF RunsAll
<1> QED
  BY <1>1, <1>5, <1>6, <1>7, <1>8, <1>9 DEF Shape

-------------------------------------------------------------------------------
(* The mock's database.                                                    *)

LEMMA SignedInUser ==
    ASSUME DatabaseTyped, session # 0
    PROVE  /\ session \in DOMAIN users /\ users[session] \in Accounts
           /\ users[session].phone \in Phones /\ users[session].balance \in Nat
           /\ users[session].history \in Movements
<1>1. session \in DOMAIN users /\ users[session] \in Accounts
  BY DEF DatabaseTyped
<1> QED
  BY <1>1 DEF Accounts

LEMMA CreditIs ==
    ASSUME NEW account \in Accounts, NEW category \in {"transfer", "topup"}, NEW n \in Int,
           account.balance + n >= 0
    PROVE  LET new == Credit(account, category, n) IN
           /\ new \in Accounts /\ new.phone = account.phone
           /\ new.balance = account.balance + n
           /\ new.history = Append(account.history, [category |-> category, amount |-> n])
<1> DEFINE e == [category |-> category, amount |-> n]
           row == [phone |-> account.phone, balance |-> account.balance + n,
                   history |-> Append(account.history, e)]
<1>1. account.phone \in Phones /\ account.balance \in Nat /\ account.history \in Movements
  BY DEF Accounts
<1>2. e \in [category : {"transfer", "topup"}, amount : Int]
  OBVIOUS
<1>3. Append(account.history, e) \in Movements
  BY <1>1, <1>2 DEF Movements
<1> HIDE DEF e
<1>4. row \in Accounts
  BY <1>1, <1>3 DEF Accounts
<1>5. Credit(account, category, n) = row
  BY DEF Credit, e
<1> QED
  BY <1>4, <1>5 DEF e

(* A call that pays is of flow with a recipient the mock knows, if any.    *)
LEMMA RecipientIs ==
    ASSUME Typing, Running, NEW f \in Flows, PayDue(f)
    PROVE  Recipient(f) \in 0 .. Len(users) /\ flow[f].amount \in Nat
<1>1. flow[f].amount \in Nat /\ flow[f].to \in Nat
  BY FlowRecord DEF Typing
<1>2. CASE Due(f, "transfer")
  <2>1. flow[f].op = "send" /\ flow[f].to \in Phones
    BY <1>2, DueRuns DEF Runs
  <2>2. byPhone[flow[f].to] \in 0 .. Len(users)
    BY <2>1 DEF Typing, DatabaseTyped
  <2>3. Recipient(f) = byPhone[flow[f].to]
    BY <2>1 DEF Recipient
  <2> QED
    BY <1>1, <2>2, <2>3
<1>3. CASE Due(f, "payRequest")
  <2>1. flow[f].op = "pay"
    BY <1>3, DueRuns DEF Runs
  <2>2. DOMAIN users = 1 .. Len(users) /\ Len(users) \in Nat
    BY DEF Typing, DatabaseTyped
  <2>3. Recipient(f) \in DOMAIN users \cup {0}
    BY <2>1 DEF Recipient
  <2> QED
    BY <1>1, <2>2, <2>3
<1> QED
  BY <1>2, <1>3 DEF PayDue

(* What a transfer does to the wallets. *)
LEMMA TransferMoves ==
    ASSUME Typing, Running, NEW f \in Flows, Transferred(f)
    PROVE  LET r == Recipient(f)
               n == flow[f].amount
               debited == [category |-> "transfer", amount |-> -n]
               credited == [category |-> "transfer", amount |-> n]
           IN
           /\ session \in 1 .. Len(users) /\ r \in 1 .. Len(users) /\ r # session /\ n \in Nat
           /\ users' \in Seq(Accounts) /\ Len(users') = Len(users)
           /\ \A u \in 1 .. Len(users) : users'[u].phone = users[u].phone
           /\ \A u \in 1 .. Len(users) : u \notin {session, r} => users'[u] = users[u]
           /\ users'[session].balance = users[session].balance - n
           /\ users'[r].balance = users[r].balance + n
           /\ users'[session].history = Append(users[session].history, debited)
           /\ users'[r].history = Append(users[r].history, credited)
<1> DEFINE r == Recipient(f)
           n == flow[f].amount
           a == Credit(users[session], "transfer", -n)
           b == Credit(users[r], "transfer", n)
<1>1. r \in 0 .. Len(users) /\ n \in Nat
  BY RecipientIs DEF Transferred
<1>2. session # 0 /\ r \notin {0, session} /\ users[session].balance >= n
  BY DEF Transferred, MayMove
<1>3. users \in Seq(Accounts) /\ Len(users) \in Nat /\ session \in 0 .. Len(users)
  BY DEF Typing, DatabaseTyped
<1>4. users' = [users EXCEPT ![session] = a, ![r] = Credit(@, "transfer", n)]
  BY DEF Transferred
<1> HIDE DEF r, n
<1>5. session \in 1 .. Len(users) /\ r \in 1 .. Len(users)
  BY <1>1, <1>2, <1>3
<1>6. users[session] \in Accounts /\ users[r] \in Accounts
  BY <1>3, <1>5
<1>7. users[session].balance \in Nat /\ users[r].balance \in Nat
  BY <1>6 DEF Accounts
<1>8. /\ a \in Accounts /\ a.phone = users[session].phone
      /\ a.balance = users[session].balance + (-n)
      /\ a.history = Append(users[session].history, [category |-> "transfer", amount |-> -n])
  <2>1. -n \in Int /\ users[session].balance + (-n) >= 0
    BY <1>1, <1>2, <1>7
  <2>2. "transfer" \in {"transfer", "topup"}
    OBVIOUS
  <2> QED
    BY <1>6, <2>1, <2>2, CreditIs
<1>9. /\ b \in Accounts /\ b.phone = users[r].phone
      /\ b.balance = users[r].balance + n
      /\ b.history = Append(users[r].history, [category |-> "transfer", amount |-> n])
  <2>1. n \in Int /\ users[r].balance + n >= 0
    BY <1>1, <1>7
  <2>2. "transfer" \in {"transfer", "topup"}
    OBVIOUS
  <2> QED
    BY <1>6, <2>1, <2>2, CreditIs
<1>10. users' = [users EXCEPT ![session] = a, ![r] = b]
  BY <1>2, <1>3, <1>4, <1>5
<1> HIDE DEF a, b
<1>11. /\ users' \in Seq(Accounts) /\ Len(users') = Len(users)
       /\ users'[session] = a /\ users'[r] = b
       /\ \A u \in 1 .. Len(users) : u \notin {session, r} => users'[u] = users[u]
  BY <1>2, <1>3, <1>5, <1>8, <1>9, <1>10
<1>12. \A u \in 1 .. Len(users) : users'[u].phone = users[u].phone
  BY <1>8, <1>9, <1>11
<1>13. a.balance = users[session].balance - n
  BY <1>1, <1>7, <1>8
<1> QED
  BY <1>1, <1>2, <1>5, <1>8, <1>9, <1>11, <1>12, <1>13 DEF r, n

LEMMA TopUpMoves ==
    ASSUME Typing, NEW f \in Flows, ToppedUp(f)
    PROVE  LET n == flow[f].amount
               credited == [category |-> "topup", amount |-> n]
           IN
           /\ session \in 1 .. Len(users) /\ n \in Nat
           /\ users' \in Seq(Accounts) /\ Len(users') = Len(users)
           /\ \A u \in 1 .. Len(users) : users'[u].phone = users[u].phone
           /\ \A u \in 1 .. Len(users) : u # session => users'[u] = users[u]
           /\ users'[session].balance = users[session].balance + n
           /\ users'[session].history = Append(users[session].history, credited)
<1> DEFINE n == flow[f].amount
           a == Credit(users[session], "topup", n)
<1>1. n \in Nat
  BY FlowRecord DEF Typing
<1>2. session # 0 /\ users' = [users EXCEPT ![session] = a]
  BY DEF ToppedUp
<1>3. users \in Seq(Accounts) /\ Len(users) \in Nat /\ session \in 0 .. Len(users)
  BY DEF Typing, DatabaseTyped
<1> HIDE DEF n
<1>4. session \in 1 .. Len(users) /\ users[session] \in Accounts
  BY <1>2, <1>3
<1>5. users[session].balance \in Nat
  BY <1>4 DEF Accounts
<1>6. /\ a \in Accounts /\ a.phone = users[session].phone
      /\ a.balance = users[session].balance + n
      /\ a.history = Append(users[session].history, [category |-> "topup", amount |-> n])
  BY <1>1, <1>4, <1>5, CreditIs
<1> HIDE DEF a
<1>7. /\ users' \in Seq(Accounts) /\ Len(users') = Len(users) /\ users'[session] = a
      /\ \A u \in 1 .. Len(users) : u # session => users'[u] = users[u]
  BY <1>2, <1>3, <1>4, <1>6
<1>8. \A u \in 1 .. Len(users) : users'[u].phone = users[u].phone
  BY <1>6, <1>7
<1> QED
  BY <1>1, <1>4, <1>6, <1>7, <1>8 DEF n

(* Who verifies gets the next account; the registration is used up. *)
LEMMA VerifyAdds ==
    ASSUME Typing, Running, NEW f \in Flows, Verified(f)
    PROVE  LET k == flow[f].to
               phone == pendings[k].phone
               n == Len(users) + 1
           IN
           /\ k \in 1 .. Len(pendings) /\ phone \in Phones
           /\ Account(phone, 0) \in Accounts
           /\ users' = Append(users, Account(phone, 0))
           /\ users' \in Seq(Accounts) /\ Len(users') = n
           /\ \A u \in 1 .. Len(users) : users'[u] = users[u]
           /\ users'[n] = Account(phone, 0)
           /\ byPhone' = [byPhone EXCEPT ![phone] = n]
           /\ pendings' \in Seq(Registrations) /\ Len(pendings') = Len(pendings)
           /\ \A i \in 1 .. Len(pendings) : pendings'[i].phone = pendings[i].phone
           /\ pending' = 0
<1> DEFINE k == flow[f].to
           phone == pendings[k].phone
<1>1. k \in 1 .. Len(pendings)
  BY DueRuns DEF Verified, Runs
<1>2. pendings \in Seq(Registrations) /\ users \in Seq(Accounts)
  BY DEF Typing, DatabaseTyped
<1>3. pendings[k] \in Registrations
  BY <1>1, <1>2
<1>4. phone \in Phones
  BY <1>3 DEF Registrations
<1>5. Account(phone, 0) \in Accounts
  BY <1>4 DEF Account, Accounts, Movements
<1>6. /\ users' = Append(users, Account(phone, 0))
      /\ byPhone' = [byPhone EXCEPT ![phone] = Len(users) + 1]
      /\ pendings' = [pendings EXCEPT ![k] = [pendings[k] EXCEPT !.live = FALSE]]
      /\ pending' = 0
  BY <1>1, <1>2 DEF Verified
<1> DEFINE spent == [pendings[k] EXCEPT !.live = FALSE]
<1>7. spent \in Registrations /\ spent.phone = phone
  BY <1>3 DEF Registrations
<1>71. pendings' = [pendings EXCEPT ![k] = spent]
  BY <1>6
<1> HIDE DEF k, phone, spent
<1>8. /\ users' \in Seq(Accounts) /\ Len(users') = Len(users) + 1
      /\ \A u \in 1 .. Len(users) : users'[u] = users[u]
      /\ users'[Len(users) + 1] = Account(phone, 0)
  BY <1>2, <1>5, <1>6
<1>9. /\ pendings' \in Seq(Registrations) /\ Len(pendings') = Len(pendings)
      /\ \A i \in 1 .. Len(pendings) : i # k => pendings'[i] = pendings[i]
      /\ pendings'[k] = spent
  BY <1>1, <1>2, <1>7, <1>71
<1>10. \A i \in 1 .. Len(pendings) : pendings'[i].phone = pendings[i].phone
  BY <1>7, <1>9 DEF phone
<1> QED
  BY <1>1, <1>4, <1>5, <1>6, <1>8, <1>9, <1>10 DEF k, phone

LEMMA RegisterAdds ==
    ASSUME Typing, Running, NEW f \in Flows, Registered(f)
    PROVE  LET phone == flow[f].to
               n == Len(pendings) + 1
           IN
           /\ phone \in Phones /\ byPhone[phone] = 0
           /\ pendings' \in Seq(Registrations) /\ Len(pendings') = n
           /\ \A i \in 1 .. Len(pendings) : pendings'[i].phone = pendings[i].phone
           /\ pendings'[n].phone = phone
           /\ pending' = n
<1> DEFINE phone == flow[f].to
           row == [phone |-> phone, live |-> TRUE]
<1>1. phone \in Phones
  BY DueRuns DEF Registered, Runs
<1>2. row \in Registrations
  BY <1>1 DEF Registrations
<1>3. /\ pendings' = Append(pendings, row) /\ byPhone[phone] = 0
      /\ pending' = Len(pendings) + 1
  BY DEF Registered
<1>4. pendings \in Seq(Registrations)
  BY DEF Typing, DatabaseTyped
<1>5. row.phone = phone
  OBVIOUS
<1> HIDE DEF row, phone
<1>6. /\ pendings' \in Seq(Registrations) /\ Len(pendings') = Len(pendings) + 1
      /\ \A i \in 1 .. Len(pendings) : pendings'[i] = pendings[i]
      /\ pendings'[Len(pendings) + 1] = row
  BY <1>2, <1>3, <1>4
<1> QED
  BY <1>1, <1>3, <1>5, <1>6 DEF phone

(* Everything else leaves the database alone.                              *)
LEMMA Quiet ==
    ASSUME [Next]_vars
    PROVE  \/ UNCHANGED mock
           \/ \E f \in Flows : \/ LoginAnswered(f) \/ LoggedOut(f)
                               \/ Registered(f) \/ Verified(f)
                               \/ Transferred(f) \/ ToppedUp(f)
<1>1. CASE ChangePhone \/ UNCHANGED vars
  BY <1>1 DEF ChangePhone, mock, vars
<1>2. ASSUME NEW f \in Flows, Use(f) PROVE UNCHANGED mock
  <2>1. CASE \E p \in Phones : SubmitLogin(f, p) \/ SubmitPhone(f, p)
    BY <2>1 DEF SubmitLogin, SubmitPhone
  <2>2. CASE SubmitCode(f) \/ LogOut(f) \/ SwitchMode(f) \/ Dismiss(f)
    BY <2>2 DEF SubmitCode, LogOut, SwitchMode, Dismiss
  <2>3. CASE \E n \in Amounts : \/ \E p \in Phones : Send(f, p, n)
                                \/ \E to \in 1 .. Cardinality(Phones) : Pay(f, to, n)
                                \/ TopUp(f, n)
    BY <2>3 DEF Send, Pay, TopUp
  <2>4. CASE \E p \in {"welcome", "login", "register", "home", "qr", "activity", "profile"} :
               Visit(f, p)
    BY <2>4 DEF Visit
  <2> QED
    BY <1>2, <2>1, <2>2, <2>3, <2>4 DEF Use
<1>3. ASSUME NEW f \in Flows, LoginRefused(f) \/ RegisterRefused(f) \/ VerifyRefused(f)
      PROVE  UNCHANGED mock
  BY <1>3 DEF LoginRefused, RegisterRefused, VerifyRefused, Rejected
<1>4. ASSUME NEW f \in Flows, TransferRefused(f) \/ TopUpRefused(f) PROVE UNCHANGED mock
  BY <1>4 DEF TransferRefused, TopUpRefused, Told
<1>5. ASSUME NEW f \in Flows, NEW what, FetchEnds(f, what) PROVE UNCHANGED mock
  BY <1>5 DEF FetchEnds, Told
<1>6. ASSUME NEW f \in Flows, NEW call, ListAnswered(f, call) PROVE UNCHANGED mock
  BY <1>5, <1>6 DEF ListAnswered
<1>7. ASSUME NEW f \in Flows, ListsRefused(f) PROVE UNCHANGED mock
  BY <1>5, <1>7 DEF ListsRefused, FetchFailed
<1> QED
  BY <1>1, <1>2, <1>3, <1>4, <1>6, <1>7 DEF Next, Fire

(* Accounts and registrations are only added, and keep their numbers. *)
LEMMA Grows ==
    ASSUME Typing, Running, [Next]_vars
    PROVE  /\ DatabaseTyped'
           /\ Len(users) \in Nat /\ Len(users') \in Nat /\ Len(users) <= Len(users')
           /\ Len(pendings) \in Nat /\ Len(pendings') \in Nat /\ Len(pendings) <= Len(pendings')
           /\ \A u \in 1 .. Len(users) : users'[u].phone = users[u].phone
           /\ \A k \in 1 .. Len(pendings) : pendings'[k].phone = pendings[k].phone
<1>0. DatabaseTyped /\ Len(users) \in Nat /\ Len(pendings) \in Nat
      /\ byPhone \in [Phones -> 0 .. Len(users)] /\ session \in 0 .. Len(users)
      /\ users \in Seq(Accounts) /\ pendings \in Seq(Registrations)
  BY DEF Typing, DatabaseTyped
<1>1. CASE UNCHANGED mock
  BY <1>0, <1>1 DEF mock, DatabaseTyped
<1>2. ASSUME NEW f \in Flows, LoginAnswered(f)
      PROVE  UNCHANGED <<users, byPhone, pendings>> /\ session' \in 0 .. Len(users)
  <2>1. flow[f].to \in Phones
    BY <1>2, DueRuns DEF LoginAnswered, Runs
  <2> QED
    BY <1>0, <1>2, <2>1 DEF LoginAnswered, Enter
<1>3. ASSUME NEW f \in Flows, LoggedOut(f)
      PROVE  UNCHANGED <<users, byPhone, pendings>> /\ session' \in 0 .. Len(users)
  BY <1>0, <1>3 DEF LoggedOut
<1>4. ASSUME UNCHANGED <<users, byPhone, pendings>>, session' \in 0 .. Len(users)
      PROVE  DatabaseTyped' /\ Len(users') = Len(users) /\ Len(pendings') = Len(pendings)
  BY <1>0, <1>4 DEF DatabaseTyped
<1>5. ASSUME NEW f \in Flows, Registered(f)
      PROVE  /\ DatabaseTyped' /\ users' = users /\ Len(pendings') = Len(pendings) + 1
             /\ \A k \in 1 .. Len(pendings) : pendings'[k].phone = pendings[k].phone
  <2>1. UNCHANGED <<users, byPhone, session>>
    BY <1>5 DEF Registered
  <2>2. pendings' \in Seq(Registrations) /\ Len(pendings') = Len(pendings) + 1
        /\ \A k \in 1 .. Len(pendings) : pendings'[k].phone = pendings[k].phone
    BY <1>5, RegisterAdds
  <2> QED
    BY <1>0, <2>1, <2>2 DEF DatabaseTyped
<1>6. ASSUME NEW f \in Flows, Verified(f)
      PROVE  /\ DatabaseTyped' /\ Len(users') = Len(users) + 1 /\ Len(pendings') = Len(pendings)
             /\ \A u \in 1 .. Len(users) : users'[u].phone = users[u].phone
             /\ \A k \in 1 .. Len(pendings) : pendings'[k].phone = pendings[k].phone
  <2> DEFINE phone == pendings[flow[f].to].phone
             n == Len(users) + 1
  <2>1. /\ phone \in Phones
        /\ users' \in Seq(Accounts) /\ Len(users') = n
        /\ \A u \in 1 .. Len(users) : users'[u] = users[u]
        /\ byPhone' = [byPhone EXCEPT ![phone] = n]
        /\ pendings' \in Seq(Registrations) /\ Len(pendings') = Len(pendings)
        /\ \A k \in 1 .. Len(pendings) : pendings'[k].phone = pendings[k].phone
    BY <1>6, VerifyAdds
  <2>2. session' = n
    BY <1>6 DEF Verified, Enter
  <2> HIDE DEF phone
  <2>3. byPhone' \in [Phones -> 0 .. n]
    <3>1. \A p \in Phones : byPhone[p] \in 0 .. n
      BY <1>0
    <3> QED
      BY <1>0, <2>1, <3>1
  <2> QED
    BY <1>0, <2>1, <2>2, <2>3 DEF DatabaseTyped
<1>7. ASSUME NEW f \in Flows, Transferred(f) \/ ToppedUp(f)
      PROVE  /\ DatabaseTyped' /\ Len(users') = Len(users) /\ pendings' = pendings
             /\ \A u \in 1 .. Len(users) : users'[u].phone = users[u].phone
  <2>1. UNCHANGED <<byPhone, pendings, session>>
    BY <1>7 DEF Transferred, ToppedUp, Moved
  <2>2. users' \in Seq(Accounts) /\ Len(users') = Len(users)
        /\ \A u \in 1 .. Len(users) : users'[u].phone = users[u].phone
    BY <1>7, TransferMoves, TopUpMoves
  <2> QED
    BY <1>0, <2>1, <2>2 DEF DatabaseTyped
<1> QED
  <2>1. CASE UNCHANGED mock
    BY <1>0, <1>1, <2>1 DEF mock
  <2>2. ASSUME NEW f \in Flows, LoginAnswered(f) \/ LoggedOut(f)
        PROVE  /\ DatabaseTyped' /\ Len(users') = Len(users) /\ Len(pendings') = Len(pendings)
               /\ users' = users /\ pendings' = pendings
    BY <1>2, <1>3, <1>4, <2>2
  <2> QED
    BY <1>0, <1>5, <1>6, <1>7, <2>1, <2>2, Quiet


-------------------------------------------------------------------------------
(* The flows.                                                              *)

Changes(g) ==
    \/ flow'[g] = flow[g] \/ flow'[g] = Nothing
    \/ flow'[g] = [flow[g] EXCEPT !.here = FALSE]
    \/ \E op \in Ops, to \in Nat, n \in Nat, here \in BOOLEAN :
          flow'[g] = Begun(op, to, n, here)
    \/ /\ flow[g].moved = 0 /\ flow[g].told = "none"
       /\ flow'[g] = [flow[g] EXCEPT !.moved = 1]
    \/ flow[g].moved = 0 /\ flow'[g] = [flow[g] EXCEPT !.told = "failed"]
    \/ flow[g].moved = 1 /\ flow'[g] = [flow[g] EXCEPT !.told = "done"]
    \/ session # 0 /\ flow'[g] = [flow[g] EXCEPT !.got = Read(g, "listWallets")]

FlowsChange == DOMAIN flow' = Flows /\ flow' = [g \in Flows |-> flow'[g]] /\ \A g \in Flows : Changes(g)

LEMMA OneChanges ==
    ASSUME FlowsTyped, NEW f \in Flows, NEW r, flow' = [flow EXCEPT ![f] = r],
           flow'[f] = r => Changes(f)
    PROVE  FlowsChange
<1>1. DOMAIN flow = Flows
  BY FlowRecord
<1>2. flow' = [g \in Flows |-> IF g = f THEN r ELSE flow[g]]
  BY <1>1
<1>3. Changes(f)
  BY <1>2
<1>4. ASSUME NEW g \in Flows \ {f} PROVE Changes(g)
  <2>1. flow'[g] = flow[g]
    BY <1>2
  <2> QED
    BY <2>1 DEF Changes
<1>5. \A g \in Flows : Changes(g)
  BY <1>3, <1>4
<1>6. DOMAIN flow' = Flows /\ flow' = [g \in Flows |-> flow'[g]]
  BY <1>2
<1> QED
  BY <1>5, <1>6 DEF FlowsChange

LEMMA StartChanges ==
    ASSUME FlowsTyped, NEW f \in Flows, NEW op \in Ops, NEW to \in Nat, NEW n \in Nat, NEW call,
           Start(f, op, to, n, call)
    PROVE  FlowsChange
<1>1. flow' = [flow EXCEPT ![f] = Begun(op, to, n, TRUE)]
  BY DEF Start
<1>2. flow'[f] = Begun(op, to, n, TRUE) => Changes(f)
  BY DEF Changes
<1> QED
  BY <1>1, <1>2, OneChanges

LEMMA GoToChanges ==
    ASSUME FlowsTyped, NEW f \in Flows, NEW p, GoTo(f, p)
    PROVE  FlowsChange
<1>1. Away(flow) = [g \in Flows |-> [flow[g] EXCEPT !.here = FALSE]]
  BY DEF Away
<1>2. \E r : /\ flow' = [Away(flow) EXCEPT ![f] = r]
             /\ r = Nothing \/ r = Begun("fetch", 0, 0, FALSE)
  BY DEF GoTo
<1>3. PICK r : /\ flow' = [g \in Flows |-> IF g = f THEN r ELSE [flow[g] EXCEPT !.here = FALSE]]
               /\ r = Nothing \/ r = Begun("fetch", 0, 0, FALSE)
  BY <1>1, <1>2
<1>4. \E op \in Ops, to \in Nat, n \in Nat, here \in BOOLEAN :
         Begun("fetch", 0, 0, FALSE) = Begun(op, to, n, here)
  <2>1. "fetch" \in Ops
    BY DEF Ops
  <2> QED
    BY <2>1
<1>5. ASSUME NEW g \in Flows PROVE Changes(g)
  BY <1>3, <1>4 DEF Changes
<1>6. DOMAIN flow' = Flows /\ flow' = [g \in Flows |-> flow'[g]]
  BY <1>3
<1> QED
  BY <1>5, <1>6 DEF FlowsChange

LEMMA EnterChanges ==
    ASSUME FlowsTyped, NEW f \in Flows, NEW u, Enter(f, u)
    PROVE  FlowsChange
<1>1. CASE page = "home"
  BY <1>1, OneChanges DEF Enter, Changes
<1>2. CASE page # "home"
  BY <1>2, GoToChanges DEF Enter
<1> QED
  BY <1>1, <1>2

LEMMA FetchEndsChanges ==
    ASSUME FlowsTyped, Running, NEW f \in Flows, NEW call \in ListCalls, Due(f, call),
           FetchEnds(f, "done")
    PROVE  FlowsChange
<1>1. CASE flow[f].op = "fetch"
  BY <1>1, OneChanges DEF FetchEnds, Changes
<1>2. CASE flow[f].op # "fetch"
  <2>1. flow[f].moved = 1
    BY <1>2, DueRuns DEF Runs
  <2>2. flow' = [flow EXCEPT ![f] = [flow[f] EXCEPT !.told = "done"]]
    BY <1>2 DEF FetchEnds, Told
  <2>3. flow'[f] = [flow[f] EXCEPT !.told = "done"] => Changes(f)
    BY <2>1 DEF Changes
  <2> QED
    BY <2>2, <2>3, OneChanges
<1> QED
  BY <1>1, <1>2

LEMMA UseChanges ==
    ASSUME Typing, NEW f \in Flows, Use(f) PROVE FlowsChange
<1>0. FlowsTyped /\ pending \in Nat
  BY DEF Typing, StoresTyped
<1>1. Phones \subseteq Nat /\ Amounts \subseteq Nat /\ 0 \in Nat
  BY PhonesAssumption, AmountsAssumption
<1>2. Ops = {"none", "login", "register", "verify", "logout", "send", "pay", "topUp", "fetch"}
  BY DEF Ops
<1>3. ASSUME NEW p \in Phones, SubmitLogin(f, p) \/ SubmitPhone(f, p) PROVE FlowsChange
  BY <1>0, <1>1, <1>2, <1>3, StartChanges DEF SubmitLogin, SubmitPhone
<1>4. CASE SubmitCode(f) \/ LogOut(f)
  BY <1>0, <1>1, <1>2, <1>4, StartChanges DEF SubmitCode, LogOut
<1>5. CASE SwitchMode(f)
  <2>1. flow' = [flow EXCEPT ![f] = [flow[f] EXCEPT !.here = FALSE]]
    BY <1>5 DEF SwitchMode
  <2> QED
    BY <1>0, <2>1, OneChanges DEF Changes
<1>6. CASE Dismiss(f)
  BY <1>0, <1>6, OneChanges DEF Dismiss, Changes
<1>7. ASSUME NEW n \in Amounts, NEW p \in Phones, Send(f, p, n) PROVE FlowsChange
  BY <1>0, <1>1, <1>2, <1>7, StartChanges DEF Send
<1>8. ASSUME NEW n \in Amounts, NEW to \in Nat, Pay(f, to, n) PROVE FlowsChange
  BY <1>0, <1>1, <1>2, <1>8, StartChanges DEF Pay
<1>9. ASSUME NEW n \in Amounts, TopUp(f, n) PROVE FlowsChange
  BY <1>0, <1>1, <1>2, <1>9, StartChanges DEF TopUp
<1>10. ASSUME NEW p, Visit(f, p) PROVE FlowsChange
  BY <1>0, <1>10, GoToChanges DEF Visit
<1> QED
  BY <1>3, <1>4, <1>5, <1>6, <1>7, <1>8, <1>9, <1>10 DEF Use

LEMMA FireChanges ==
    ASSUME Typing, Running, Queued(timers), NEW f \in Flows, Fire(f) PROVE FlowsChange
<1>0. FlowsTyped
  BY DEF Typing
<1>1. CASE LoginAnswered(f)
  BY <1>0, <1>1, EnterChanges DEF LoginAnswered
<1>2. CASE LoginRefused(f) \/ RegisterRefused(f) \/ VerifyRefused(f) \/ Registered(f)
  BY <1>0, <1>2, OneChanges
     DEF LoginRefused, RegisterRefused, VerifyRefused, Rejected, Registered, Changes
<1>3. CASE Verified(f)
  BY <1>0, <1>3, EnterChanges DEF Verified
<1>4. CASE LoggedOut(f)
  BY <1>0, <1>4, GoToChanges DEF LoggedOut
<1>5. CASE Transferred(f) \/ ToppedUp(f)
  <2>1. flow[f].moved = 0 /\ flow[f].told = "none"
    BY <1>5, PayRuns DEF Transferred, ToppedUp
  <2>2. flow' = [flow EXCEPT ![f] = [flow[f] EXCEPT !.moved = @ + 1]]
    BY <1>5 DEF Transferred, ToppedUp, Moved
  <2>3. [flow[f] EXCEPT !.moved = @ + 1] = [flow[f] EXCEPT !.moved = 1]
    BY <2>1
  <2>4. flow'[f] = [flow[f] EXCEPT !.moved = 1] => Changes(f)
    BY <2>1 DEF Changes
  <2> QED
    BY <1>0, <2>2, <2>3, <2>4, OneChanges
<1>6. CASE TransferRefused(f) \/ TopUpRefused(f)
  <2>1. flow[f].moved = 0
    BY <1>6, PayRuns DEF TransferRefused, TopUpRefused
  <2>2. flow' = [flow EXCEPT ![f] = [flow[f] EXCEPT !.told = "failed"]]
    BY <1>6 DEF TransferRefused, TopUpRefused, Told
  <2>3. flow'[f] = [flow[f] EXCEPT !.told = "failed"] => Changes(f)
    BY <2>1 DEF Changes
  <2> QED
    BY <1>0, <2>2, <2>3, OneChanges
<1>7. ASSUME NEW call \in ListCalls, ListAnswered(f, call) PROVE FlowsChange
  <2>1. CASE FetchEnds(f, "done")
    BY <1>0, <1>7, <2>1, FetchEndsChanges DEF ListAnswered
  <2>2. CASE call = "listWallets" /\ ~FetchEnds(f, "done")
    <3>1. flow' = [flow EXCEPT ![f] = [flow[f] EXCEPT !.got = Read(f, call)]] /\ session # 0
      BY <1>7, <2>2 DEF ListAnswered
    <3>2. flow'[f] = [flow[f] EXCEPT !.got = Read(f, call)] => Changes(f)
      BY <2>2, <3>1 DEF Changes
    <3> QED
      BY <1>0, <3>1, <3>2, OneChanges
  <2> QED
    BY <1>7, <2>1, <2>2, ListShape DEF ListCalls
<1>8. CASE ListsRefused(f)
  BY <1>0, <1>8, FetchEndsChanges DEF ListsRefused, FetchFailed, ListCalls
<1> QED
  BY <1>1, <1>2, <1>3, <1>4, <1>5, <1>6, <1>7, <1>8 DEF Fire, ListCalls

LEMMA StepChanges ==
    ASSUME Typing, Running, Queued(timers), [Next]_vars PROVE FlowsChange
<1>1. CASE ChangePhone \/ UNCHANGED vars
  <2>1. flow' = flow
    BY <1>1 DEF ChangePhone, vars
  <2> QED
    BY <2>1 DEF FlowsChange, Changes, Typing, FlowsTyped
<1>2. ASSUME NEW f \in Flows, Fire(f) \/ Use(f) PROVE FlowsChange
  BY <1>2, FireChanges, UseChanges
<1> QED
  BY <1>1, <1>2 DEF Next

(* What the two lists of the user signed in add to what has been read. *)
LEMMA ReadIs ==
    ASSUME Typing, session # 0, NEW f \in Flows
    PROVE  /\ LET w == Read(f, "listWallets") IN w \in Readings /\ w.owner = session
           /\ LET t == Read(f, "listTransactions") IN
              /\ t \in Readings /\ t.owner = flow[f].got.owner
              /\ t.history = users[session].history
<1> DEFINE got == flow[f].got
           h == users[session].history
<1>1. h \in Movements /\ session \in Nat /\ got \in Readings
  BY SignedInUser, FlowRecord DEF Typing, DatabaseTyped
<1>2. /\ Read(f, "listWallets") = [got EXCEPT !.owner = session]
      /\ Read(f, "listTransactions") = [got EXCEPT !.history = h]
  BY DEF Read
<1> HIDE DEF got, h
<1> QED
  BY <1>1, <1>2 DEF Readings, got, h

LEMMA FlowsStep ==
    ASSUME Typing, Running, Queued(timers), [Next]_vars PROVE FlowsTyped'
<1>1. FlowsChange /\ Len(users) <= Len(users') /\ Len(users) \in Nat /\ Len(users') \in Nat
  BY StepChanges, Grows
<1>2. ASSUME NEW g \in Flows PROVE flow'[g] \in FlowStates /\ flow'[g].got.owner <= Len(users)
  <2>0. /\ flow[g] \in FlowStates /\ flow[g].got.owner <= Len(users) /\ flow[g].got \in Readings
        /\ Unread \in Readings /\ Unread.owner <= Len(users)
    BY <1>1, FlowRecord DEF Typing, FlowsTyped, Unread, Readings, Movements
  <2>1. CASE flow'[g] = flow[g] \/ flow'[g] = [flow[g] EXCEPT !.here = FALSE]
    BY <2>0, <2>1 DEF FlowStates
  <2>2. ASSUME NEW op \in Ops, NEW to \in Nat, NEW n \in Nat, NEW here \in BOOLEAN,
               flow'[g] = Begun(op, to, n, here)
        PROVE  flow'[g] \in FlowStates /\ flow'[g].got.owner <= Len(users)
    <3>1. flow'[g].got = Unread
      BY <2>2 DEF Begun
    <3>2. flow'[g] \in FlowStates
      BY <2>0, <2>2 DEF Begun, FlowStates
    <3> QED
      BY <2>0, <3>1, <3>2
  <2>3. CASE flow'[g] = Nothing
    <3>1. "none" \in Ops
      BY DEF Ops
    <3> QED
      BY <2>2, <2>3, <3>1 DEF Nothing
  <2>4. CASE \/ flow'[g] = [flow[g] EXCEPT !.moved = 1]
             \/ flow'[g] = [flow[g] EXCEPT !.told = "failed"]
             \/ flow'[g] = [flow[g] EXCEPT !.told = "done"]
    BY <2>0, <2>4 DEF FlowStates
  <2>5. CASE session # 0 /\ flow'[g] = [flow[g] EXCEPT !.got = Read(g, "listWallets")]
    <3> DEFINE w == Read(g, "listWallets")
    <3>1. w \in Readings /\ w.owner = session /\ session <= Len(users)
      BY <2>5, ReadIs DEF Typing, DatabaseTyped
    <3> HIDE DEF w
    <3>2. flow'[g] = [flow[g] EXCEPT !.got = w]
      BY <2>5 DEF w
    <3> QED
      BY <2>0, <3>1, <3>2 DEF FlowStates
  <2> QED
    BY <1>1, <2>1, <2>2, <2>3, <2>4, <2>5 DEF FlowsChange, Changes
<1>3. flow' \in [Flows -> FlowStates]
  BY <1>1, <1>2 DEF FlowsChange
<1>4. ASSUME NEW g \in Flows PROVE flow'[g].got.owner <= Len(users')
  <2>1. flow'[g].got \in Readings /\ flow'[g].got.owner <= Len(users)
    BY <1>2 DEF FlowStates
  <2>2. flow'[g].got.owner \in Nat
    BY <2>1 DEF Readings
  <2> QED
    BY <1>1, <2>1, <2>2
<1> QED
  BY <1>3, <1>4 DEF FlowsTyped

LEMMA ReportStep ==
    ASSUME Typing, Running, Queued(timers), ReportIsTrue, [Next]_vars PROVE ReportIsTrue'
<1>1. ASSUME NEW g \in Flows
      PROVE  /\ flow'[g].told = "done" => flow'[g].moved = 1
             /\ flow'[g].told = "failed" => flow'[g].moved = 0
  <2>1. flow[g] \in FlowStates /\ Changes(g)
    BY StepChanges, FlowRecord DEF Typing, FlowsChange
  <2>2. /\ flow[g].told = "done" => flow[g].moved = 1
        /\ flow[g].told = "failed" => flow[g].moved = 0
    BY DEF ReportIsTrue
  <2>3. CASE flow'[g] = flow[g]
    BY <2>2, <2>3
  <2>4. CASE flow'[g] = [flow[g] EXCEPT !.here = FALSE]
    BY <2>1, <2>2, <2>4 DEF FlowStates
  <2>5. CASE flow'[g] = Nothing
    BY <2>5, NothingIs
  <2>51. CASE \E op \in Ops, to \in Nat, n \in Nat, here \in BOOLEAN :
                 flow'[g] = Begun(op, to, n, here)
    <3>1. flow'[g].told = "none"
      BY <2>51 DEF Begun
    <3> QED
      BY <3>1
  <2>6. CASE flow[g].told = "none" /\ flow'[g] = [flow[g] EXCEPT !.moved = 1]
    BY <2>1, <2>6 DEF FlowStates
  <2>7. CASE flow[g].moved = 0 /\ flow'[g] = [flow[g] EXCEPT !.told = "failed"]
    BY <2>1, <2>7 DEF FlowStates
  <2>8. CASE flow[g].moved = 1 /\ flow'[g] = [flow[g] EXCEPT !.told = "done"]
    BY <2>1, <2>8 DEF FlowStates
  <2>9. CASE flow'[g] = [flow[g] EXCEPT !.got = Read(g, "listWallets")]
    BY <2>1, <2>2, <2>9 DEF FlowStates
  <2> QED
    BY <2>1, <2>3, <2>4, <2>5, <2>51, <2>6, <2>7, <2>8, <2>9 DEF Changes
<1> QED
  BY <1>1 DEF ReportIsTrue

-------------------------------------------------------------------------------
(* The calls that wait after a step. *)

LEMMA WaitingTyped ==
    ASSUME Typing, NEW t \in Waiting
    PROVE  t.flow \in Flows /\ t.call \in CallNames /\ \E i \in DOMAIN timers : timers[i] = t
<1>1. PICK i \in DOMAIN timers : timers[i] = t
  BY DEF Waiting, ToSet
<1>2. timers[i] \in TimerRecords
  BY DEF Typing
<1> QED
  BY <1>1, <1>2 DEF TimerRecords

LEMMA OthersWait ==
    ASSUME Typing, NEW f
    PROVE  ToSet(Others(f)) = {t \in Waiting : t.flow # f}
<1> DEFINE R == Others(f)
<1>1. PICK h : /\ From(h, R)
               /\ \A k \in DOMAIN R : R[k].flow # f
               /\ \A i \in DOMAIN timers : timers[i].flow # f => \E k \in DOMAIN R : h[k] = i
  BY OthersFrom
<1> HIDE DEF R
<1>2. \A k \in DOMAIN R : h[k] \in DOMAIN timers /\ R[k] = timers[h[k]]
  BY <1>1 DEF From
<1>3. \A t \in ToSet(R) : t \in Waiting /\ t.flow # f
  BY <1>1, <1>2 DEF ToSet, Waiting
<1>4. \A t \in Waiting : t.flow # f => t \in ToSet(R)
  BY <1>1, <1>2 DEF ToSet, Waiting
<1> QED
  BY <1>3, <1>4 DEF R

LEMMA StartsWait ==
    ASSUME Typing, NEW f \in Flows, NEW call \in CallNames, Starts(f, call)
    PROVE  Waiting' = Waiting \cup {Timer(f, call)}
<1> DEFINE a == Timer(f, call)
<1>1. timers' = Append(timers, a) /\ timers \in Seq(TimerRecords)
  BY DEF Starts, Typing
<1>2. a \in TimerRecords
  BY DEF Timer, TimerRecords
<1> HIDE DEF a
<1>3. /\ DOMAIN timers' = DOMAIN timers \cup {Len(timers) + 1}
      /\ \A i \in DOMAIN timers : timers'[i] = timers[i]
      /\ timers'[Len(timers) + 1] = a
  BY <1>1, <1>2
<1> QED
  BY <1>3 DEF Waiting, ToSet, a

LEMMA ListsWait ==
    ASSUME Typing, NEW f \in Flows, Lists2(f)
    PROVE  Waiting' = {t \in Waiting : t.flow # f}
                         \cup {Timer(f, "listWallets"), Timer(f, "listTransactions")}
<1> DEFINE a == Timer(f, "listWallets")
           b == Timer(f, "listTransactions")
           R == Others(f)
<1>1. R \in Seq(TimerRecords) /\ ToSet(R) = {t \in Waiting : t.flow # f}
  BY OthersFrom, OthersWait
<1>2. a \in TimerRecords /\ b \in TimerRecords /\ timers' = R \o <<a, b>>
  BY DEF Timer, TimerRecords, CallNames, ListCalls, Lists2, Lists
<1> HIDE DEF a, b, R
<1>3. /\ DOMAIN timers' = DOMAIN R \cup {Len(R) + 1, Len(R) + 2}
      /\ \A i \in DOMAIN R : timers'[i] = R[i]
      /\ timers'[Len(R) + 1] = a /\ timers'[Len(R) + 2] = b
  BY <1>1, <1>2
<1>4. ToSet(timers') = ToSet(R) \cup {a, b}
  BY <1>3 DEF ToSet
<1> QED
  BY <1>1, <1>4 DEF Waiting, a, b

LEMMA ListsWaiting ==
    ASSUME Typing, NEW f \in Flows, Lists2(f)
    PROVE  \E t \in Waiting' : t.call = "listTransactions"
<1>1. Timer(f, "listTransactions") \in Waiting'
  BY ListsWait
<1>2. Timer(f, "listTransactions").call = "listTransactions"
  BY DEF Timer
<1> QED
  BY <1>1, <1>2

LEMMA HalvesWait ==
    ASSUME Typing, Queued(timers), NEW f \in Flows, Halves(f)
    PROVE  Waiting' = Waiting \ {Timer(f, "listWallets")}
<1> DEFINE R == HalfDone(f)
           a == Timer(f, "listWallets")
<1>1. timers \in Seq(TimerRecords) /\ timers' = R
  BY DEF Typing, Halves
<1>2. R \in Seq(TimerRecords) /\ \E h : Embeds(h, R, timers, Len(timers), {a})
  BY <1>1, WithoutTimers DEF HalfDone
<1> HIDE DEF R
<1>3. PICK h : Embeds(h, R, timers, Len(timers), {a})
  BY <1>2
<1>4. DOMAIN R = 1 .. Len(R) /\ DOMAIN timers = 1 .. Len(timers)
  BY <1>1, <1>2
<1> HIDE DEF a
<1>5. \A t \in ToSet(R) : t \in Waiting /\ t # a
  BY <1>3, <1>4 DEF Embeds, ToSet, Waiting
<1>6. \A t \in Waiting : t # a => t \in ToSet(R)
  BY <1>3, <1>4 DEF Embeds, ToSet, Waiting
<1> QED
  BY <1>1, <1>5, <1>6 DEF Waiting, a

(* A call is waited for no longer when it was due; of the same flow, only  *)
(* the two lists wait together.                                            *)
LEMMA DueWaits ==
    ASSUME NEW f, NEW call, Due(f, call)
    PROVE  Timer(f, call) \in Waiting
BY DueIsQueued DEF Waiting, ToSet

LEMMA AloneOfItsFlow ==
    ASSUME Typing, Queued(timers), NEW s \in Waiting, NEW t \in Waiting, s.flow = t.flow, s # t
    PROVE  s.call \in ListCalls /\ t.call \in ListCalls
<1>1. PICK i \in DOMAIN timers : timers[i] = s
  BY DEF Waiting, ToSet
<1>2. PICK j \in DOMAIN timers : timers[j] = t
  BY DEF Waiting, ToSet
<1>3. i \in Nat /\ j \in Nat /\ i # j
  BY <1>1, <1>2 DEF Typing
<1>4. CASE i < j
  BY <1>1, <1>2, <1>4 DEF Queued, ListCalls
<1>5. CASE j < i
  BY <1>1, <1>2, <1>5 DEF Queued, ListCalls
<1> QED
  BY <1>3, <1>4, <1>5

(* What is left waiting has its flow as it was. *)
LEMMA StillWaits ==
    ASSUME Typing, Running, Queued(timers), Shape, NEW t \in Waiting',
           t.call \notin ListCalls
    PROVE  \/ /\ t \in Waiting /\ flow[t.flow].told = "none"
              /\ SameRun(flow'[t.flow], flow[t.flow])
              /\ \/ loading' = loading
                 \/ \E s \in Waiting : s.call \in AuthCalls /\ s.flow # t.flow
                 \/ \E f \in Flows, call \in AuthCalls : Starts(f, call)
           \/ \E f \in Flows, call \in CallNames \ ListCalls : Starts(f, call) /\ t = Timer(f, call)
<1>0. \A s \in Waiting : s.flow \in Flows /\ s.call \in CallNames /\ flow[s.flow].told = "none"
  BY WaitingTyped DEF Running, Runs
<1>1. CASE Stays
  <2>1. t \in Waiting /\ loading' = loading
    BY <1>1 DEF Stays, Waiting
  <2> QED
    BY <1>0, <1>1, <2>1 DEF Stays
<1>2. ASSUME NEW f \in Flows, NEW call \in CallNames \ ListCalls, Starts(f, call), t # Timer(f, call)
      PROVE  /\ t \in Waiting /\ SameRun(flow'[t.flow], flow[t.flow])
             /\ loading' = loading \/ call \in AuthCalls
  <2>1. t \in Waiting
    BY <1>2, StartsWait
  <2>2. t.flow # f
    BY <1>0, <1>2, <2>1, NothingIs, NoTimers, WaitingTyped DEF Starts
  <2>3. loading' = loading \/ call \in AuthCalls
    BY <1>2 DEF Starts
  <2> QED
    BY <1>0, <1>2, <2>1, <2>2, <2>3 DEF Starts, OthersRun
<1>3. ASSUME NEW f \in Flows, Ends(f) \/ Lists2(f)
      PROVE  /\ t \in Waiting /\ SameRun(flow'[t.flow], flow[t.flow])
             /\ loading' = loading \/ \E s \in Waiting : s.call \in AuthCalls /\ s.flow # t.flow
  <2>1. t \in Waiting /\ t.flow # f
    <3>1. CASE Ends(f)
      BY <3>1, OthersWait DEF Ends, Waiting
    <3>2. CASE Lists2(f)
      BY <3>2, ListsWait DEF Timer, ListCalls
    <3> QED
      BY <1>3, <3>1, <3>2
  <2>2. OthersRun(f) /\ Freed(f)
    BY <1>3 DEF Ends, Lists2
  <2>3. loading' = loading \/ \E s \in Waiting : s.call \in AuthCalls /\ s.flow # t.flow
    <3> SUFFICES ASSUME NEW call \in AuthCalls, Due(f, call)
                 PROVE  \E s \in Waiting : s.call \in AuthCalls /\ s.flow # t.flow
      BY <2>2 DEF Freed
    <3>1. Timer(f, call) \in Waiting
      BY DueWaits
    <3> QED
      BY <2>1, <3>1 DEF Timer
  <2> QED
    BY <1>0, <2>1, <2>2, <2>3 DEF OthersRun
<1>4. ASSUME NEW f \in Flows, Halves(f)
      PROVE  t \in Waiting /\ SameRun(flow'[t.flow], flow[t.flow]) /\ loading' = loading
  BY <1>0, <1>4, HalvesWait DEF Halves, OthersRun
<1> QED
  BY <1>0, <1>1, <1>2, <1>3, <1>4 DEF Shape

LEMMA OneFormStep ==
    ASSUME Typing, Running, Queued(timers), OneForm, Shape PROVE OneForm'
<1>1. ASSUME NEW s \in Waiting', NEW t \in Waiting', s.call \in AuthCalls, t.call \in AuthCalls
      PROVE  s = t
  <2>0. s.call \notin ListCalls /\ t.call \notin ListCalls
    BY <1>1 DEF AuthCalls, ListCalls
  <2>1. CASE s \in Waiting /\ t \in Waiting
    BY <1>1, <2>1 DEF OneForm
  <2>2. ASSUME NEW f \in Flows, NEW call \in CallNames \ ListCalls, Starts(f, call),
               s = Timer(f, call) \/ t = Timer(f, call)
        PROVE  s = t
    <3>1. call \in AuthCalls
      BY <1>1, <2>2 DEF Timer
    <3>2. ~loading
      BY <2>2, <3>1 DEF Starts
    <3>3. \A x \in Waiting : x.call \notin AuthCalls
      BY <3>2 DEF OneForm
    <3> QED
      BY <1>1, <2>2, <3>3, StartsWait
  <2> QED
    BY <2>0, <2>1, <2>2, StillWaits
<1>2. ASSUME NEW t \in Waiting', t.call \in AuthCalls PROVE loading'
  <2>0. t.call \notin ListCalls
    BY <1>2 DEF AuthCalls, ListCalls
  <2>1. ASSUME NEW f \in Flows, NEW call \in AuthCalls, Starts(f, call) PROVE loading'
    BY <2>1 DEF Starts
  <2>2. ASSUME NEW f \in Flows, NEW call, Starts(f, call), t = Timer(f, call) PROVE loading'
    BY <1>2, <2>1, <2>2 DEF Timer
  <2>3. ASSUME t \in Waiting, loading' = loading PROVE loading'
    BY <1>2, <2>3 DEF OneForm
  <2>4. ASSUME t \in Waiting, NEW s \in Waiting, s.call \in AuthCalls, s.flow # t.flow PROVE FALSE
    BY <1>2, <2>4 DEF OneForm
  <2> QED
    BY <2>0, <2>1, <2>2, <2>3, <2>4, StillWaits
<1> QED
  BY <1>1, <1>2 DEF OneForm

-------------------------------------------------------------------------------
(* The stores and the numbers. *)

(* The session is the user signed in, and both change together.            *)
LEMMA SessionStep ==
    ASSUME [Next]_vars
    PROVE  \/ UNCHANGED <<user, session>>
           \/ /\ user' = session'
              /\ \E f \in Flows : LoginAnswered(f) \/ Verified(f) \/ LoggedOut(f)
<1>1. CASE ChangePhone \/ UNCHANGED vars
  BY <1>1 DEF ChangePhone, mock, stores, vars
<1>2. ASSUME NEW f \in Flows, Use(f) PROVE UNCHANGED <<user, session>>
  <2>1. CASE \E p \in Phones : SubmitLogin(f, p) \/ SubmitPhone(f, p)
    BY <2>1 DEF SubmitLogin, SubmitPhone, mock
  <2>2. CASE SubmitCode(f) \/ LogOut(f) \/ SwitchMode(f) \/ Dismiss(f)
    BY <2>2 DEF SubmitCode, LogOut, SwitchMode, Dismiss, mock, stores
  <2>3. CASE \E n \in Amounts : \/ \E p \in Phones : Send(f, p, n)
                                \/ \E to \in 1 .. Cardinality(Phones) : Pay(f, to, n)
                                \/ TopUp(f, n)
    BY <2>3 DEF Send, Pay, TopUp, mock, stores
  <2>4. CASE \E p \in {"welcome", "login", "register", "home", "qr", "activity", "profile"} :
               Visit(f, p)
    BY <2>4 DEF Visit, mock, stores
  <2> QED
    BY <1>2, <2>1, <2>2, <2>3, <2>4 DEF Use
<1>3. ASSUME NEW f \in Flows, LoginAnswered(f) \/ Verified(f) \/ LoggedOut(f)
      PROVE  user' = session'
  BY <1>3 DEF LoginAnswered, Verified, LoggedOut, Enter
<1>4. ASSUME NEW f \in Flows, \/ LoginRefused(f) \/ RegisterRefused(f) \/ VerifyRefused(f)
                              \/ Registered(f) \/ Transferred(f) \/ ToppedUp(f)
      PROVE  UNCHANGED <<user, session>>
  BY <1>4 DEF LoginRefused, RegisterRefused, VerifyRefused, Rejected, Registered,
              Transferred, ToppedUp, Moved, mock, stores
<1>5. ASSUME NEW f \in Flows, TransferRefused(f) \/ TopUpRefused(f)
      PROVE  UNCHANGED <<user, session>>
  BY <1>5 DEF TransferRefused, TopUpRefused, Told, mock
<1>6. ASSUME NEW f \in Flows, NEW what, FetchEnds(f, what) PROVE UNCHANGED <<user, session>>
  BY <1>6 DEF FetchEnds, Told, mock
<1>7. ASSUME NEW f \in Flows, NEW call, ListAnswered(f, call) \/ ListsRefused(f)
      PROVE  UNCHANGED <<user, session>>
  BY <1>6, <1>7 DEF ListAnswered, ListsRefused, FetchFailed, mock, stores
<1> QED
  BY <1>1, <1>2, <1>3, <1>4, <1>5, <1>7 DEF Next, Fire

LEMMA PendingStep ==
    ASSUME [Next]_vars
    PROVE  pending' = pending \/ pending' = 0 \/ \E f \in Flows : Registered(f)
<1>1. CASE ChangePhone \/ UNCHANGED vars
  BY <1>1 DEF ChangePhone, stores, vars
<1>2. ASSUME NEW f \in Flows, Use(f) PROVE pending' = pending
  <2>1. CASE \E p \in Phones : SubmitLogin(f, p) \/ SubmitPhone(f, p)
    BY <2>1 DEF SubmitLogin, SubmitPhone
  <2>2. CASE SubmitCode(f) \/ LogOut(f) \/ SwitchMode(f) \/ Dismiss(f)
    BY <2>2 DEF SubmitCode, LogOut, SwitchMode, Dismiss, stores
  <2>3. CASE \E n \in Amounts : \/ \E p \in Phones : Send(f, p, n)
                                \/ \E to \in 1 .. Cardinality(Phones) : Pay(f, to, n)
                                \/ TopUp(f, n)
    BY <2>3 DEF Send, Pay, TopUp, stores
  <2>4. CASE \E p \in {"welcome", "login", "register", "home", "qr", "activity", "profile"} :
               Visit(f, p)
    BY <2>4 DEF Visit, stores
  <2> QED
    BY <1>2, <2>1, <2>2, <2>3, <2>4 DEF Use
<1>3. ASSUME NEW f \in Flows, \/ LoginAnswered(f) \/ Verified(f) \/ LoggedOut(f)
                              \/ LoginRefused(f) \/ RegisterRefused(f) \/ VerifyRefused(f)
                              \/ Transferred(f) \/ ToppedUp(f)
      PROVE  pending' = pending \/ pending' = 0
  BY <1>3 DEF LoginAnswered, Verified, LoggedOut, LoginRefused, RegisterRefused, VerifyRefused,
              Rejected, Transferred, ToppedUp, Moved, stores
<1>4. ASSUME NEW f \in Flows, TransferRefused(f) \/ TopUpRefused(f) PROVE pending' = pending
  BY <1>4 DEF TransferRefused, TopUpRefused, Told
<1>5. ASSUME NEW f \in Flows, NEW what, FetchEnds(f, what) PROVE pending' = pending
  BY <1>5 DEF FetchEnds, Told
<1>6. ASSUME NEW f \in Flows, NEW call, ListAnswered(f, call) \/ ListsRefused(f)
      PROVE  pending' = pending
  BY <1>5, <1>6 DEF ListAnswered, ListsRefused, FetchFailed, stores
<1> QED
  BY <1>1, <1>2, <1>3, <1>4, <1>6 DEF Next, Fire

LEMMA ShownStep ==
    ASSUME Typing, Running, Queued(timers), [Next]_vars
    PROVE  shown' = shown \/ \E f \in Flows : Shows(f)
<1>1. CASE ChangePhone \/ UNCHANGED vars
  BY <1>1 DEF ChangePhone, stores, vars
<1>2. ASSUME NEW f \in Flows, Use(f) PROVE shown' = shown
  <2>1. CASE \E p \in Phones : SubmitLogin(f, p) \/ SubmitPhone(f, p)
    BY <2>1 DEF SubmitLogin, SubmitPhone
  <2>2. CASE SubmitCode(f) \/ LogOut(f) \/ SwitchMode(f) \/ Dismiss(f)
    BY <2>2 DEF SubmitCode, LogOut, SwitchMode, Dismiss, stores
  <2>3. CASE \E n \in Amounts : \/ \E p \in Phones : Send(f, p, n)
                                \/ \E to \in 1 .. Cardinality(Phones) : Pay(f, to, n)
                                \/ TopUp(f, n)
    BY <2>3 DEF Send, Pay, TopUp, stores
  <2>4. CASE \E p \in {"welcome", "login", "register", "home", "qr", "activity", "profile"} :
               Visit(f, p)
    BY <2>4 DEF Visit, stores
  <2> QED
    BY <1>2, <2>1, <2>2, <2>3, <2>4 DEF Use
<1>3. ASSUME NEW f \in Flows, \/ LoginAnswered(f) \/ Verified(f) \/ LoggedOut(f) \/ Registered(f)
                              \/ LoginRefused(f) \/ RegisterRefused(f) \/ VerifyRefused(f)
                              \/ Transferred(f) \/ ToppedUp(f)
      PROVE  shown' = shown
  BY <1>3 DEF LoginAnswered, Verified, LoggedOut, Registered, LoginRefused, RegisterRefused,
              VerifyRefused, Rejected, Transferred, ToppedUp, Moved, stores
<1>4. ASSUME NEW f \in Flows, TransferRefused(f) \/ TopUpRefused(f) \/ ListsRefused(f)
      PROVE  shown' = shown
  BY <1>4 DEF TransferRefused, TopUpRefused, ListsRefused, FetchFailed
<1>5. ASSUME NEW f \in Flows, NEW call \in ListCalls, ListAnswered(f, call)
      PROVE  shown' = shown \/ Shows(f)
  <2>1. ASSUME FetchEnds(f, "done") PROVE UNCHANGED <<mock, user>>
    BY <2>1 DEF FetchEnds, Told
  <2>2. session # 0
    BY <1>5 DEF ListAnswered
  <2> QED
    BY <1>5, <2>1, <2>2, ListShape DEF Shows, stores
<1> QED
  BY <1>1, <1>2, <1>3, <1>4, <1>5 DEF Next, Fire, ListCalls

LEMMA LoadingStep ==
    ASSUME Typing, Shape PROVE loading' \in BOOLEAN
<1>1. loading \in BOOLEAN
  BY DEF Typing, StoresTyped
<1> QED
  BY <1>1 DEF Shape, Stays, Starts, Ends, Lists2, Halves, Freed

LEMMA StatusStep ==
    ASSUME fetching \in BOOLEAN, [Next]_vars PROVE fetching' \in BOOLEAN
<1>1. CASE ChangePhone \/ UNCHANGED vars
  BY <1>1 DEF ChangePhone, stores, vars
<1>2. ASSUME NEW f \in Flows, Use(f) PROVE fetching' \in BOOLEAN
  <2>1. CASE \E p \in Phones : SubmitLogin(f, p) \/ SubmitPhone(f, p)
    BY <2>1 DEF SubmitLogin, SubmitPhone
  <2>2. CASE SubmitCode(f) \/ LogOut(f) \/ SwitchMode(f) \/ Dismiss(f)
    BY <2>2 DEF SubmitCode, LogOut, SwitchMode, Dismiss, stores
  <2>3. CASE \E n \in Amounts : \/ \E p \in Phones : Send(f, p, n)
                                \/ \E to \in 1 .. Cardinality(Phones) : Pay(f, to, n)
                                \/ TopUp(f, n)
    BY <2>3 DEF Send, Pay, TopUp, stores
  <2>4. CASE \E p \in {"welcome", "login", "register", "home", "qr", "activity", "profile"} :
               Visit(f, p)
    BY <2>4 DEF Visit, GoTo
  <2> QED
    BY <1>2, <2>1, <2>2, <2>3, <2>4 DEF Use
<1>3. ASSUME NEW f \in Flows, \/ LoginAnswered(f) \/ Verified(f) \/ LoggedOut(f)
      PROVE  fetching' \in BOOLEAN
  BY <1>3 DEF LoginAnswered, Verified, LoggedOut, Enter, GoTo
<1>4. ASSUME NEW f \in Flows, \/ Registered(f) \/ LoginRefused(f) \/ RegisterRefused(f)
                              \/ VerifyRefused(f) \/ Transferred(f) \/ ToppedUp(f)
                              \/ TransferRefused(f) \/ TopUpRefused(f)
      PROVE  fetching' \in BOOLEAN
  BY <1>4 DEF Registered, LoginRefused, RegisterRefused, VerifyRefused, Rejected,
              Transferred, ToppedUp, Moved, TransferRefused, TopUpRefused
<1>5. ASSUME NEW f \in Flows, NEW call, ListAnswered(f, call) \/ ListsRefused(f)
      PROVE  fetching' \in BOOLEAN
  BY <1>5 DEF ListAnswered, ListsRefused, FetchFailed, FetchEnds, stores
<1> QED
  BY <1>1, <1>2, <1>3, <1>4, <1>5 DEF Next, Fire

LEMMA StoresStep ==
    ASSUME Typing, Running, Queued(timers), Screens, [Next]_vars PROVE StoresTyped'
<1>0. /\ DatabaseTyped' /\ FlowsTyped /\ StoresTyped
      /\ Len(users) \in Nat /\ Len(users') \in Nat /\ Len(users) <= Len(users')
      /\ Len(pendings) \in Nat /\ Len(pendings') \in Nat /\ Len(pendings) <= Len(pendings')
  BY Grows DEF Typing
<1>1. user' \in 0 .. Len(users')
  <2>1. user' = session'
    BY SessionStep DEF Screens
  <2> QED
    BY <1>0, <2>1 DEF DatabaseTyped
<1>2. pending' \in 0 .. Len(pendings')
  <2>1. CASE pending' = pending \/ pending' = 0
    BY <1>0, <2>1 DEF StoresTyped
  <2>2. ASSUME NEW f \in Flows, Registered(f) PROVE pending' \in 0 .. Len(pendings')
    BY <1>0, <2>2, RegisterAdds
  <2> QED
    BY <2>1, <2>2, PendingStep
<1>3. loading' \in BOOLEAN /\ fetching' \in BOOLEAN
  BY <1>0, LoadingStep, StatusStep, StepShape DEF StoresTyped
<1>4. shown' \in Readings /\ shown'.owner <= Len(users')
  <2>1. CASE shown' = shown
    <3>1. shown \in Readings /\ shown.owner \in Nat /\ shown.owner <= Len(users)
      BY <1>0 DEF StoresTyped, Readings
    <3> QED
      BY <1>0, <2>1, <3>1
  <2>2. ASSUME NEW f \in Flows, Shows(f) PROVE shown' \in Readings /\ shown'.owner <= Len(users')
    <3>1. /\ shown' \in Readings /\ shown'.owner = flow[f].got.owner
      BY <2>2, ReadIs DEF Shows
    <3>2. flow[f].got.owner <= Len(users) /\ shown'.owner \in Nat
      BY <1>0, <3>1 DEF FlowsTyped, Readings
    <3> QED
      BY <1>0, <3>1, <3>2
  <2> QED
    BY <2>1, <2>2, ShownStep
<1> QED
  BY <1>1, <1>2, <1>3, <1>4 DEF StoresTyped

LEMMA TypingStep ==
    ASSUME Typing, Running, Queued(timers), Screens, [Next]_vars
    PROVE  Typing' /\ Running' /\ Queued(timers)'
<1>1. Shape /\ Len(pendings') \in Nat /\ Len(pendings) <= Len(pendings') /\ DatabaseTyped'
  BY StepShape, Grows
<1>2. timers' \in Seq(TimerRecords) /\ Queued(timers') /\ Running'
  BY <1>1, QueueStep
<1>3. FlowsTyped' /\ StoresTyped'
  BY FlowsStep, StoresStep
<1>4. Queued(timers)' <=> Queued(timers')
  BY DEF Queued, Timer
<1> QED
  BY <1>1, <1>2, <1>3, <1>4 DEF Typing

(* The form whose call is answered was the only one.                       *)
LEMMA FormAnswered ==
    ASSUME Typing, Queued(timers), OneForm, NEW f \in Flows, Ends(f) \/ Lists2(f),
           NEW call \in AuthCalls, Due(f, call), NEW t \in Waiting', t.call \in AuthCalls
    PROVE  FALSE
<1>1. Timer(f, call) \in Waiting /\ Timer(f, call).flow = f /\ Timer(f, call).call = call
  BY DueWaits DEF Timer
<1>2. t \in Waiting /\ t.flow # f
  <2>1. CASE Ends(f)
    BY <2>1, OthersWait DEF Ends, Waiting
  <2>2. CASE Lists2(f)
    BY <2>2, ListsWait DEF Timer, AuthCalls
  <2> QED
    BY <2>1, <2>2
<1> QED
  BY <1>1, <1>2 DEF OneForm

(* A registration that waits to be verified stays free when nobody gets an *)
(* account.                                                                *)
LEMMA FreeStays ==
    ASSUME Typing, Running, Numbered, [Next]_vars, byPhone' = byPhone,
           NEW k \in 1 .. Len(pendings), IsFree(k)
    PROVE  byPhone'[pendings'[k].phone] = 0
<1>1. pendings'[k].phone = pendings[k].phone
  BY Grows
<1> QED
  BY <1>1 DEF IsFree

LEMMA VerifiesFree ==
    ASSUME Typing, Running, Queued(timers), Numbered, Shape, [Next]_vars, byPhone' = byPhone,
           NEW t \in Waiting', t.call = "verifyPhone"
    PROVE  byPhone'[pendings'[flow'[t.flow].to].phone] = 0
<1>0. t.call \notin ListCalls
  BY DEF ListCalls
<1>1. ASSUME t \in Waiting, SameRun(flow'[t.flow], flow[t.flow])
      PROVE  byPhone'[pendings'[flow'[t.flow].to].phone] = 0
  <2> DEFINE k == flow[t.flow].to
  <2>1. k \in 1 .. Len(pendings) /\ IsFree(k)
    BY <1>1, WaitingTyped DEF Running, Runs, Numbered
  <2>2. flow'[t.flow].to = k
    BY <1>1 DEF SameRun
  <2> HIDE DEF k
  <2> QED
    BY <2>1, <2>2, FreeStays
<1>2. ASSUME NEW f \in Flows, NEW call \in CallNames \ ListCalls, Starts(f, call),
             t = Timer(f, call)
      PROVE  byPhone'[pendings'[flow'[t.flow].to].phone] = 0
  <2>1. call = "verifyPhone" /\ t.flow = f
    BY <1>2 DEF Timer
  <2>2. flow'[f].to = pending /\ pending # 0
    BY <1>2, <2>1 DEF Starts
  <2>3. pending \in 1 .. Len(pendings) /\ IsFree(pending)
    BY <2>2 DEF Typing, StoresTyped, DatabaseTyped, Numbered
  <2> QED
    BY <2>1, <2>2, <2>3, FreeStays
<1> QED
  BY <1>0, <1>1, <1>2, StillWaits

LEMMA NumberedStep ==
    ASSUME Typing, Running, Queued(timers), OneForm, Numbered, [Next]_vars PROVE Numbered'
<1>0. /\ Shape /\ DatabaseTyped /\ users \in Seq(Accounts) /\ Len(users) \in Nat
      /\ byPhone \in [Phones -> 0 .. Len(users)] /\ pending \in 0 .. Len(pendings)
      /\ DOMAIN users = 1 .. Len(users) /\ \A u \in 1 .. Len(users) : users[u].phone \in Phones
  <2>1. users \in Seq(Accounts)
    BY DEF Typing, DatabaseTyped
  <2>2. \A u \in 1 .. Len(users) : users[u] \in Accounts
    BY <2>1
  <2> QED
    BY <2>1, <2>2, StepShape DEF Typing, DatabaseTyped, StoresTyped, Accounts
<1>1. ASSUME NEW f \in Flows, Verified(f) PROVE Numbered'
  <2> DEFINE k == flow[f].to
             phone == pendings[k].phone
             n == Len(users) + 1
  <2>1. /\ phone \in Phones /\ pending' = 0
        /\ users' \in Seq(Accounts) /\ Len(users') = n
        /\ \A u \in 1 .. Len(users) : users'[u] = users[u]
        /\ users'[n] = Account(phone, 0)
        /\ byPhone' = [byPhone EXCEPT ![phone] = n]
    BY <1>1, VerifyAdds
  <2>2. byPhone[phone] = 0
    <3>1. Timer(f, "verifyPhone") \in Waiting
      BY <1>1, DueWaits DEF Verified
    <3>2. IsFree(k)
      BY <3>1 DEF Numbered, Timer
    <3> QED
      BY <3>2 DEF IsFree
  <2>3. Account(phone, 0).phone = phone
    BY DEF Account
  <2>4. ASSUME NEW t \in Waiting' PROVE t.call # "verifyPhone"
    BY <1>0, <1>1, <2>4, EnterShape, FormAnswered DEF Verified, Typing, AuthCalls
  <2> HIDE DEF k, phone, n
  <2>5. n = Len(users) + 1 /\ DOMAIN users' = 1 .. n
    BY <2>1 DEF n
  <2>6. ASSUME NEW u \in DOMAIN users' PROVE byPhone'[users'[u].phone] = u
    <3>1. CASE u = n
      BY <1>0, <2>1, <2>3, <3>1
    <3>2. CASE u # n
      <4>1. u \in 1 .. Len(users)
        BY <1>0, <2>5, <3>2
      <4>2. byPhone[users[u].phone] = u /\ users[u].phone \in Phones /\ users'[u] = users[u]
        BY <1>0, <2>1, <4>1 DEF Numbered
      <4>3. users[u].phone # phone
        BY <2>2, <4>1, <4>2
      <4> QED
        BY <1>0, <2>1, <4>2, <4>3
    <3> QED
      BY <3>1, <3>2
  <2> QED
    BY <2>1, <2>4, <2>6 DEF Numbered
<1>2. ASSUME byPhone' = byPhone, Len(users') = Len(users),
             pending' = pending \/ pending' = 0 \/ \E f \in Flows : Registered(f)
      PROVE  Numbered'
  <2>1. ASSUME NEW u \in DOMAIN users' PROVE byPhone'[users'[u].phone] = u
    <3>1. DOMAIN users' = DOMAIN users
      BY <1>0, <1>2, Grows DEF DatabaseTyped
    <3>2. users'[u].phone = users[u].phone
      BY <1>0, <2>1, <3>1, Grows
    <3> QED
      BY <1>2, <2>1, <3>1, <3>2 DEF Numbered
  <2>2. ASSUME pending' # 0 PROVE byPhone'[pendings'[pending'].phone] = 0
    <3>1. CASE pending' = pending
      <4>1. pending \in 1 .. Len(pendings) /\ IsFree(pending)
        BY <1>0, <2>2, <3>1 DEF Numbered
      <4> QED
        BY <1>2, <3>1, <4>1, FreeStays
    <3>2. ASSUME NEW f \in Flows, Registered(f) PROVE byPhone'[pendings'[pending'].phone] = 0
      BY <1>2, <3>2, RegisterAdds
    <3> QED
      BY <1>2, <2>2, <3>1, <3>2
  <2>3. ASSUME NEW t \in Waiting', t.call = "verifyPhone"
        PROVE  byPhone'[pendings'[flow'[t.flow].to].phone] = 0
    BY <1>0, <1>2, <2>3, VerifiesFree
  <2> QED
    BY <2>1, <2>2, <2>3 DEF Numbered, IsFree
<1>3. CASE UNCHANGED mock
  BY <1>2, <1>3, PendingStep DEF mock
<1>4. ASSUME NEW f \in Flows, LoginAnswered(f) \/ LoggedOut(f) \/ Registered(f) PROVE Numbered'
  <2>1. UNCHANGED <<users, byPhone>>
    BY <1>4 DEF LoginAnswered, LoggedOut, Registered
  <2> QED
    BY <1>2, <2>1, PendingStep
<1>5. ASSUME NEW f \in Flows, Transferred(f) \/ ToppedUp(f) PROVE Numbered'
  <2>1. Len(users') = Len(users)
    BY <1>5, TransferMoves, TopUpMoves
  <2>2. UNCHANGED byPhone
    BY <1>5 DEF Transferred, ToppedUp, Moved
  <2> QED
    BY <1>2, <2>1, <2>2, PendingStep
<1> QED
  BY <1>1, <1>3, <1>4, <1>5, Quiet

-------------------------------------------------------------------------------
(* Who is at the head of the queue with its second list has just read the  *)
(* first, or was there before.                                             *)
LEMMA HeadStays ==
    ASSUME Typing, Running, Queued(timers), Shape,
           1 \in DOMAIN timers', timers'[1].call = "listTransactions"
    PROVE  \/ \E f \in Flows : Halves(f) /\ timers'[1].flow = f
           \/ /\ 1 \in DOMAIN timers /\ timers'[1] = timers[1]
              /\ flow'[timers[1].flow].got = flow[timers[1].flow].got
<1>0. timers \in Seq(TimerRecords)
  BY DEF Typing
<1>1. CASE Stays
  <2>1. 1 \in DOMAIN timers /\ timers' = timers
    BY <1>1 DEF Stays
  <2>2. timers[1] \in TimerRecords /\ Runs(timers[1].call, flow[timers[1].flow], Len(pendings))
    BY <1>0, <2>1 DEF Running
  <2>3. timers[1].flow \in Flows /\ flow[timers[1].flow].told = "none"
    BY <2>2 DEF TimerRecords, Runs
  <2> QED
    BY <1>1, <2>1, <2>3 DEF Stays
<1>2. ASSUME NEW f \in Flows, OthersRun(f), 1 \in DOMAIN timers, timers[1].flow # f
      PROVE  flow'[timers[1].flow].got = flow[timers[1].flow].got
  <2>1. timers[1] \in TimerRecords
    BY <1>0, <1>2
  <2> QED
    BY <1>2, <2>1 DEF OthersRun, TimerRecords
<1>3. ASSUME NEW f \in Flows, NEW call \in CallNames \ ListCalls, Starts(f, call)
      PROVE  /\ 1 \in DOMAIN timers /\ timers'[1] = timers[1]
             /\ flow'[timers[1].flow].got = flow[timers[1].flow].got
  <2> DEFINE a == Timer(f, call)
  <2>1. timers' = Append(timers, a) /\ a.call = call
    BY <1>3 DEF Starts, Timer
  <2> HIDE DEF a
  <2>2. 1 \in DOMAIN timers
    <3> SUFFICES ASSUME 1 \notin DOMAIN timers PROVE FALSE
      OBVIOUS
    <3>1. timers = <<>>
      BY <1>0
    <3>2. timers'[1] = a
      BY <2>1, <3>1
    <3> QED
      BY <1>3, <2>1, <3>2 DEF ListCalls
  <2>3. timers'[1] = timers[1]
    BY <1>0, <2>1, <2>2
  <2>4. timers[1].flow # f
    BY <1>3, <2>2, NothingIs, NoTimers DEF Starts
  <2> QED
    BY <1>2, <1>3, <2>2, <2>3, <2>4 DEF Starts
<1>4. ASSUME NEW f \in Flows, 1 \in DOMAIN Others(f), Others(f)[1].call = "listTransactions"
      PROVE  1 \in DOMAIN timers /\ Others(f)[1] = timers[1] /\ timers[1].flow # f
  <2>1. 1 \in DOMAIN timers /\ Others(f)[1] = timers[1]
    BY <1>4, OthersQueued
  <2>2. Others(f)[1].flow # f
    BY <1>4, OthersFrom
  <2> QED
    BY <2>1, <2>2
<1>5. ASSUME NEW f \in Flows, Ends(f)
      PROVE  /\ 1 \in DOMAIN timers /\ timers'[1] = timers[1]
             /\ flow'[timers[1].flow].got = flow[timers[1].flow].got
  BY <1>2, <1>4, <1>5 DEF Ends
<1>6. ASSUME NEW f \in Flows, Lists2(f)
      PROVE  /\ 1 \in DOMAIN timers /\ timers'[1] = timers[1]
             /\ flow'[timers[1].flow].got = flow[timers[1].flow].got
  <2> DEFINE R == Others(f)
             a == Timer(f, "listWallets")
             b == Timer(f, "listTransactions")
  <2>1. R \in Seq(TimerRecords) /\ timers' = R \o <<a, b>> /\ a.call # "listTransactions"
    BY <1>6, OthersFrom DEF Lists2, Lists, Timer
  <2>2. OthersRun(f)
    BY <1>6 DEF Lists2
  <2> HIDE DEF R, a, b
  <2>3. 1 \in DOMAIN R
    <3> SUFFICES ASSUME 1 \notin DOMAIN R PROVE FALSE
      OBVIOUS
    <3>1. R = <<>>
      BY <2>1
    <3>2. timers'[1] = a
      BY <2>1, <3>1
    <3> QED
      BY <2>1, <3>2
  <2>4. timers'[1] = R[1]
    BY <2>1, <2>3
  <2> QED
    BY <1>2, <1>4, <2>2, <2>3, <2>4 DEF R
<1>7. ASSUME NEW f \in Flows, Halves(f) PROVE timers'[1].flow = f
  <2>1. timers' = HalfDone(f)
    BY <1>7 DEF Halves
  <2>2. HalfDone(f)[1] = Timer(f, "listTransactions")
    BY <1>7, HalfQueued DEF Halves
  <2> QED
    BY <2>1, <2>2 DEF Timer
<1> QED
  BY <1>1, <1>3, <1>5, <1>6, <1>7 DEF Shape

LEMMA HalfReadStep ==
    ASSUME Typing, Running, Queued(timers), HalfRead, [Next]_vars PROVE HalfRead'
<1> SUFFICES ASSUME 1 \in DOMAIN timers', timers'[1].call = "listTransactions", session' # 0
             PROVE  flow'[timers'[1].flow].got.owner = session'
  BY DEF HalfRead
<1>1. ASSUME NEW f \in Flows, Halves(f), timers'[1].flow = f
      PROVE  flow'[timers'[1].flow].got.owner = session'
  <2> DEFINE w == Read(f, "listWallets")
  <2>1. flow'[f].got = w /\ session # 0 /\ session' = session
    BY <1>1 DEF Halves, mock
  <2>2. w.owner = session
    BY <2>1, ReadIs
  <2> HIDE DEF w
  <2> QED
    BY <1>1, <2>1, <2>2
<1>2. ASSUME 1 \in DOMAIN timers, timers'[1] = timers[1],
             flow'[timers[1].flow].got = flow[timers[1].flow].got
      PROVE  flow'[timers'[1].flow].got.owner = session'
  <2>1. ASSUME NEW f \in Flows, NEW call \in CallNames \ {"logout"}, Due(f, call)
        PROVE  call = "listTransactions"
    BY <1>2, <2>1, DueIsHead DEF Typing, Timer
  <2>2. ASSUME NEW f \in Flows PROVE ~LoginAnswered(f) /\ ~Registered(f) /\ ~Verified(f)
    BY <2>1 DEF LoginAnswered, Registered, Verified, CallNames, AuthCalls
  <2>3. ASSUME NEW f \in Flows, Transferred(f) \/ ToppedUp(f) PROVE session' = session
    BY <2>3 DEF Transferred, ToppedUp, Moved
  <2>4. ASSUME NEW f \in Flows PROVE ~LoggedOut(f)
    BY DEF LoggedOut
  <2>5. session' = session
    BY <2>2, <2>3, <2>4, Quiet DEF mock
  <2> QED
    BY <1>2, <2>5 DEF HalfRead
<1> QED
  BY <1>1, <1>2, HeadStays, StepShape

-------------------------------------------------------------------------------
(* Who is signed in sees their own money, or a fetchAll is under way.      *)

(* A call that is not a list ends alone. *)
LEMMA ListsGoOn ==
    ASSUME Typing, Queued(timers), NEW f, NEW call \in CallNames \ ListCalls, Due(f, call),
           NEW t \in Waiting, t.call = "listTransactions"
    PROVE  t.flow # f
<1>1. /\ Timer(f, call) \in Waiting /\ Timer(f, call).flow = f
      /\ Timer(f, call).call = call /\ call # "listTransactions"
  BY DueWaits DEF Timer, ListCalls
<1> QED
  BY <1>1, AloneOfItsFlow

LEMMA FetchGoesOn ==
    ASSUME Typing, Running, Queued(timers), Shape, NEW t \in Waiting, t.call = "listTransactions"
    PROVE  \/ \E s \in Waiting' : s.call = "listTransactions"
           \/ session = 0
           \/ \E f \in Flows : Shows(f)
<1>1. CASE Stays
  BY <1>1 DEF Stays, Waiting
<1>2. ASSUME NEW f \in Flows, NEW call \in CallNames \ ListCalls, Starts(f, call)
      PROVE  t \in Waiting'
  BY <1>2, StartsWait
<1>3. ASSUME NEW f \in Flows, Lists2(f)
      PROVE  \E s \in Waiting' : s.call = "listTransactions"
  BY <1>3, ListsWaiting
<1>4. ASSUME NEW f \in Flows, Halves(f) PROVE t \in Waiting'
  BY <1>4, HalvesWait DEF Timer
<1>5. ASSUME NEW f \in Flows, Ends(f)
      PROVE  t \in Waiting' \/ session = 0 \/ Shows(f)
  <2>1. Waiting' = {s \in Waiting : s.flow # f}
    BY <1>5, OthersWait DEF Ends, Waiting
  <2>2. CASE flow[f] = Nothing
    <3>1. t.flow # f
      BY <2>2, NothingIs, NoTimers, WaitingTyped
    <3> QED
      BY <2>1, <3>1
  <2>3. ASSUME NEW call \in CallNames \ ListCalls, Due(f, call) PROVE t \in Waiting'
    BY <2>1, <2>3, ListsGoOn
  <2> QED
    BY <1>5, <2>2, <2>3 DEF Ends, Fires, Listed
<1> QED
  BY <1>1, <1>2, <1>3, <1>4, <1>5 DEF Shape

LEMMA OwnMoneyStep ==
    ASSUME Typing, Running, Queued(timers), HalfRead, Screens, [Next]_vars
    PROVE  \/ user' = 0
           \/ shown'.owner = user' /\ shown'.history = users'[user'].history
           \/ \E t \in Waiting' : t.call = "listTransactions"
<1>0. user = session /\ Shape
  BY StepShape DEF Screens
<1>1. ASSUME NEW f \in Flows, Shows(f)
      PROVE  shown'.owner = user' /\ shown'.history = users'[user'].history
  <2>1. flow[f].got.owner = session
    BY <1>1 DEF Shows, HalfRead, Timer
  <2>2. shown'.owner = flow[f].got.owner /\ shown'.history = users[session].history
    BY <1>1, ReadIs DEF Shows
  <2>3. user' = session /\ users' = users
    BY <1>0, <1>1 DEF Shows, mock
  <2> QED
    BY <2>1, <2>2, <2>3
<1>2. ASSUME NEW f \in Flows, LoginAnswered(f) \/ Verified(f)
      PROVE  \E t \in Waiting' : t.call = "listTransactions"
  <2>1. PICK call \in {"login", "verifyPhone"} : Due(f, call) /\ \E u : Enter(f, u)
    BY <1>2 DEF LoginAnswered, Verified
  <2>2. call \in AuthCalls /\ call \in CallNames \ ListCalls /\ FlowsTyped
    BY DEF AuthCalls, CallNames, ListCalls, Typing
  <2>3. CASE page # "home"
    <3>1. Lists2(f)
      BY <2>1, <2>2, <2>3, EnterShape
    <3> QED
      BY <3>1, ListsWaiting
  <2>4. CASE page = "home"
    <3>1. Ends(f)
      BY <2>1, <2>2, <2>4, EnterShape
    <3>2. 1 \in DOMAIN timers /\ timers[1] = Timer(f, call)
      BY <2>1, <2>2, DueIsHead DEF Typing
    <3>3. timers[1].call = call
      BY <3>2 DEF Timer
    <3>4. PICK j \in DOMAIN timers : timers[j].call = "listTransactions"
      BY <2>4, <3>2, <3>3 DEF Screens, Fetching
    <3>5. timers[j] \in Waiting
      BY DEF Waiting, ToSet
    <3>6. timers[j].flow # f
      BY <2>1, <2>2, <3>4, <3>5, ListsGoOn
    <3>7. Waiting' = {s \in Waiting : s.flow # f}
      BY <3>1, OthersWait DEF Ends, Waiting
    <3> QED
      BY <3>4, <3>5, <3>6, <3>7
  <2> QED
    BY <2>3, <2>4
<1>3. ASSUME NEW f \in Flows, LoggedOut(f) PROVE user' = 0
  BY <1>3 DEF LoggedOut
<1>4. ASSUME NEW f \in Flows, Transferred(f) \/ ToppedUp(f)
      PROVE  \E t \in Waiting' : t.call = "listTransactions"
  <2>1. Fires(f) /\ FlowsTyped
    BY <1>4 DEF Transferred, ToppedUp, PayDue, Fires, CallNames, ListCalls, Typing
  <2>2. Moved(f) /\ (PayDue(f) \/ Due(f, "topUp"))
    BY <1>4 DEF Transferred, ToppedUp
  <2>3. Lists2(f)
    BY <2>1, <2>2, PayRuns, MovedShape
  <2> QED
    BY <2>3, ListsWaiting
<1>5. CASE UNCHANGED <<user, session>> /\ shown' = shown /\ users' = users
  BY <1>0, <1>1, <1>5, FetchGoesOn DEF Screens
<1>6. ASSUME NEW f \in Flows, Registered(f) PROVE users' = users
  BY <1>6 DEF Registered
<1> QED
  BY <1>1, <1>2, <1>3, <1>4, <1>5, <1>6, SessionStep, ShownStep, Quiet DEF mock

(* Who signs in on the home page will find a fetchAll behind. *)
LEMMA FetchingStep ==
    ASSUME Typing, Running, Queued(timers), Screens, Shape, page' = "home",
           NEW i \in DOMAIN timers', timers'[i].call \in {"login", "verifyPhone"}
    PROVE  \E j \in DOMAIN timers' : i < j /\ timers'[j].call = "listTransactions"
<1>0. timers \in Seq(TimerRecords) /\ DOMAIN timers = 1 .. Len(timers) /\ Len(timers) \in Nat
  BY DEF Typing
<1>1. ASSUME page = "home", NEW k \in DOMAIN timers, timers[k].call \in {"login", "verifyPhone"}
      PROVE  \E j \in DOMAIN timers : k < j /\ timers[j].call = "listTransactions"
  BY <1>1 DEF Screens, Fetching
<1>2. CASE Stays
  BY <1>1, <1>2 DEF Stays
<1>3. ASSUME NEW f \in Flows, NEW call \in CallNames \ ListCalls, Starts(f, call)
      PROVE  \E j \in DOMAIN timers' : i < j /\ timers'[j].call = "listTransactions"
  <2> DEFINE a == Timer(f, call)
  <2>1. timers' = Append(timers, a) /\ a.call = call /\ page = "home" /\ a \in TimerRecords
    BY <1>3 DEF Starts, Timer, TimerRecords
  <2>2. call \notin {"login", "verifyPhone"}
    BY <1>3, <2>1 DEF Starts, AuthCalls
  <2> HIDE DEF a
  <2>3. /\ DOMAIN timers' = 1 .. Len(timers) + 1
        /\ \A k \in 1 .. Len(timers) : timers'[k] = timers[k]
        /\ timers'[Len(timers) + 1] = a
    BY <1>0, <2>1
  <2>4. i \in 1 .. Len(timers)
    BY <1>0, <2>1, <2>2, <2>3
  <2>5. PICK j \in DOMAIN timers : i < j /\ timers[j].call = "listTransactions"
    BY <1>0, <1>1, <2>1, <2>3, <2>4
  <2> QED
    BY <1>0, <2>3, <2>5
<1>4. ASSUME NEW h, From(h, timers'), page = "home", timers' \in Seq(TimerRecords),
             \A j \in DOMAIN timers : timers[j].call = "listTransactions" /\ h[i] < j =>
                \E k \in DOMAIN timers' : h[k] = j
      PROVE  \E j \in DOMAIN timers' : i < j /\ timers'[j].call = "listTransactions"
  <2>1. h[i] \in DOMAIN timers /\ timers'[i] = timers[h[i]]
    BY <1>4 DEF From
  <2>2. PICK j \in DOMAIN timers : h[i] < j /\ timers[j].call = "listTransactions"
    BY <1>1, <1>4, <2>1
  <2>3. PICK k \in DOMAIN timers' : h[k] = j
    BY <1>4, <2>2
  <2>4. timers'[k].call = "listTransactions"
    BY <1>4, <2>2, <2>3 DEF From
  <2>5. i < k
    <3> SUFFICES ASSUME ~(i < k) PROVE FALSE
      OBVIOUS
    <3>1. i \in Nat /\ k \in Nat /\ k # i
      BY <1>0, <1>4, <2>1, <2>2, <2>3
    <3>2. k < i
      BY <3>1
    <3>3. h[k] < h[i]
      BY <1>4, <3>2 DEF From
    <3> QED
      BY <1>0, <2>1, <2>2, <2>3, <3>3
  <2> QED
    BY <2>4, <2>5
<1>5. ASSUME NEW f \in Flows, Ends(f)
      PROVE  \E j \in DOMAIN timers' : i < j /\ timers'[j].call = "listTransactions"
  <2>1. timers' = Others(f) /\ page = "home" /\ Fires(f)
    BY <1>5 DEF Ends
  <2>2. timers' \in Seq(TimerRecords)
    BY <2>1, OthersFrom
  <2>3. PICK h : /\ From(h, timers')
                 /\ \A j \in DOMAIN timers : timers[j].flow # f =>
                       \E k \in DOMAIN timers' : h[k] = j
    BY <2>1, OthersFrom
  <2>4. ASSUME NEW j \in DOMAIN timers, timers[j].call = "listTransactions", h[i] < j
        PROVE  timers[j].flow # f
    <3>0. timers[j] \in Waiting
      BY DEF Waiting, ToSet
    <3>1. CASE flow[f] = Nothing
      BY <3>1, NothingIs, NoTimers
    <3>2. ASSUME NEW call \in CallNames \ ListCalls, Due(f, call) PROVE timers[j].flow # f
      BY <2>4, <3>0, <3>2, ListsGoOn
    <3>3. ASSUME NEW call \in ListCalls, Due(f, call), timers[j].flow = f PROVE FALSE
      <4>1. 1 \in DOMAIN timers /\ timers[1] = Timer(f, call)
        BY <1>0, <3>3, DueIsHead DEF ListCalls
      <4>2. h[i] \in DOMAIN timers /\ timers'[i] = timers[h[i]]
        BY <2>3 DEF From
      <4>3. 1 < j /\ timers[1].flow = f /\ timers[1].call = call
        BY <1>0, <2>4, <4>1, <4>2 DEF Timer
      <4>4. j = 2
        BY <3>3, <4>1, <4>3 DEF Queued
      <4>5. h[i] = 1
        BY <1>0, <2>4, <4>2, <4>4
      <4> QED
        BY <3>3, <4>2, <4>3, <4>5 DEF ListCalls
    <3> QED
      BY <2>1, <3>1, <3>2, <3>3 DEF Fires
  <2> QED
    BY <1>4, <2>1, <2>2, <2>3, <2>4
<1>6. ASSUME NEW f \in Flows, Lists2(f)
      PROVE  \E j \in DOMAIN timers' : i < j /\ timers'[j].call = "listTransactions"
  <2> DEFINE R == Others(f)
             a == Timer(f, "listWallets")
             b == Timer(f, "listTransactions")
  <2>1. R \in Seq(TimerRecords) /\ timers' = R \o <<a, b>> /\ b.call = "listTransactions"
    BY <1>6, OthersFrom DEF Lists2, Lists, Timer
  <2> HIDE DEF R, a, b
  <2>2. DOMAIN timers' = 1 .. Len(R) + 2 /\ timers'[Len(R) + 2] = b /\ Len(R) \in Nat
    BY <2>1
  <2>3. i # Len(R) + 2
    BY <2>1, <2>2
  <2>4. Len(R) + 2 \in DOMAIN timers' /\ i < Len(R) + 2
    BY <2>2, <2>3
  <2> QED
    BY <2>1, <2>2, <2>4
<1>7. ASSUME NEW f \in Flows, Halves(f)
      PROVE  \E j \in DOMAIN timers' : i < j /\ timers'[j].call = "listTransactions"
  <2>1. timers' = HalfDone(f) /\ page = "home" /\ 1 \in DOMAIN timers
        /\ timers[1] = Timer(f, "listWallets")
    BY <1>7 DEF Halves
  <2>2. PICK h : /\ From(h, timers')
                 /\ \A j \in DOMAIN timers : j # 1 => \E k \in DOMAIN timers' : h[k] = j
    BY <2>1, HalfQueued
  <2>3. timers' \in Seq(TimerRecords)
    BY <2>1, HalfQueued
  <2>4. \A j \in DOMAIN timers : h[i] < j => j # 1
    BY <1>0, <2>2 DEF From
  <2> QED
    BY <1>4, <2>1, <2>2, <2>3, <2>4
<1> QED
  BY <1>2, <1>3, <1>5, <1>6, <1>7 DEF Shape

LEMMA ScreensStep ==
    ASSUME Typing, Running, Queued(timers), HalfRead, Screens, [Next]_vars PROVE Screens'
<1>1. user' = session'
  BY SessionStep DEF Screens
<1>2. ASSUME NEW i \in DOMAIN timers', page' = "home", timers'[i].call \in {"login", "verifyPhone"}
      PROVE  \E j \in DOMAIN timers' : i < j /\ timers'[j].call = "listTransactions"
  BY <1>2, FetchingStep, StepShape
<1> QED
  BY <1>1, <1>2, OwnMoneyStep DEF Screens, Fetching

-------------------------------------------------------------------------------
(* The books.                                                              *)

Movement == [category : {"transfer", "topup"}, amount : Int]
Counted(history, categories) == {j \in DOMAIN history : history[j].category \in categories}

LEMMA SumIs ==
    ASSUME NEW history \in Movements, NEW categories
    PROVE  LET f == [i \in Counted(history, categories) |-> history[i].amount] IN
           /\ Sum(history, categories) = SumFunctionOnSet(f, Counted(history, categories))
           /\ IsFiniteSet(Counted(history, categories))
           /\ \A i \in Counted(history, categories) : f[i] = history[i].amount /\ f[i] \in Int
<1> DEFINE S == Counted(history, categories)
           f == [i \in S |-> history[i].amount]
<1>0. history \in Seq(Movement)
  BY DEF Movements, Movement
<1>1. Sum(history, categories) = SumFunctionOnSet(f, S)
  BY DEF Sum, SumFunction, Counted
<1>2. S \subseteq 1 .. Len(history) /\ Len(history) \in Nat
  BY <1>0 DEF Counted
<1>3. IsFiniteSet(S)
  BY <1>2, PositionsAreFinite
<1>4. \A i \in S : f[i] = history[i].amount /\ f[i] \in Int
  <2> SUFFICES ASSUME NEW i \in S PROVE history[i].amount \in Int
    OBVIOUS
  <2>1. history[i] \in Movement
    BY <1>0, <1>2
  <2> QED
    BY <2>1 DEF Movement
<1> QED
  BY <1>1, <1>3, <1>4

LEMMA SumGrows ==
    ASSUME NEW history \in Movements, NEW e \in Movement, NEW categories
    PROVE  /\ Sum(history, categories) \in Int
           /\ Sum(Append(history, e), categories)
                 = Sum(history, categories) + (IF e.category \in categories THEN e.amount ELSE 0)
<1> DEFINE longer == Append(history, e)
           n == Len(history) + 1
           S == Counted(history, categories)
           T == Counted(longer, categories)
           f == [i \in S |-> history[i].amount]
           g == [i \in T |-> longer[i].amount]
<1>0. history \in Seq(Movement)
  BY DEF Movements, Movement
<1>1. longer \in Movements
  BY <1>0 DEF Movements, Movement
<1>2. /\ Sum(history, categories) = SumFunctionOnSet(f, S) /\ IsFiniteSet(S)
      /\ \A i \in S : f[i] = history[i].amount /\ f[i] \in Int
  BY SumIs
<1>3. /\ Sum(longer, categories) = SumFunctionOnSet(g, T) /\ IsFiniteSet(T)
      /\ \A i \in T : g[i] = longer[i].amount /\ g[i] \in Int
  <2> HIDE DEF longer
  <2> QED
    BY <1>1, SumIs
<1>4. /\ DOMAIN longer = DOMAIN history \cup {n} /\ longer[n] = e /\ n \notin DOMAIN history
      /\ \A i \in DOMAIN history : longer[i] = history[i]
  BY <1>0
<1> HIDE DEF longer, n
<1>5. T = IF e.category \in categories THEN S \cup {n} ELSE S
  BY <1>4 DEF Counted
<1>6. n \notin S /\ S \subseteq DOMAIN history
  BY <1>4 DEF Counted
<1> HIDE DEF S, T, f, g
<1>7. SumFunctionOnSet(g, S) = SumFunctionOnSet(f, S)
  <2>1. \A i \in S : g[i] = f[i]
    BY <1>2, <1>3, <1>4, <1>5, <1>6
  <2> QED
    BY <1>2, <2>1, SumAgrees
<1>8. SumFunctionOnSet(f, S) \in Int
  BY <1>2, SumIsInt
<1>9. CASE e.category \in categories
  <2>1. T = S \cup {n} /\ g[n] = e.amount /\ g[n] \in Int
    BY <1>3, <1>4, <1>5, <1>9
  <2>2. SumFunctionOnSet(g, S \cup {n}) = SumFunctionOnSet(g, S) + g[n]
    BY <1>2, <1>3, <1>6, <2>1, SumAdds
  <2> QED
    BY <1>2, <1>3, <1>7, <1>8, <1>9, <2>1, <2>2 DEF longer
<1>10. CASE e.category \notin categories
  BY <1>2, <1>3, <1>5, <1>7, <1>8, <1>10 DEF longer
<1> QED
  BY <1>9, <1>10

LEMMA SumOfNone ==
    ASSUME NEW categories PROVE Sum(<<>>, categories) = 0 /\ <<>> \in Movements
<1>1. Counted(<<>>, categories) = {} /\ <<>> \in Movements
  BY DEF Counted, Movements
<1> QED
  BY <1>1, SumIs, SumOfNothing

(* What goes from one to the other leaves the sum as it was. *)
Exchanged(f, g, S, a, b, n) ==
    /\ a \in S /\ b \in S /\ a # b /\ n \in Int /\ IsFiniteSet(S)
    /\ \A x \in S : f[x] \in Int
    /\ g[a] = f[a] - n /\ g[b] = f[b] + n
    /\ \A x \in S \ {a, b} : g[x] = f[x]

LEMMA SumExchanges ==
    ASSUME NEW f, NEW g, NEW S, NEW a, NEW b, NEW n, Exchanged(f, g, S, a, b, n)
    PROVE  SumFunctionOnSet(g, S) = SumFunctionOnSet(f, S)
<1>0. /\ a \in S /\ b \in S /\ a # b /\ n \in Int /\ IsFiniteSet(S)
      /\ \A x \in S : f[x] \in Int
      /\ g[a] = f[a] - n /\ g[b] = f[b] + n
      /\ \A x \in S \ {a, b} : g[x] = f[x]
  BY DEF Exchanged
<1> DEFINE A == S \ {a}
           B == A \ {b}
<1>1. \A x \in S : g[x] \in Int
  BY <1>0, SMTT(30)
<1>2. IsFiniteSet(A) /\ IsFiniteSet(B)
  BY <1>0, FS_Subset
<1>3. SumFunctionOnSet(f, S) = f[a] + SumFunctionOnSet(f, A)
  BY <1>0, SumRemoves
<1>4. SumFunctionOnSet(g, S) = g[a] + SumFunctionOnSet(g, A)
  BY <1>0, <1>1, SumRemoves
<1>5. A \subseteq S /\ b \in A
  BY <1>0
<1> HIDE DEF A
<1>6. SumFunctionOnSet(f, A) = f[b] + SumFunctionOnSet(f, B)
  BY <1>0, <1>2, <1>5, SumRemoves
<1>7. SumFunctionOnSet(g, A) = g[b] + SumFunctionOnSet(g, B)
  BY <1>1, <1>2, <1>5, SumRemoves
<1>8. B \subseteq S \ {a, b}
  BY DEF A
<1> HIDE DEF B
<1>9. SumFunctionOnSet(g, B) = SumFunctionOnSet(f, B)
  BY <1>0, <1>2, <1>8, SumAgrees
<1>10. SumFunctionOnSet(f, B) \in Int
  BY <1>0, <1>2, <1>8, SumIsInt
<1> QED
  BY <1>0, <1>3, <1>4, <1>6, <1>7, <1>9, <1>10

Sent(u) == Sum(users[u].history, {"transfer"})
Wallet(u) == users[u].balance = Opening(u) + Sum(users[u].history, {"transfer", "topup"})
Net == SumFunction([u \in DOMAIN users |-> Sent(u)])

LEMMA NetIs ==
    ASSUME DatabaseTyped
    PROVE  /\ Net = SumFunctionOnSet([u \in DOMAIN users |-> Sent(u)], DOMAIN users)
           /\ IsFiniteSet(DOMAIN users) /\ \A u \in DOMAIN users : Sent(u) \in Int
<1>1. DOMAIN users = 1 .. Len(users) /\ Len(users) \in Nat /\ users \in Seq(Accounts)
  BY DEF DatabaseTyped
<1>2. IsFiniteSet(DOMAIN users)
  BY <1>1, PositionsAreFinite
<1>3. ASSUME NEW u \in DOMAIN users PROVE Sent(u) \in Int
  <2>1. users[u] \in Accounts
    BY <1>1
  <2>2. users[u].history \in Movements
    BY <2>1 DEF Accounts
  <2>3. [category |-> "topup", amount |-> 0] \in Movement
    BY DEF Movement
  <2> QED
    BY <2>2, <2>3, SumGrows DEF Sent
<1> QED
  BY <1>2, <1>3 DEF Net, SumFunction

(* The books of the mock. *)
Ledgers == (\A u \in DOMAIN users : Wallet(u)) /\ Net = 0

(* Nobody's wallet or history changes. *)
LEMMA BooksStay == ASSUME Ledgers, users' = users PROVE Ledgers'
BY DEF Ledgers, Wallet, Net, Sent, Sum, Opening

LEMMA TransferBooks ==
    ASSUME Typing, Running, Ledgers, NEW f \in Flows, Transferred(f) PROVE Ledgers'
<1> DEFINE r == Recipient(f)
           n == flow[f].amount
           debited == [category |-> "transfer", amount |-> -n]
           credited == [category |-> "transfer", amount |-> n]
           both == {"transfer", "topup"}
           S == DOMAIN users
           sent == [u \in S |-> Sent(u)]
           sentThen == [u \in S |-> Sum(users'[u].history, {"transfer"})]
<1>1. /\ session \in 1 .. Len(users) /\ r \in 1 .. Len(users) /\ r # session /\ n \in Nat
      /\ users' \in Seq(Accounts) /\ Len(users') = Len(users)
      /\ \A u \in 1 .. Len(users) : u \notin {session, r} => users'[u] = users[u]
      /\ users'[session].balance = users[session].balance - n
      /\ users'[r].balance = users[r].balance + n
      /\ users'[session].history = Append(users[session].history, debited)
      /\ users'[r].history = Append(users[r].history, credited)
  BY TransferMoves, SMTT(30)
<1>2. DatabaseTyped /\ users \in Seq(Accounts) /\ S = 1 .. Len(users) /\ DOMAIN users' = S
  <2>1. DatabaseTyped /\ users \in Seq(Accounts)
    BY DEF Typing, DatabaseTyped
  <2>3. users' \in Seq(Accounts) /\ Len(users') = Len(users)
    BY <1>1
  <2>4. S = 1 .. Len(users) /\ DOMAIN users' = S
    BY <2>1, <2>3
  <2> QED
    BY <2>1, <2>4
<1>3. debited \in Movement /\ credited \in Movement
      /\ debited.category = "transfer" /\ credited.category = "transfer"
      /\ debited.amount = -n /\ credited.amount = n
  <2>1. -n \in Int /\ n \in Int
    BY <1>1
  <2> HIDE DEF n
  <2>2. debited \in Movement /\ credited \in Movement
    BY <2>1 DEF Movement
  <2> QED
    BY <2>2
<1>4. /\ users[session] \in Accounts /\ users[r] \in Accounts
  BY <1>1, <1>2
<1>5. /\ users[session].history \in Movements /\ users[r].history \in Movements
      /\ users[session].balance \in Nat /\ users[r].balance \in Nat
  BY <1>4 DEF Accounts
<1> HIDE DEF r, n, debited, credited, S, both
<1>6. ASSUME NEW c \in {both, {"transfer"}}
      PROVE  /\ Sum(users[session].history, c) \in Int /\ Sum(users[r].history, c) \in Int
             /\ Sum(users'[session].history, c) = Sum(users[session].history, c) - n
             /\ Sum(users'[r].history, c) = Sum(users[r].history, c) + n
  <2>1. "transfer" \in c
    BY <1>6 DEF both
  <2>2. Sum(Append(users[session].history, debited), c)
           = Sum(users[session].history, c) + debited.amount
        /\ Sum(users[session].history, c) \in Int
    BY <1>3, <1>5, <2>1, SumGrows
  <2>3. Sum(Append(users[r].history, credited), c) = Sum(users[r].history, c) + credited.amount
        /\ Sum(users[r].history, c) \in Int
    BY <1>3, <1>5, <2>1, SumGrows
  <2> QED
    BY <1>1, <1>3, <2>2, <2>3
<1>7. ASSUME NEW u \in S PROVE users'[u].balance = Opening(u) + Sum(users'[u].history, both)
  <2>1. users[u].balance = Opening(u) + Sum(users[u].history, both) /\ Opening(u) \in Nat
    BY <1>7, AmountsAssumption DEF Ledgers, Wallet, S, Opening, both
  <2>2. CASE u = session
    <3>1. /\ users'[session].balance = users[session].balance - n
          /\ users[session].balance \in Nat /\ n \in Nat
      BY <1>1, <1>5
    <3>2. /\ Sum(users[session].history, both) \in Int
          /\ Sum(users'[session].history, both) = Sum(users[session].history, both) - n
      BY <1>6
    <3>3. users[session].balance = Opening(session) + Sum(users[session].history, both)
          /\ Opening(session) \in Nat
      BY <2>1, <2>2
    <3>4. users'[session].balance = Opening(session) + Sum(users'[session].history, both)
      BY <3>1, <3>2, <3>3
    <3> QED
      BY <2>2, <3>4
  <2>3. CASE u = r
    <3>1. /\ users'[r].balance = users[r].balance + n
          /\ users[r].balance \in Nat /\ n \in Nat
      BY <1>1, <1>5
    <3>2. /\ Sum(users[r].history, both) \in Int
          /\ Sum(users'[r].history, both) = Sum(users[r].history, both) + n
      BY <1>6
    <3>3. users[r].balance = Opening(r) + Sum(users[r].history, both)
          /\ Opening(r) \in Nat
      BY <2>1, <2>3
    <3>4. users'[r].balance = Opening(r) + Sum(users'[r].history, both)
      BY <3>1, <3>2, <3>3
    <3> QED
      BY <2>3, <3>4
  <2>4. CASE u \notin {session, r}
    BY <1>1, <1>2, <1>7, <2>1, <2>4
  <2> QED
    BY <2>2, <2>3, <2>4
<1>8. SumFunctionOnSet(sentThen, S) = 0
  <2>1. Net = SumFunctionOnSet(sent, S) /\ IsFiniteSet(S) /\ \A u \in S : Sent(u) \in Int
    BY <1>2, NetIs DEF S
  <2>2. Net = 0
    BY DEF Ledgers
  <2>3. /\ session \in S /\ r \in S /\ \A u \in S : sent[u] = Sent(u)
        /\ \A u \in S : sentThen[u] = Sum(users'[u].history, {"transfer"})
    BY <1>1, <1>2
  <2>4. sentThen[session] = sent[session] - n /\ sentThen[r] = sent[r] + n
    BY <1>6, <2>3 DEF Sent
  <2>5. \A u \in S \ {session, r} : sentThen[u] = sent[u]
    BY <1>1, <1>2, <2>3 DEF Sent
  <2>6. \A u \in S : sent[u] \in Int
    BY <2>1, <2>3
  <2> HIDE DEF sent, sentThen
  <2>7. SumFunctionOnSet(sentThen, S) = SumFunctionOnSet(sent, S)
    <3>1. n \in Int /\ session # r /\ IsFiniteSet(S)
      BY <1>1, <2>1
    <3>2. session \in S /\ r \in S
      BY <2>3
    <3>3. Exchanged(sent, sentThen, S, session, r, n)
      BY <3>1, <3>2, <2>4, <2>5, <2>6 DEF Exchanged
    <3> QED
      BY <3>3, SumExchanges
  <2> QED
    BY <2>1, <2>2, <2>7
<1>9. Net' = 0
  BY <1>2, <1>8 DEF Net, Sent, SumFunction, Sum
<1>11. \A u \in DOMAIN users' : users'[u].balance = Opening(u) + Sum(users'[u].history, both)
  BY <1>2, <1>7
<1> QED
  BY <1>9, <1>11 DEF Ledgers, Wallet, Net, Sent, Sum, Opening, both

LEMMA TopUpBooks ==
    ASSUME Typing, Ledgers, NEW f \in Flows, ToppedUp(f) PROVE Ledgers'
<1> DEFINE n == flow[f].amount
           credited == [category |-> "topup", amount |-> n]
           both == {"transfer", "topup"}
           S == DOMAIN users
           sent == [u \in S |-> Sent(u)]
           sentThen == [u \in S |-> Sum(users'[u].history, {"transfer"})]
<1>1. /\ session \in 1 .. Len(users) /\ n \in Nat
      /\ users' \in Seq(Accounts) /\ Len(users') = Len(users)
      /\ \A u \in 1 .. Len(users) : u # session => users'[u] = users[u]
      /\ users'[session].balance = users[session].balance + n
      /\ users'[session].history = Append(users[session].history, credited)
  BY TopUpMoves
<1>2. DatabaseTyped /\ users \in Seq(Accounts) /\ S = 1 .. Len(users) /\ DOMAIN users' = S
  BY <1>1 DEF Typing, DatabaseTyped
<1>3. credited \in Movement /\ credited.category = "topup" /\ credited.amount = n
  BY <1>1 DEF Movement
<1>4. users[session] \in Accounts
  BY <1>1, <1>2
<1>5. users[session].history \in Movements /\ users[session].balance \in Nat
  BY <1>4 DEF Accounts
<1> HIDE DEF n, credited, S, both
<1>6. /\ Sum(users[session].history, both) \in Int
      /\ Sum(users'[session].history, both) = Sum(users[session].history, both) + n
  BY <1>1, <1>3, <1>5, SumGrows DEF both
<1>7. /\ Sum(users[session].history, {"transfer"}) \in Int
      /\ Sum(users'[session].history, {"transfer"}) = Sum(users[session].history, {"transfer"})
  BY <1>1, <1>3, <1>5, SumGrows
<1>8. ASSUME NEW u \in S PROVE users'[u].balance = Opening(u) + Sum(users'[u].history, both)
  <2>1. users[u].balance = Opening(u) + Sum(users[u].history, both) /\ Opening(u) \in Nat
    BY <1>8, AmountsAssumption DEF Ledgers, Wallet, S, Opening, both
  <2>2. CASE u = session
    <3>1. /\ users'[session].balance = users[session].balance + n
          /\ users[session].balance \in Nat /\ n \in Nat
      BY <1>1, <1>5
    <3>2. /\ Sum(users[session].history, both) \in Int
          /\ Sum(users'[session].history, both) = Sum(users[session].history, both) + n
      BY <1>6
    <3>3. users[session].balance = Opening(session) + Sum(users[session].history, both)
          /\ Opening(session) \in Nat
      BY <2>1, <2>2
    <3>4. users'[session].balance = Opening(session) + Sum(users'[session].history, both)
      BY <3>1, <3>2, <3>3
    <3> QED
      BY <2>2, <3>4
  <2>3. CASE u # session
    BY <1>1, <1>2, <1>8, <2>1, <2>3
  <2> QED
    BY <2>2, <2>3
<1>9. SumFunctionOnSet(sentThen, S) = 0
  <2>1. Net = SumFunctionOnSet(sent, S) /\ IsFiniteSet(S)
    BY <1>2, NetIs DEF S
  <2>2. Net = 0
    BY DEF Ledgers
  <2>3. \A u \in S : sentThen[u] = sent[u]
    BY <1>1, <1>2, <1>7 DEF Sent
  <2> HIDE DEF sent, sentThen
  <2>4. SumFunctionOnSet(sentThen, S) = SumFunctionOnSet(sent, S)
    BY <2>1, <2>3, SumAgrees
  <2> QED
    BY <2>1, <2>2, <2>4
<1>10. Net' = 0
  BY <1>2, <1>9 DEF Net, Sent, SumFunction, Sum
<1>12. \A u \in DOMAIN users' : users'[u].balance = Opening(u) + Sum(users'[u].history, both)
  BY <1>2, <1>8
<1> QED
  BY <1>10, <1>12 DEF Ledgers, Wallet, Net, Sent, Sum, Opening, both

(* The first account is the seeded one: who verifies starts with nothing.  *)
LEMMA VerifyBooks ==
    ASSUME Typing, Running, Ledgers, Len(users) > 0, NEW f \in Flows, Verified(f)
    PROVE  Ledgers'
<1> DEFINE phone == pendings[flow[f].to].phone
           n == Len(users) + 1
           both == {"transfer", "topup"}
           S == DOMAIN users
           sent == [u \in S |-> Sent(u)]
           sentThen == [u \in S \cup {n} |-> Sum(users'[u].history, {"transfer"})]
<1>1. /\ users' \in Seq(Accounts) /\ Len(users') = n
      /\ \A u \in 1 .. Len(users) : users'[u] = users[u]
      /\ users'[n] = Account(phone, 0)
  BY VerifyAdds
<1>2. DatabaseTyped /\ users \in Seq(Accounts) /\ S = 1 .. Len(users) /\ Len(users) \in Nat
  BY DEF Typing, DatabaseTyped
<1>3. users'[n].balance = 0 /\ users'[n].history = <<>> /\ Opening(n) = 0
  BY <1>1, <1>2 DEF Account, Opening
<1>4. DOMAIN users' = S \cup {n} /\ n \notin S
  BY <1>1, <1>2
<1> HIDE DEF n, phone, S, both
<1>5. ASSUME NEW u \in S \cup {n}
      PROVE  users'[u].balance = Opening(u) + Sum(users'[u].history, both)
  <2>1. CASE u = n
    BY <1>3, <2>1, SumOfNone
  <2>2. CASE u # n
    <3>1. u \in S /\ users'[u] = users[u]
      BY <1>1, <1>2, <1>5, <2>2
    <3> QED
      BY <3>1 DEF Ledgers, Wallet, S, both
  <2> QED
    BY <2>1, <2>2
<1>6. SumFunctionOnSet(sentThen, S \cup {n}) = 0
  <2>1. Net = SumFunctionOnSet(sent, S) /\ IsFiniteSet(S) /\ \A u \in S : Sent(u) \in Int
    BY <1>2, NetIs DEF S
  <2>2. Net = 0
    BY DEF Ledgers
  <2>3. \A u \in S : sentThen[u] = sent[u] /\ sent[u] \in Int
    BY <1>1, <1>2, <2>1 DEF Sent
  <2>4. sentThen[n] = 0
    BY <1>3, SumOfNone
  <2> HIDE DEF sent, sentThen
  <2>5. SumFunctionOnSet(sentThen, S) = SumFunctionOnSet(sent, S)
    BY <2>1, <2>3, SumAgrees
  <2>51. SumFunctionOnSet(sentThen, S) = 0
    BY <2>1, <2>2, <2>5
  <2>6. \A u \in S \cup {n} : sentThen[u] \in Int
    BY <2>3, <2>4
  <2>7. SumFunctionOnSet(sentThen, S \cup {n}) = SumFunctionOnSet(sentThen, S) + sentThen[n]
    BY <1>4, <2>1, <2>6, SumAdds
  <2> QED
    BY <2>4, <2>51, <2>7
<1>7. Net' = 0
  BY <1>4, <1>6 DEF Net, Sent, SumFunction, Sum
<1>9. \A u \in DOMAIN users' : users'[u].balance = Opening(u) + Sum(users'[u].history, both)
  BY <1>4, <1>5
<1> QED
  BY <1>7, <1>9 DEF Ledgers, Wallet, Net, Sent, Sum, Opening, both

LEMMA BooksStep ==
    ASSUME Typing, Running, Ledgers, Len(users) > 0, [Next]_vars PROVE Ledgers'
<1>1. ASSUME NEW f \in Flows, LoginAnswered(f) \/ LoggedOut(f) \/ Registered(f) PROVE users' = users
  BY <1>1 DEF LoginAnswered, LoggedOut, Registered
<1>2. UNCHANGED mock => users' = users
  BY DEF mock
<1> QED
  BY <1>1, <1>2, BooksStay, TransferBooks, TopUpBooks, VerifyBooks, Quiet

(* A movement is written behind the others. *)
LEMMA PastOfAppend ==
    ASSUME NEW s \in Movements, NEW e PROVE Past(s, Append(s, e))
<1>1. s \in Seq(Movement)
  BY DEF Movements, Movement
<1> QED
  BY <1>1 DEF Past

LEMMA PastOfPast ==
    ASSUME NEW s \in Movements, NEW t \in Movements, NEW u \in Movements, Past(s, t), Past(t, u)
    PROVE  Past(s, u)
<1>1. s \in Seq(Movement) /\ t \in Seq(Movement) /\ u \in Seq(Movement)
  BY DEF Movements, Movement
<1> QED
  BY <1>1 DEF Past

LEMMA HistoriesGrow ==
    ASSUME Typing, Running, [Next]_vars, NEW u \in 1 .. Len(users)
    PROVE  Past(users[u].history, users'[u].history)
<1>1. users \in Seq(Accounts) /\ users[u] \in Accounts
  BY DEF Typing, DatabaseTyped
<1>2. users[u].history \in Movements
  BY <1>1 DEF Accounts
<1>3. CASE users'[u] = users[u]
  <2>1. users[u].history \in Seq(Movement)
    BY <1>2 DEF Movements, Movement
  <2> QED
    BY <1>3, <2>1 DEF Past
<1>4. UNCHANGED mock => users' = users
  BY DEF mock
<1>5. ASSUME NEW f \in Flows, LoginAnswered(f) \/ LoggedOut(f) \/ Registered(f) PROVE users' = users
  BY <1>5 DEF LoginAnswered, LoggedOut, Registered
<1>6. ASSUME NEW f \in Flows, Verified(f) PROVE users'[u] = users[u]
  BY <1>6, VerifyAdds
<1>7. ASSUME NEW f \in Flows, Transferred(f)
      PROVE  users'[u] = users[u] \/ \E e : users'[u].history = Append(users[u].history, e)
  <2>1. /\ \A v \in 1 .. Len(users) : v \notin {session, Recipient(f)} => users'[v] = users[v]
        /\ \E e : users'[session].history = Append(users[session].history, e)
        /\ \E e : users'[Recipient(f)].history = Append(users[Recipient(f)].history, e)
    BY <1>7, TransferMoves
  <2>2. CASE u \in {session, Recipient(f)}
    BY <2>1, <2>2
  <2>3. CASE u \notin {session, Recipient(f)}
    BY <2>1, <2>3
  <2> QED
    BY <2>2, <2>3
<1>8. ASSUME NEW f \in Flows, ToppedUp(f)
      PROVE  users'[u] = users[u] \/ \E e : users'[u].history = Append(users[u].history, e)
  BY <1>8, TopUpMoves
<1> QED
  BY <1>2, <1>3, <1>4, <1>5, <1>6, <1>7, <1>8, PastOfAppend, Quiet

LEMMA PageStep ==
    ASSUME Typing, Running, Queued(timers), HalfRead, PageIsPast, [Next]_vars
    PROVE  PageIsPast'
<1>0. /\ DatabaseTyped /\ DatabaseTyped' /\ StoresTyped
      /\ Len(users) \in Nat /\ Len(users') \in Nat /\ Len(users) <= Len(users')
  BY Grows DEF Typing
<1>1. \A u \in 1 .. Len(users) : users[u] \in Accounts /\ users'[u] \in Accounts
  BY <1>0 DEF DatabaseTyped
<1>2. \A u \in 1 .. Len(users) : users[u].history \in Movements /\ users'[u].history \in Movements
  BY <1>1 DEF Accounts
<1>3. CASE shown' = shown /\ shown.owner # 0
  <2>1. shown.owner \in 1 .. Len(users) /\ shown.history \in Movements
    BY <1>0, <1>3 DEF StoresTyped, Readings
  <2>2. Past(shown.history, users[shown.owner].history)
    BY <1>3 DEF PageIsPast
  <2>3. Past(users[shown.owner].history, users'[shown.owner].history)
    BY <2>1, HistoriesGrow
  <2>4. Past(shown.history, users'[shown.owner].history)
    BY <1>2, <2>1, <2>2, <2>3, PastOfPast
  <2> QED
    BY <1>3, <2>4 DEF PageIsPast, Past
<1>4. ASSUME NEW f \in Flows, Shows(f) PROVE PageIsPast'
  <2>1. flow[f].got.owner = session /\ session # 0 /\ users' = users
    BY <1>4 DEF Shows, HalfRead, Timer, mock
  <2>2. shown'.owner = session /\ shown'.history = users[session].history
    BY <1>4, <2>1, ReadIs DEF Shows
  <2>3. users[session].history \in Seq(Movement)
    BY <1>0, <2>1, SignedInUser DEF Movements, Movement
  <2>4. Past(shown'.history, users'[shown'.owner].history)
    BY <2>1, <2>2, <2>3 DEF Past
  <2> QED
    BY <2>4 DEF PageIsPast, Past
<1>5. CASE shown' = shown /\ shown.owner = 0
  BY <1>5 DEF PageIsPast
<1> QED
  BY <1>3, <1>4, <1>5, ShownStep

-------------------------------------------------------------------------------
(* The inductive invariant. *)

Seeded == Len(users) > 0

IInv ==
    /\ Typing /\ Running /\ Queued(timers) /\ HalfRead /\ OneForm /\ Numbered /\ Screens
    /\ PageIsPast /\ Ledgers /\ ReportIsTrue /\ Seeded

LEMMA InitInv == Init => IInv
<1> SUFFICES ASSUME Init PROVE IInv
  OBVIOUS
<1> DEFINE row == Account(DemoPhone, Demo)
<1>1. /\ DemoPhone \in Phones /\ Demo \in Nat /\ Phones \subseteq Nat
      /\ row.phone = DemoPhone /\ row.balance = Demo /\ row.history = <<>>
      /\ row \in Accounts
  BY PhonesAssumption, AmountsAssumption, SumOfNone DEF Account, Accounts
<1>2. /\ users = <<row>> /\ byPhone = [p \in Phones |-> IF p = DemoPhone THEN 1 ELSE 0]
      /\ pendings = <<>> /\ session = 0 /\ timers = <<>>
      /\ user = 0 /\ pending = 0 /\ loading = FALSE /\ shown = Unread /\ fetching = FALSE
      /\ flow = [f \in Flows |-> Nothing]
  BY DEF Init
<1> HIDE DEF row
<1>3. Len(users) = 1 /\ users \in Seq(Accounts) /\ DOMAIN users = {1} /\ users[1] = row
  BY <1>1, <1>2
<1>4. Unread \in Readings /\ Unread.owner = 0
  BY SumOfNone DEF Unread, Readings
<1>5. Nothing \in FlowStates
  BY <1>4, SumOfNone DEF Nothing, Begun, FlowStates, Ops
<1>6. DatabaseTyped
  <2>1. byPhone \in [Phones -> 0 .. Len(users)]
    BY <1>2, <1>3
  <2>2. pendings \in Seq(Registrations) /\ session \in 0 .. Len(users)
    BY <1>2, <1>3
  <2> QED
    BY <1>3, <2>1, <2>2 DEF DatabaseTyped
<1>7. StoresTyped
  <2>1. Len(pendings) = 0
    BY <1>2
  <2>2. shown \in Readings /\ shown.owner = 0
    BY <1>2, <1>4
  <2>3. user \in 0 .. Len(users) /\ pending \in 0 .. Len(pendings)
    BY <1>2, <1>3, <2>1
  <2>4. loading \in BOOLEAN /\ fetching \in BOOLEAN
    BY <1>2
  <2>5. shown.owner <= Len(users)
    BY <1>3, <2>2
  <2> QED
    BY <2>2, <2>3, <2>4, <2>5 DEF StoresTyped
<1>8. FlowsTyped
  <2>1. flow \in [Flows -> FlowStates]
    BY <1>2, <1>5
  <2>2. \A f \in Flows : flow[f].got.owner = 0
    BY <1>2, <1>4, NothingIs
  <2> QED
    BY <1>3, <2>1, <2>2 DEF FlowsTyped
<1>9. Typing
  BY <1>2, <1>6, <1>7, <1>8 DEF Typing
<1>10. DOMAIN timers = {} /\ Waiting = {}
  BY <1>2 DEF Waiting, ToSet
<1>11. Running /\ Queued(timers) /\ HalfRead /\ OneForm
  BY <1>10 DEF Running, Queued, HalfRead, OneForm
<1>12. Numbered /\ Screens
  BY <1>1, <1>2, <1>3, <1>10 DEF Numbered, Screens
<1>13. Ledgers
  <2>1. Wallet(1)
    BY <1>1, <1>3, SumOfNone DEF Wallet, Opening
  <2>2. Sent(1) = 0
    BY <1>1, <1>3, SumOfNone DEF Sent
  <2> DEFINE sent == [u \in DOMAIN users |-> Sent(u)]
  <2>3. Net = SumFunctionOnSet(sent, {1}) /\ sent[1] = 0
    BY <1>3, <1>6, <2>2, NetIs
  <2> HIDE DEF sent
  <2>4. SumFunctionOnSet(sent, {} \cup {1}) = SumFunctionOnSet(sent, {}) + sent[1]
    <3>1. IsFiniteSet({}) /\ 1 \notin {} /\ \A x \in {} \cup {1} : sent[x] \in Int
      BY <2>3, FS_EmptySet
    <3> QED
      BY <3>1, SumAdds
  <2>5. {} \cup {1} = {1}
    OBVIOUS
  <2>6. Net = 0
    BY <2>3, <2>4, <2>5, SumOfNothing
  <2> QED
    BY <1>3, <2>1, <2>6 DEF Ledgers
<1>14. ReportIsTrue
  BY <1>2, NothingIs DEF ReportIsTrue
<1>15. PageIsPast
  BY <1>2, <1>4 DEF PageIsPast
<1> QED
  BY <1>3, <1>9, <1>11, <1>12, <1>13, <1>14, <1>15 DEF IInv, Seeded

LEMMA StepInv == IInv /\ [Next]_vars => IInv'
<1> SUFFICES ASSUME IInv, [Next]_vars PROVE IInv'
  OBVIOUS
<1>1. /\ Typing /\ Running /\ Queued(timers) /\ HalfRead /\ OneForm /\ Numbered /\ Screens
      /\ PageIsPast /\ Ledgers /\ ReportIsTrue /\ Len(users) > 0
  BY DEF IInv, Seeded
<1>2. Typing' /\ Running' /\ Queued(timers)'
  BY <1>1, TypingStep
<1>3. HalfRead'
  BY <1>1, HalfReadStep
<1>4. OneForm'
  BY <1>1, OneFormStep, StepShape
<1>5. Numbered'
  BY <1>1, NumberedStep
<1>6. Screens'
  BY <1>1, ScreensStep
<1>7. Ledgers' /\ PageIsPast'
  BY <1>1, BooksStep, PageStep
<1>8. ReportIsTrue'
  BY <1>1, ReportStep
<1>9. Seeded'
  BY <1>1, Grows DEF Seeded
<1> QED
  BY <1>2, <1>3, <1>4, <1>5, <1>6, <1>7, <1>8, <1>9 DEF IInv

(* The inductive invariant holds of every behaviour of the web app. *)
THEOREM Invariance == Spec => []IInv
BY InitInv, StepInv, PTL DEF Spec

LEMMA InvTyped == IInv => TypeOK
<1> SUFFICES ASSUME IInv PROVE TypeOK
  OBVIOUS
<1>1. Typing /\ Running
  BY DEF IInv
<1>2. /\ users \in Seq([phone : Phones, balance : Nat, history : Movements])
      /\ byPhone \in [Phones -> 0 .. Len(users)]
      /\ pendings \in Seq([phone : Phones, live : BOOLEAN])
      /\ session \in 0 .. Len(users)
  BY <1>1 DEF Typing, DatabaseTyped, Accounts, Registrations
<1>3. /\ user \in 0 .. Len(users) /\ pending \in 0 .. Len(pendings)
      /\ loading \in BOOLEAN /\ fetching \in BOOLEAN
  BY <1>1 DEF Typing, StoresTyped
<1>4. shown \in [owner : 0 .. Len(users), history : Movements]
  <2>1. shown \in [owner : Nat, history : Movements] /\ shown.owner <= Len(users)
        /\ Len(users) \in Nat
    BY <1>1 DEF Typing, StoresTyped, DatabaseTyped, Readings
  <2> QED
    BY <2>1
<1>5. ASSUME NEW t \in ToSet(timers) PROVE t.flow \in Flows /\ flow[t.flow] # Nothing
  <2>1. t \in Waiting
    BY DEF Waiting
  <2>2. t.flow \in Flows /\ flow[t.flow].op # "none"
    BY <1>1, <2>1, WaitingTyped DEF Running, Runs
  <2> QED
    BY <2>2, NothingIs
<1> QED
  BY <1>2, <1>3, <1>4, <1>5 DEF TypeOK

(* The types: a balance is never negative, however payments overlap; and   *)
(* a call in the queue has a flow that waits for it.                       *)
THEOREM TypeCorrect == Spec => []TypeOK
BY Invariance, InvTyped, PTL

LEMMA InvBooks == IInv => BooksAgree
<1> SUFFICES ASSUME IInv PROVE BooksAgree
  OBVIOUS
<1>1. Typing /\ Screens /\ Ledgers /\ PageIsPast
  BY DEF IInv
<1>2. \A u \in DOMAIN users :
         users[u].balance = Opening(u) + Sum(users[u].history, {"transfer", "topup"})
  BY <1>1 DEF Ledgers, Wallet
<1>3. SumFunction([u \in DOMAIN users |-> Sum(users[u].history, {"transfer"})]) = 0
  BY <1>1 DEF Ledgers, Net, Sent
<1>4. ASSUME shown.owner # 0 PROVE IsPrefix(shown.history, users[shown.owner].history)
  <2>1. users \in Seq(Accounts) /\ shown.owner \in 1 .. Len(users) /\ shown.history \in Movements
    BY <1>1, <1>4 DEF Typing, DatabaseTyped, StoresTyped, Readings
  <2>2. users[shown.owner] \in Accounts
    BY <2>1
  <2>3. users[shown.owner].history \in Seq(Movement) /\ shown.history \in Seq(Movement)
    BY <2>1, <2>2 DEF Accounts, Movements, Movement
  <2>4. Past(shown.history, users[shown.owner].history)
    BY <1>1, <1>4 DEF PageIsPast
  <2> QED
    BY <2>3, <2>4 DEF Past, IsPrefix
<1>5. ASSUME user # 0, ~FetchesUnderWay
      PROVE  ShownBalance = Opening(shown.owner) + Sum(shown.history, {"transfer", "topup"})
  <2>1. shown.owner = user /\ shown.history = users[user].history
    BY <1>1, <1>5 DEF Screens, FetchesUnderWay, Waiting
  <2>2. user \in DOMAIN users
    BY <1>1, <1>5 DEF Typing, StoresTyped, DatabaseTyped
  <2> QED
    BY <1>2, <1>5, <2>1, <2>2 DEF ShownBalance
<1> QED
  BY <1>2, <1>3, <1>4, <1>5 DEF BooksAgree

(* The books of the mock agree, and the pages, which hold the wallet       *)
(* itself beside a copy of its history, never show a history that was not, *)
(* and agree with themselves whenever no fetchAll is under way.            *)
THEOREM BooksAlwaysAgree == Spec => []BooksAgree
BY Invariance, InvBooks, PTL

(* No number has two accounts, though verifyPhone does not look the number *)
(* up: only one form at a time is submitted.                               *)
THEOREM OneAccountEach == Spec => []OneAccountPerPhone
<1>1. IInv => OneAccountPerPhone
  BY DEF IInv, Numbered, OneAccountPerPhone
<1> QED
  BY <1>1, Invariance, PTL

(* Once no fetchAll is under way, who is signed in sees their own money.   *)
THEOREM MoneyIsOnesOwn == Spec => []ShowsOwnMoney
<1>1. IInv => ShowsOwnMoney
  BY DEF IInv, Screens, ShowsOwnMoney, FetchesUnderWay, Waiting
<1> QED
  BY <1>1, Invariance, PTL

(* What a submission reports is what it did. *)
THEOREM ReportsAreTrue == Spec => []ReportIsTrue
<1>1. IInv => ReportIsTrue
  BY DEF IInv
<1> QED
  BY <1>1, Invariance, PTL
===============================================================================
