-------------------------- MODULE Onboarding_proofs --------------------------
(***************************************************************************)
(* Theorems about sign-up and the limiter before it, for every number of   *)
(* handlers, phones, codes, clients and attempts, every budget and every   *)
(* length of a window.                                                     *)
(***************************************************************************)
EXTENDS Onboarding, FiniteSetTheorems, WellFoundedInduction, TLAPS

-------------------------------------------------------------------------------
(* The fixed-window limiter, on its own.                                   *)

(* The admissions s of a client whose window has counted k of them and     *)
(* ends at r, at the instant t: they are in the order of time; the window  *)
(* began with the first of the last k; whatever lies a whole budget before *)
(* it is more than a window older; and of a budget twice over, less one,   *)
(* the last is more than a window younger than the first.                  *)
Spread(s, k, r, t) ==
    /\ \A i, j \in 1..Len(s) : i <= j => s[i] <= s[j]
    /\ \A i \in 1..Len(s) : s[i] <= t
    /\ k <= Len(s) /\ k <= Limit
    /\ k = 0 => Len(s) = 0 /\ r < 0
    /\ k > 0 => s[Len(s) - k + 1] = r - Window
    /\ \A i \in 1..Len(s) : i <= Len(s) - k - Limit + 1 => s[i] < r - 2 * Window
    /\ \A i, j \in 1..Len(s) : j - i >= 2 * Limit - 1 => s[j] > s[i] + Window

LimiterInv ==
    /\ LimiterTypeOK
    /\ \A cl \in Clients :
          Spread(admitted[cl], counters[cl].count, counters[cl].reset, now)

(* One more admission, at t. *)
LEMMA SpreadGrows ==
    ASSUME NEW s \in Seq(Nat), NEW k \in Nat, NEW r \in Int, NEW t \in Nat,
           Spread(s, k, r, t), t > r \/ k < Limit
    PROVE  LET x == Append(s, t)
           IN IF t > r THEN Spread(x, 1, t + Window, t) ELSE Spread(x, k + 1, r, t)
<1> DEFINE n == Len(s)
<1> DEFINE x == Append(s, t)
<1> USE LimiterAssumption
<1>1. /\ n \in Nat /\ Len(x) = n + 1 /\ x[n + 1] = t /\ \A i \in 1..n : x[i] = s[i] /\ s[i] \in Nat
  OBVIOUS
<1> HIDE DEF x, n
<1>2. /\ \A i, j \in 1..n : i <= j => s[i] <= s[j]
      /\ \A i \in 1..n : s[i] <= t
      /\ k <= n /\ k <= Limit
      /\ k = 0 => n = 0 /\ r < 0
      /\ k > 0 => s[n - k + 1] = r - Window
      /\ \A i \in 1..n : i <= n - k - Limit + 1 => s[i] < r - 2 * Window
      /\ \A i, j \in 1..n : j - i >= 2 * Limit - 1 => s[j] > s[i] + Window
  BY DEF Spread, n
<1>3. /\ \A i, j \in 1..(n + 1) : i <= j => x[i] <= x[j]
      /\ \A i \in 1..(n + 1) : x[i] <= t
  <2>1. \A i \in 1..(n + 1) : x[i] <= t
    <3> SUFFICES ASSUME NEW i \in 1..(n + 1) PROVE x[i] <= t
      OBVIOUS
    <3>1. i = n + 1 \/ i \in 1..n
      BY <1>1
    <3> QED
      BY <1>1, <1>2, <3>1, SMTT(30)
  <2>2. ASSUME NEW i \in 1..(n + 1), NEW j \in 1..(n + 1), i <= j PROVE x[i] <= x[j]
    <3>1. CASE j = n + 1
      BY <1>1, <2>1, <3>1
    <3>2. CASE j # n + 1
      <4>1. i \in 1..n /\ j \in 1..n
        BY <1>1, <2>2, <3>2
      <4> QED
        BY <1>1, <1>2, <2>2, <4>1
    <3> QED
      BY <3>1, <3>2
  <2> QED
    BY <2>1, <2>2
(* What lies twice the budget, less one, before t is more than a window older. *)
<1>4. ASSUME NEW i \in 1..n, n + 1 - i >= 2 * Limit - 1 PROVE t > s[i] + Window
  <2>1. k > 0
    BY <1>1, <1>2
  <2>2. n - k + 1 \in 1..n /\ s[n - k + 1] = r - Window
    BY <1>1, <1>2, <2>1
  <2>3. CASE t > r
    <3>1. i <= n - k + 1
      BY <1>1, <1>2, <1>4
    <3>2. s[i] <= r - Window
      BY <1>2, <2>2, <3>1
    <3> QED
      BY <1>1, <2>3, <3>2
  <2>4. CASE ~(t > r)
    <3>1. k < Limit
      BY <2>4
    <3>2. i <= n - k - Limit + 1
      BY <1>1, <1>2, <1>4, <3>1
    <3>3. s[i] < r - 2 * Window /\ r - Window <= t
      BY <1>2, <2>2, <3>2
    <3> QED
      BY <1>1, <3>3
  <2> QED
    BY <2>3, <2>4
<1>5. \A i, j \in 1..(n + 1) : j - i >= 2 * Limit - 1 => x[j] > x[i] + Window
  <2> SUFFICES ASSUME NEW i \in 1..(n + 1), NEW j \in 1..(n + 1), j - i >= 2 * Limit - 1
               PROVE  x[j] > x[i] + Window
    OBVIOUS
  <2>1. i \in 1..n
    BY <1>1
  <2>2. CASE j = n + 1
    BY <1>1, <1>4, <2>1, <2>2
  <2>3. CASE j # n + 1
    <3>1. j \in 1..n
      BY <1>1, <2>3
    <3> QED
      BY <1>1, <1>2, <2>1, <3>1
  <2> QED
    BY <2>2, <2>3
<1>6. CASE t > r
  <2>1. ASSUME NEW i \in 1..(n + 1), i <= (n + 1) - 1 - Limit + 1
        PROVE  x[i] < (t + Window) - 2 * Window
    <3>1. i \in 1..n /\ k > 0
      BY <1>1, <1>2, <2>1
    <3>2. i <= n - k + 1 /\ n - k + 1 \in 1..n
      BY <1>1, <1>2, <2>1, <3>1
    <3>3. s[i] <= r - Window
      BY <1>2, <3>1, <3>2
    <3> QED
      BY <1>1, <1>6, <3>1, <3>3
  <2>2. x[(n + 1) - 1 + 1] = (t + Window) - Window
    BY <1>1
  <2>3. Spread(x, 1, t + Window, t)
    BY <1>1, <1>3, <1>5, <2>1, <2>2 DEF Spread
  <2> QED
    BY <1>6, <2>3 DEF x
<1>7. CASE ~(t > r)
  <2>1. k > 0 /\ k < Limit
    BY <1>2, <1>7
  <2>2. x[(n + 1) - (k + 1) + 1] = r - Window
    BY <1>1, <1>2, <2>1
  <2>3. ASSUME NEW i \in 1..(n + 1), i <= (n + 1) - (k + 1) - Limit + 1
        PROVE  x[i] < r - 2 * Window
    <3>1. i \in 1..n /\ i <= n - k - Limit + 1
      BY <1>1, <2>1, <2>3
    <3> QED
      BY <1>1, <1>2, <3>1
  <2>4. Spread(x, k + 1, r, t)
    BY <1>1, <1>2, <1>3, <1>5, <2>1, <2>2, <2>3 DEF Spread
  <2> QED
    BY <1>7, <2>4 DEF x
<1> QED
  BY <1>6, <1>7

-------------------------------------------------------------------------------
(* The steps of the limiter.                                               *)

LEMMA LimiterTypes ==
    ASSUME LimiterTypeOK, NEW cl \in Clients
    PROVE  /\ now \in Nat /\ admitted[cl] \in Seq(Nat)
           /\ counters[cl].count \in Nat /\ counters[cl].reset \in Int
BY LimiterAssumption DEF LimiterTypeOK

LEMMA LimiterInvInit == LimiterInit => LimiterInv
<1> SUFFICES ASSUME LimiterInit PROVE LimiterInv
  OBVIOUS
<1>1. LimiterTypeOK
  <2>1. /\ NoWindow \in [count : 0..Limit, reset : -1..(LastTick + Window)]
        /\ << >> \in Seq(0..LastTick)
    BY LimiterAssumption DEF NoWindow
  <2> QED
    BY <2>1, LimiterAssumption DEF LimiterInit, LimiterTypeOK
<1>2. ASSUME NEW cl \in Clients
      PROVE  Spread(admitted[cl], counters[cl].count, counters[cl].reset, now)
  BY LimiterAssumption DEF LimiterInit, NoWindow, Spread
<1> QED
  BY <1>1, <1>2 DEF LimiterInv

LEMMA AdmitKeeps ==
    ASSUME LimiterInv, NEW cl \in Clients, Admit(cl)
    PROVE  LimiterInv'
<1> USE LimiterAssumption
<1>1. counters[cl] \in [count : 0..Limit, reset : -1..(LastTick + Window)]
  BY DEF LimiterInv, LimiterTypeOK
<1>2. Counted(cl) \in [count : 0..Limit, reset : -1..(LastTick + Window)]
  <2>1. now \in 0..LastTick /\ Allow(cl)
    BY DEF Admit, LimiterInv, LimiterTypeOK
  <2>2. CASE Fresh(cl)
    BY <2>1, <2>2 DEF Counted
  <2>3. CASE ~Fresh(cl)
    BY <1>1, <2>1, <2>3 DEF Counted, Allow
  <2> QED
    BY <2>2, <2>3
<1>3. LimiterTypeOK'
  <2>1. counters' \in [Clients -> [count : 0..Limit, reset : -1..(LastTick + Window)]]
    BY <1>2 DEF Admit, LimiterInv, LimiterTypeOK
  <2>2. Append(admitted[cl], now) \in Seq(0..LastTick)
    BY DEF LimiterInv, LimiterTypeOK
  <2>3. admitted' \in [Clients -> Seq(0..LastTick)]
    BY <2>2 DEF Admit, LimiterInv, LimiterTypeOK
  <2> QED
    BY <2>1, <2>3 DEF Admit, LimiterInv, LimiterTypeOK
<1>4. /\ counters'[cl] = Counted(cl) /\ admitted'[cl] = Append(admitted[cl], now)
      /\ now' = now
      /\ \A c \in Clients \ {cl} : counters'[c] = counters[c] /\ admitted'[c] = admitted[c]
  BY DEF Admit, LimiterInv, LimiterTypeOK
<1>5. Spread(admitted[cl], counters[cl].count, counters[cl].reset, now)
  BY DEF LimiterInv
<1>6. Spread(admitted'[cl], counters'[cl].count, counters'[cl].reset, now')
  <2>1. /\ now \in Nat /\ admitted[cl] \in Seq(Nat)
        /\ counters[cl].count \in Nat /\ counters[cl].reset \in Int
    BY LimiterTypes DEF LimiterInv
  <2>2. now > counters[cl].reset \/ counters[cl].count < Limit
    BY DEF Admit, Allow, Fresh
  <2>3. CASE now > counters[cl].reset
    <3>1. counters'[cl].count = 1 /\ counters'[cl].reset = now + Window
      BY <1>4, <2>3 DEF Counted, Fresh
    <3>2. Spread(Append(admitted[cl], now), 1, now + Window, now)
      BY <1>5, <2>1, <2>3, SpreadGrows
    <3> QED
      BY <1>4, <3>1, <3>2
  <2>4. CASE ~(now > counters[cl].reset)
    <3>1. /\ counters'[cl].count = counters[cl].count + 1
          /\ counters'[cl].reset = counters[cl].reset
      BY <1>1, <1>4, <2>4 DEF Counted, Fresh
    <3>2. Spread(Append(admitted[cl], now), counters[cl].count + 1, counters[cl].reset, now)
      BY <1>5, <2>1, <2>2, <2>4, SpreadGrows
    <3> QED
      BY <1>4, <3>1, <3>2
  <2> QED
    BY <2>3, <2>4
<1>7. ASSUME NEW c \in Clients, c # cl
      PROVE  Spread(admitted'[c], counters'[c].count, counters'[c].reset, now')
  BY <1>4, <1>7 DEF LimiterInv
<1> QED
  BY <1>3, <1>6, <1>7 DEF LimiterInv

LEMMA TickKeeps ==
    ASSUME LimiterInv, Tick
    PROVE  LimiterInv'
<1>1. LimiterTypeOK' /\ now \in Nat /\ now' = now + 1 /\ UNCHANGED <<counters, admitted>>
  BY LimiterAssumption DEF Tick, LimiterInv, LimiterTypeOK
<1>2. ASSUME NEW cl \in Clients
      PROVE  Spread(admitted[cl], counters[cl].count, counters[cl].reset, now')
  <2>1. admitted[cl] \in Seq(Nat)
    BY LimiterTypes DEF LimiterInv
  <2>2. Spread(admitted[cl], counters[cl].count, counters[cl].reset, now)
    BY DEF LimiterInv
  <2>3. \A i \in 1..Len(admitted[cl]) : admitted[cl][i] \in Nat /\ admitted[cl][i] <= now
    BY <2>1, <2>2 DEF Spread
  <2>4. \A i \in 1..Len(admitted[cl]) : admitted[cl][i] <= now'
    BY <1>1, <2>3
  <2> QED
    BY <2>2, <2>4 DEF Spread
<1> QED
  BY <1>1, <1>2 DEF LimiterInv

LEMMA NewLimiterKeeps ==
    ASSUME LimiterInv, NewLimiter
    PROVE  LimiterInv'
<1> USE LimiterAssumption
<1>1. LimiterTypeOK'
  <2>1. /\ NoWindow \in [count : 0..Limit, reset : -1..(LastTick + Window)]
        /\ << >> \in Seq(0..LastTick)
    BY DEF NoWindow
  <2> QED
    BY <2>1 DEF NewLimiter, LimiterInv, LimiterTypeOK
<1>2. ASSUME NEW cl \in Clients
      PROVE  Spread(admitted'[cl], counters'[cl].count, counters'[cl].reset, now')
  BY DEF NewLimiter, NoWindow, Spread
<1> QED
  BY <1>1, <1>2 DEF LimiterInv

LEMMA LimiterFrame ==
    ASSUME LimiterInv, UNCHANGED limiter
    PROVE  LimiterInv'
BY DEF LimiterInv, LimiterTypeOK, limiter

-------------------------------------------------------------------------------
(* What the limiter promises.                                              *)

LEMMA LeastIndex ==
    ASSUME NEW S, S \subseteq Nat, S # {}
    PROVE  \E m \in S : \A v \in S : m <= v
<1>1. PICK x \in S : \A y \in S : ~ (<<y, x>> \in OpToRel(<, Nat))
  BY NatLessThanWellFounded, WFMin
<1>2. ASSUME NEW y \in S PROVE x <= y
  <2>1. ~(y < x)
    BY <1>1 DEF OpToRel
  <2> QED
    BY <2>1
<1> QED
  BY <1>2

LEMMA IntervalSize ==
    ASSUME NEW a \in Int, NEW b \in Int, a <= b
    PROVE  IsFiniteSet(a..b) /\ Cardinality(a..b) = b - a + 1
<1>1. IsFiniteSet(a..b) /\ Cardinality(a..b) = IF a > b THEN 0 ELSE b - a + 1
  BY FS_Interval
<1> QED
  BY <1>1

(* The admissions within a window's length are fewer than twice the budget *)
(* because the first and the last of them lie closer together.             *)
LEMMA BudgetIsKept == LimiterInv => BudgetKept
<1> SUFFICES ASSUME LimiterInv, NEW cl \in Clients, NEW t \in 0..now
             PROVE  AdmittedFrom(cl, t) < 2 * Limit
  BY DEF BudgetKept
<1> DEFINE s == admitted[cl]
<1> DEFINE n == Len(s)
<1> DEFINE S == {i \in DOMAIN s : s[i] \in t..(t + Window)}
<1> USE LimiterAssumption
<1>1. s \in Seq(Nat) /\ n \in Nat /\ DOMAIN s = 1..n /\ now \in Nat
  BY LimiterTypes DEF LimiterInv
<1>2. \A i, j \in 1..n : j - i >= 2 * Limit - 1 => s[j] > s[i] + Window
  BY DEF LimiterInv, Spread
<1>3. S \subseteq Nat /\ S \subseteq 1..n
  BY <1>1
<1>4. CASE S = {}
  <2>1. Cardinality(S) = 0
    BY <1>4, FS_EmptySet
  <2> QED
    BY <2>1 DEF AdmittedFrom
<1>5. CASE S # {}
  <2>1. PICK m \in S : \A v \in S : m <= v
    BY <1>3, <1>5, LeastIndex
  <2> DEFINE last == m + 2 * Limit - 2
  <2>2. m \in Nat /\ last \in Int /\ m <= last /\ last - m + 1 = 2 * Limit - 1
    BY <1>3
  <2>3. \A j \in S : j <= last /\ j >= m /\ j \in Int
    <3> SUFFICES ASSUME NEW j \in S PROVE j <= last /\ j >= m /\ j \in Int
      OBVIOUS
    <3>1. j \in 1..n /\ m \in 1..n /\ j >= m
      BY <1>3, <2>1
    <3>2. s[j] \in t..(t + Window) /\ s[m] \in t..(t + Window) /\ t \in Nat
      BY <1>1
    <3>3. ~(s[j] > s[m] + Window)
      BY <3>2
    <3>4. ~(j - m >= 2 * Limit - 1)
      BY <1>2, <3>1, <3>3
    <3> QED
      BY <3>1, <3>4
  <2> HIDE DEF last, S
  <2>4. S \in SUBSET (m..last)
    BY <2>3
  <2>5. IsFiniteSet(m..last) /\ Cardinality(m..last) = 2 * Limit - 1
    <3>1. IsFiniteSet(m..last) /\ Cardinality(m..last) = last - m + 1
      BY <2>2, IntervalSize
    <3> QED
      BY <2>2, <3>1
  <2>6. IsFiniteSet(S) /\ Cardinality(S) <= Cardinality(m..last)
    BY <2>4, <2>5, FS_Subset
  <2>7. Cardinality(S) \in Nat
    BY <2>6, FS_CardinalityType
  <2>8. Cardinality(S) < 2 * Limit
    BY <2>5, <2>6, <2>7
  <2> QED
    BY <2>8 DEF AdmittedFrom, S
<1> QED
  BY <1>4, <1>5

LEMMA RefusalHasCause ==
    ASSUME LimiterInv, NEW cl \in Clients, Refuse(cl)
    PROVE  RefusedForCause(cl)
<1> DEFINE s == admitted[cl]
<1> DEFINE n == Len(s)
<1> DEFINE r == counters[cl].reset
<1> DEFINE S == {i \in DOMAIN s : s[i] \in (now - Window)..((now - Window) + Window)}
<1> USE LimiterAssumption
<1>1. /\ s \in Seq(Nat) /\ n \in Nat /\ DOMAIN s = 1..n /\ now \in Nat /\ r \in Int
      /\ counters[cl].count \in 0..Limit
  BY LimiterTypes DEF LimiterInv, LimiterTypeOK
<1>2. counters[cl].count = Limit /\ now <= r
  BY <1>1 DEF Refuse, Allow, Fresh
<1>3. /\ \A i, j \in 1..n : i <= j => s[i] <= s[j]
      /\ \A i \in 1..n : s[i] <= now
      /\ Limit <= n /\ s[n - Limit + 1] = r - Window
  BY <1>2 DEF LimiterInv, Spread
<1>4. \A i \in 1..n : s[i] \in Nat
  BY <1>1
<1> HIDE DEF s, n, r
<1>5. (n - Limit + 1)..n \subseteq S
  <2> SUFFICES ASSUME NEW i \in (n - Limit + 1)..n PROVE i \in S
    OBVIOUS
  <2>1. i \in 1..n /\ n - Limit + 1 \in 1..n /\ n - Limit + 1 <= i
    BY <1>1, <1>3
  <2>2. s[i] \in Nat /\ s[n - Limit + 1] <= s[i] /\ s[i] <= now
    BY <1>3, <1>4, <2>1
  <2>3. s[i] \in (now - Window)..((now - Window) + Window)
    BY <1>1, <1>2, <1>3, <2>2
  <2> QED
    BY <1>1, <2>1, <2>3
<1> DEFINE first == n - Limit + 1
<1>6. first \in Int /\ first <= n /\ n - first + 1 = Limit /\ S \subseteq 1..n
  BY <1>1
<1>7. first..n \subseteq S
  BY <1>5
<1> HIDE DEF first, S
<1>8. Cardinality(first..n) = Limit
  BY <1>1, <1>6, IntervalSize
<1>9. IsFiniteSet(S)
  <2>1. IsFiniteSet(1..n)
    BY <1>1, FS_Interval
  <2> QED
    BY <1>6, <2>1, FS_Subset
<1>10. Cardinality(S) >= Limit
  <2>1. Cardinality(first..n) <= Cardinality(S) /\ Cardinality(S) \in Nat
    BY <1>7, <1>9, FS_Subset, FS_CardinalityType
  <2> QED
    BY <1>8, <2>1
<1> QED
  BY <1>10 DEF RefusedForCause, AdmittedFrom, S, s

-------------------------------------------------------------------------------
(* Sign-up: what its tables and its handlers hold.                         *)

Places == {"idle", "find", "create", "save", "send", "reply",
           "active", "miss", "consume", "verify", "mint", "login"}

User == [phone : Phones, verified : BOOLEAN]

Challenge ==
    [phone : Phones, code : Codes, attempts : Nat, consumed : BOOLEAN,
     expired : BOOLEAN, sent : BOOLEAN, misses : Nat, uses : Nat]

Call ==
    [op : {"none", "register", "resend", "verify", "login", "mistyped"}, user : Nat,
     phone : Phones \cup {None}, code : Codes \cup {None}]

Tables ==
    /\ users \in Seq(User)
    /\ challenges \in Seq(Challenge)
    /\ sessions \in Seq(Nat) /\ Len(sessions) = Len(users)
    /\ known \subseteq DOMAIN users

Handlers ==
    /\ place \in [Procs -> Places]
    /\ call \in [Procs -> Call]
    /\ seen \in [Procs -> Nat]

(* What a handler at a statement relies on: the user and the challenge it  *)
(* works on are there, of its phone, and as its earlier statements left    *)
(* them.                                                                   *)
HandlerOK(p) ==
    /\ call[p].user \in {0} \cup DOMAIN users
    /\ seen[p] \in {0} \cup DOMAIN challenges
    /\ place[p] # "idle" => call[p].phone \in Phones
    /\ place[p] \in {"save", "send", "reply", "active", "miss", "consume", "verify", "mint"} =>
          call[p].user # 0
    /\ call[p].user # 0 => users[call[p].user].phone = call[p].phone
    /\ place[p] \in {"send", "miss", "consume", "verify"} =>
          seen[p] # 0 /\ challenges[seen[p]].phone = call[p].phone
    /\ place[p] = "verify" => challenges[seen[p]].consumed
    /\ place[p] = "mint" => users[call[p].user].verified

OInv ==
    /\ Tables
    /\ Handlers
    /\ \A p \in Procs : HandlerOK(p)
    /\ OneUserPerPhone
    /\ NoSessionBeforeVerification

-------------------------------------------------------------------------------
(* Rows.                                                                   *)

LEMMA RowUpdated ==
    ASSUME NEW R, NEW s \in Seq(R), NEW i \in DOMAIN s, NEW x \in R
    PROVE  /\ [s EXCEPT ![i] = x] \in Seq(R)
           /\ DOMAIN [s EXCEPT ![i] = x] = DOMAIN s
           /\ Len([s EXCEPT ![i] = x]) = Len(s)
OBVIOUS

LEMMA RowAppended ==
    ASSUME NEW R, NEW s \in Seq(R), NEW x \in R
    PROVE  /\ Append(s, x) \in Seq(R) /\ Len(Append(s, x)) = Len(s) + 1
           /\ DOMAIN Append(s, x) = DOMAIN s \cup {Len(s) + 1}
           /\ Append(s, x)[Len(s) + 1] = x
           /\ \A i \in DOMAIN s : Append(s, x)[i] = s[i]
<1>1. DOMAIN s = 1..Len(s) /\ Len(s) \in Nat
  OBVIOUS
<1>2. /\ Append(s, x) \in Seq(R) /\ Len(Append(s, x)) = Len(s) + 1
      /\ Append(s, x)[Len(s) + 1] = x
      /\ \A i \in DOMAIN s : Append(s, x)[i] = s[i]
  OBVIOUS
<1>3. DOMAIN Append(s, x) = 1..(Len(s) + 1)
  BY <1>2
<1> QED
  BY <1>1, <1>2, <1>3

(* The newest challenge that Active finds is one of the phone, unconsumed. *)
LEMMA ActiveIsFound ==
    ASSUME Tables, NEW ph
    PROVE  Active(ph) \in {0} \cup {c \in DOMAIN challenges :
                             challenges[c].phone = ph /\ ~challenges[c].consumed}
<1> DEFINE n == Len(challenges)
<1> DEFINE S == {0} \cup {c \in DOMAIN challenges : /\ challenges[c].phone = ph
                                                   /\ ~challenges[c].consumed}
<1>1. n \in Nat /\ DOMAIN challenges = 1..n /\ S \subseteq 0..n
  BY DEF Tables
<1> DEFINE T == {n - c : c \in S}
<1>2. T \subseteq Nat /\ T # {}
  BY <1>1
<1>3. PICK x \in T : \A y \in T : ~ (<<y, x>> \in OpToRel(<, Nat))
  BY <1>2, NatLessThanWellFounded, WFMin
<1>4. PICK m \in S : x = n - m
  BY <1>3
<1>5. \A c \in S : m >= c
  <2> SUFFICES ASSUME NEW c \in S PROVE m >= c
    OBVIOUS
  <2>1. n - c \in T /\ n - c \in Nat /\ x \in Nat
    BY <1>2
  <2>2. ~(n - c < x)
    BY <1>3, <2>1 DEF OpToRel
  <2> QED
    BY <1>1, <1>4, <2>1, <2>2
<1>6. Max(S) \in S
  BY <1>5 DEF Max
<1> QED
  BY <1>6 DEF Active

LEMMA ActiveIsOfPhone ==
    ASSUME Tables, NEW ph, Active(ph) # 0
    PROVE  Active(ph) \in DOMAIN challenges /\ challenges[Active(ph)].phone = ph
BY ActiveIsFound

LEMMA ActiveIsUnconsumed ==
    ASSUME Tables, NEW ph, Active(ph) # 0
    PROVE  ~challenges[Active(ph)].consumed
BY ActiveIsFound

-------------------------------------------------------------------------------
(* A step of one handler leaves what is said of the others.                *)

(* No row goes away, changes its phone, or takes a verification back. *)
Advanced ==
    /\ \A u \in DOMAIN users :
          /\ u \in DOMAIN users' /\ users'[u].phone = users[u].phone
          /\ users[u].verified => users'[u].verified
    /\ \A c \in DOMAIN challenges :
          /\ c \in DOMAIN challenges' /\ challenges'[c].phone = challenges[c].phone
          /\ challenges[c].consumed => challenges'[c].consumed

Same(q) == place'[q] = place[q] /\ call'[q] = call[q] /\ seen'[q] = seen[q]

LEMMA HandlerFrame ==
    ASSUME NEW q \in Procs, HandlerOK(q), Same(q), Advanced
    PROVE  HandlerOK(q)'
BY DEF HandlerOK, Same, Advanced

(* A handler moves, and the tables with it. *)
LEMMA ActorMoves ==
    ASSUME OInv, NEW p \in Procs, Tables', Handlers', HandlerOK(p)', Advanced,
           \A q \in Procs \ {p} : Same(q),
           OneUserPerPhone', NoSessionBeforeVerification'
    PROVE  OInv'
BY HandlerFrame DEF OInv

LEMMA TablesStay ==
    ASSUME OInv, NEW p \in Procs, UNCHANGED tables, known' \subseteq DOMAIN users,
           Handlers', HandlerOK(p)', \A q \in Procs \ {p} : Same(q)
    PROVE  OInv'
<1>1. Tables' /\ Advanced
  BY DEF OInv, Tables, Advanced, tables
<1>2. OneUserPerPhone' /\ NoSessionBeforeVerification'
  BY DEF OInv, OneUserPerPhone, NoSessionBeforeVerification, tables
<1> QED
  BY <1>1, <1>2, ActorMoves

(* A row of challenges is added or changed. *)
LEMMA ChallengesMove ==
    ASSUME OInv, NEW p \in Procs, UNCHANGED <<users, sessions, known>>,
           challenges' \in Seq(Challenge), Advanced,
           Handlers', HandlerOK(p)', \A q \in Procs \ {p} : Same(q)
    PROVE  OInv'
<1>1. Tables'
  BY DEF OInv, Tables
<1>2. OneUserPerPhone' /\ NoSessionBeforeVerification'
  BY DEF OInv, OneUserPerPhone, NoSessionBeforeVerification, Advanced
<1> QED
  BY <1>1, <1>2, ActorMoves

LEMMA RespondLeavesIdle ==
    ASSUME OInv, NEW p \in Procs, NEW result, Respond(p, result)
    PROVE  /\ Handlers' /\ HandlerOK(p)'
           /\ \A q \in Procs \ {p} : Same(q)
<1>1. /\ Handlers' /\ place'[p] = "idle" /\ call'[p] = Idle /\ seen'[p] = 0
      /\ \A q \in Procs \ {p} : Same(q)
  BY DEF OInv, Handlers, Places, Call, Idle, Respond, Goto, Same
<1> QED
  BY <1>1 DEF HandlerOK, Idle

(* A handler goes on to its next statement, with what it knows. *)
LEMMA GotoMoves ==
    ASSUME OInv, NEW p \in Procs, NEW where \in Places, Goto(p, where), UNCHANGED call
    PROVE  /\ place' \in [Procs -> Places] /\ place'[p] = where
           /\ \A q \in Procs \ {p} : place'[q] = place[q]
BY DEF OInv, Handlers, Goto

-------------------------------------------------------------------------------
(* The statements.                                                         *)

LEMMA ServeStep ==
    ASSUME OInv, NEW p \in Procs, NEW c \in Call, NEW where \in Places, Serve(p, c, where),
           c.phone \in Phones, c.user \in {0} \cup DOMAIN users,
           where \in {"find", "login"} \/ c.user # 0,
           c.user # 0 => users[c.user].phone = c.phone,
           where \in {"find", "login", "save", "active"}
    PROVE  OInv'
<1> USE DEF Serve
<1>1. /\ Handlers' /\ place'[p] = where /\ call'[p] = c /\ seen'[p] = seen[p]
      /\ \A q \in Procs \ {p} : Same(q)
  BY DEF OInv, Handlers, Goto, Same
<1>2. UNCHANGED tables /\ known' \subseteq DOMAIN users
  BY DEF OInv, Tables
<1>3. HandlerOK(p)'
  BY <1>1, <1>2 DEF OInv, HandlerOK, tables
<1> QED
  BY <1>1, <1>2, <1>3, TablesStay

LEMMA RequestStep ==
    ASSUME OInv, NEW p \in Procs, Request(p)
    PROVE  OInv'
<1> USE DEF Places
<1>1. CASE Throttled(p)
  BY <1>1, TablesStay DEF Throttled, OInv, Tables, Handlers, HandlerOK, Same, tables
<1>2. ASSUME NEW ph \in Phones, Register(p, ph) PROVE OInv'
  BY <1>2, ServeStep DEF Register, Idle, Call
<1>3. ASSUME NEW ph \in Phones, NEW right \in BOOLEAN, Login(p, ph, right) PROVE OInv'
  <2> DEFINE c == [Idle EXCEPT !.op = IF right THEN "login" ELSE "mistyped", !.phone = ph]
  <2>1. c \in Call /\ c.phone = ph /\ c.user = 0
    BY DEF Idle, Call
  <2>2. Serve(p, c, "login")
    BY <1>3 DEF Login
  <2> HIDE DEF c
  <2> QED
    BY <2>1, <2>2, ServeStep
<1>4. ASSUME NEW u \in known PROVE u \in DOMAIN users /\ u \in Nat \ {0} /\ users[u].phone \in Phones
  <2>1. u \in DOMAIN users /\ users \in Seq(User)
    BY DEF OInv, Tables
  <2>2. users[u] \in User /\ u \in Nat \ {0}
    BY <2>1
  <2> QED
    BY <2>1, <2>2 DEF User
<1>5. ASSUME NEW u \in known, Resend(p, u) PROVE OInv'
  BY <1>4, <1>5, ServeStep DEF Resend, Idle, Call
<1>6. ASSUME NEW u \in known, NEW code \in Codes, Verify(p, u, code) PROVE OInv'
  BY <1>4, <1>6, ServeStep DEF Verify, Call
<1> QED
  BY <1>1, <1>2, <1>3, <1>5, <1>6 DEF Request

(* A reply that changes no table. *)
LEMMA RespondStep ==
    ASSUME OInv, NEW p \in Procs, NEW result, Respond(p, result), UNCHANGED tables,
           known' \subseteq DOMAIN users
    PROVE  OInv'
BY RespondLeavesIdle, TablesStay

LEMMA ReadStep ==
    ASSUME OInv, NEW p \in Procs, PhoneAbsent(p) \/ LoginAccepted(p) \/ RightCode(p)
    PROVE  OInv'
<1> USE DEF Places
<1>1. known' \subseteq DOMAIN users /\ UNCHANGED tables
  BY DEF PhoneAbsent, LoginAccepted, RightCode, OInv, Tables
<1>2. CASE PhoneAbsent(p)
  <2>1. Handlers' /\ HandlerOK(p)' /\ \A q \in Procs \ {p} : Same(q)
    BY <1>2, GotoMoves DEF PhoneAbsent, OInv, Handlers, HandlerOK, Same, tables
  <2> QED
    BY <1>1, <2>1, TablesStay
<1>3. CASE LoginAccepted(p)
  <2>1. PICK u \in DOMAIN users : MayLogIn(p, u) /\ call' = [call EXCEPT ![p].user = u]
    BY <1>3 DEF LoginAccepted
  <2>2. u \in Nat \ {0}
    BY DEF OInv, Tables
  <2>3. /\ Handlers' /\ place'[p] = "mint" /\ call'[p] = [call[p] EXCEPT !.user = u]
        /\ seen'[p] = seen[p] /\ call[p].phone \in Phones
        /\ \A q \in Procs \ {p} : Same(q)
    <3>1. call[p] \in Call /\ [call[p] EXCEPT !.user = u] \in Call
      BY <2>2 DEF OInv, Handlers, Call
    <3>2. call' = [call EXCEPT ![p] = [call[p] EXCEPT !.user = u]]
      BY <2>1
    <3>3. call' \in [Procs -> Call] /\ call'[p] = [call[p] EXCEPT !.user = u]
      BY <3>1, <3>2 DEF OInv, Handlers
    <3> QED
      BY <1>3, <3>2, <3>3 DEF LoginAccepted, Goto, OInv, Handlers, HandlerOK, Same
  <2>4. call'[p].user = u /\ call'[p].phone = call[p].phone
    BY <2>3 DEF OInv, Handlers, Call
  <2>5. HandlerOK(p)'
    BY <1>1, <2>1, <2>2, <2>3, <2>4 DEF OInv, HandlerOK, MayLogIn, tables
  <2> QED
    BY <1>1, <2>3, <2>5, TablesStay
<1>4. CASE RightCode(p)
  <2> DEFINE c == Active(call[p].phone)
  <2>1. c \in DOMAIN challenges /\ challenges[c].phone = call[p].phone /\ c \in Nat
    BY <1>4, ActiveIsOfPhone DEF RightCode, Usable, OInv, Tables
  <2>2. /\ Handlers' /\ place'[p] = "consume" /\ call'[p] = call[p] /\ seen'[p] = c
        /\ c # 0 /\ \A q \in Procs \ {p} : Same(q)
    BY <1>4, <2>1 DEF RightCode, Usable, Goto, OInv, Handlers, Same
  <2>3. HandlerOK(p)'
    BY <1>1, <1>4, <2>1, <2>2 DEF OInv, HandlerOK, RightCode, tables
  <2> QED
    BY <1>1, <2>2, <2>3, TablesStay
<1> QED
  BY <1>2, <1>3, <1>4

(* SendCode, WrongCode, IncrementAttempts, Consume and Expire each change  *)
(* a row of challenges, and never its phone.                               *)
LEMMA RowChanges ==
    ASSUME OInv, NEW c \in DOMAIN challenges, NEW row \in Challenge,
           challenges' = [challenges EXCEPT ![c] = row],
           row.phone = challenges[c].phone,
           challenges[c].consumed => row.consumed,
           UNCHANGED users
    PROVE  /\ challenges' \in Seq(Challenge) /\ Advanced
           /\ c \in DOMAIN challenges' /\ challenges'[c] = row
<1>1. challenges \in Seq(Challenge)
  BY DEF OInv, Tables
<1>2. challenges' \in Seq(Challenge) /\ DOMAIN challenges' = DOMAIN challenges
  BY <1>1, RowUpdated
<1> QED
  BY <1>1, <1>2 DEF Advanced

LEMMA ChallengeRow ==
    ASSUME OInv, NEW c \in DOMAIN challenges
    PROVE  challenges[c] \in Challenge
BY DEF OInv, Tables

LEMMA WriteStep ==
    ASSUME OInv, NEW p \in Procs, SendCode(p) \/ WrongCode(p) \/ Consume(p)
    PROVE  OInv'
<1> USE DEF Places
<1>1. CASE SendCode(p)
  <2> DEFINE c == seen[p]
  <2> DEFINE row == [challenges[c] EXCEPT !.sent = TRUE]
  <2>1. c \in DOMAIN challenges /\ challenges[c].phone = call[p].phone
    BY <1>1 DEF SendCode, OInv, HandlerOK
  <2>2. /\ row \in Challenge /\ row.phone = challenges[c].phone
        /\ row.consumed = challenges[c].consumed
    BY <2>1, ChallengeRow DEF Challenge
  <2>3. challenges' = [challenges EXCEPT ![c] = row] /\ UNCHANGED <<users, sessions, known>>
    BY <1>1 DEF SendCode
  <2>4. challenges' \in Seq(Challenge) /\ Advanced
    BY <2>1, <2>2, <2>3, RowChanges
  <2>5. /\ Handlers' /\ place'[p] = "reply" /\ call'[p] = call[p] /\ seen'[p] = seen[p]
        /\ \A q \in Procs \ {p} : Same(q)
    BY <1>1 DEF SendCode, Goto, OInv, Handlers, Same
  <2>6. HandlerOK(p)'
    BY <1>1, <2>4, <2>5 DEF SendCode, OInv, HandlerOK, Advanced
  <2> QED
    BY <2>3, <2>4, <2>5, <2>6, ChallengesMove
<1>2. CASE WrongCode(p)
  <2> DEFINE c == Active(call[p].phone)
  <2> DEFINE row == [challenges[c] EXCEPT !.misses = @ + 1]
  <2>1. /\ c \in DOMAIN challenges /\ challenges[c].phone = call[p].phone
        /\ c \in Nat \ {0}
    BY <1>2, ActiveIsOfPhone DEF WrongCode, Usable, OInv, Tables
  <2>2. /\ row \in Challenge /\ row.phone = challenges[c].phone
        /\ row.consumed = challenges[c].consumed
    BY <2>1, ChallengeRow DEF Challenge
  <2>3. challenges' = [challenges EXCEPT ![c] = row] /\ UNCHANGED <<users, sessions, known>>
    BY <1>2 DEF WrongCode
  <2>4. challenges' \in Seq(Challenge) /\ Advanced
    BY <2>1, <2>2, <2>3, RowChanges
  <2>5. /\ Handlers' /\ place'[p] = "miss" /\ call'[p] = call[p] /\ seen'[p] = c
        /\ \A q \in Procs \ {p} : Same(q)
    BY <1>2, <2>1 DEF WrongCode, Goto, OInv, Handlers, Same
  <2>6. HandlerOK(p)'
    BY <1>2, <2>1, <2>3, <2>4, <2>5 DEF WrongCode, OInv, HandlerOK, Advanced
  <2> QED
    BY <2>3, <2>4, <2>5, <2>6, ChallengesMove
<1>3. CASE Consume(p)
  <2> DEFINE c == seen[p]
  <2> DEFINE row == [challenges[c] EXCEPT !.consumed = TRUE, !.uses = @ + 1]
  <2>1. c \in DOMAIN challenges /\ challenges[c].phone = call[p].phone
    BY <1>3 DEF Consume, OInv, HandlerOK
  <2>2. row \in Challenge /\ row.phone = challenges[c].phone /\ row.consumed
    <3> DEFINE once == [challenges[c] EXCEPT !.consumed = TRUE]
    <3>1. /\ once \in Challenge /\ once.phone = challenges[c].phone /\ once.consumed
          /\ once.uses \in Nat /\ row = [once EXCEPT !.uses = once.uses + 1]
      BY <2>1, ChallengeRow DEF Challenge
    <3> HIDE DEF once, row
    <3> QED
      BY <3>1 DEF Challenge
  <2>3. challenges' = [challenges EXCEPT ![c] = row] /\ UNCHANGED <<users, sessions, known>>
    <3>1. challenges \in Seq(Challenge)
      BY DEF OInv, Tables
    <3> QED
      BY <1>3, <2>1, <3>1, ChallengeRow DEF Consume, Challenge
  <2>4. challenges' \in Seq(Challenge) /\ Advanced /\ challenges'[c] = row
    BY <2>1, <2>2, <2>3, RowChanges
  <2>5. /\ Handlers' /\ place'[p] = "verify" /\ call'[p] = call[p] /\ seen'[p] = seen[p]
        /\ \A q \in Procs \ {p} : Same(q)
    BY <1>3 DEF Consume, Goto, OInv, Handlers, Same
  <2> HIDE DEF row
  <2>6. HandlerOK(p)'
    BY <1>3, <2>1, <2>2, <2>3, <2>4, <2>5 DEF Consume, OInv, HandlerOK, Advanced
  <2> QED
    BY <2>3, <2>4, <2>5, <2>6, ChallengesMove
<1> QED
  BY <1>1, <1>2, <1>3

LEMMA IncrementStep ==
    ASSUME OInv, NEW p \in Procs, IncrementAttempts(p)
    PROVE  OInv'
<1> DEFINE c == seen[p]
<1> DEFINE row == [challenges[c] EXCEPT !.attempts = @ + 1]
<1>1. c \in DOMAIN challenges
  BY DEF IncrementAttempts, OInv, HandlerOK
<1>2. /\ row \in Challenge /\ row.phone = challenges[c].phone
      /\ row.consumed = challenges[c].consumed
  BY <1>1, ChallengeRow DEF Challenge
<1>3. /\ challenges' = [challenges EXCEPT ![c] = row] /\ UNCHANGED <<users, sessions, known>>
      /\ Respond(p, "invalid")
  BY DEF IncrementAttempts
<1>4. challenges' \in Seq(Challenge) /\ Advanced
  BY <1>1, <1>2, <1>3, RowChanges
<1> QED
  BY <1>3, <1>4, RespondLeavesIdle, ChallengesMove

LEMMA ExpireStep ==
    ASSUME OInv, NEW c \in DOMAIN challenges, Expire(c)
    PROVE  OInv'
<1> DEFINE row == [challenges[c] EXCEPT !.expired = TRUE]
<1>1. /\ row \in Challenge /\ row.phone = challenges[c].phone
      /\ row.consumed = challenges[c].consumed
  BY ChallengeRow DEF Challenge
<1>2. /\ challenges' = [challenges EXCEPT ![c] = row]
      /\ UNCHANGED <<users, sessions, known, place, call, seen>>
  BY DEF Expire
<1>3. challenges' \in Seq(Challenge) /\ Advanced
  BY <1>1, <1>2, RowChanges
<1>4. Tables' /\ Handlers' /\ OneUserPerPhone' /\ NoSessionBeforeVerification'
  BY <1>2, <1>3
  DEF OInv, Tables, Handlers, OneUserPerPhone, NoSessionBeforeVerification, Advanced
<1> QED
  BY <1>2, <1>3, <1>4, HandlerFrame DEF OInv, Same

LEMMA SaveChallengeStep ==
    ASSUME OInv, NEW p \in Procs, NEW code \in Codes, SaveChallenge(p, code)
    PROVE  OInv'
<1> DEFINE n == Len(challenges) + 1
<1> DEFINE row == [phone |-> call[p].phone, code |-> code, attempts |-> 0,
                   consumed |-> FALSE, expired |-> FALSE, sent |-> FALSE,
                   misses |-> 0, uses |-> 0]
<1> USE DEF Places
<1>1. row \in Challenge /\ challenges \in Seq(Challenge) /\ n \in Nat \ {0}
  BY DEF SaveChallenge, OInv, Tables, HandlerOK, Challenge
<1>2. challenges' = Append(challenges, row) /\ UNCHANGED <<users, sessions, known>>
  BY DEF SaveChallenge
<1>3. /\ challenges' \in Seq(Challenge) /\ DOMAIN challenges' = DOMAIN challenges \cup {n}
      /\ challenges'[n] = row /\ \A c \in DOMAIN challenges : challenges'[c] = challenges[c]
  BY <1>1, <1>2, RowAppended
<1>4. Advanced
  BY <1>2, <1>3 DEF Advanced
<1>5. /\ Handlers' /\ place'[p] = "send" /\ call'[p] = call[p] /\ seen'[p] = n
      /\ \A q \in Procs \ {p} : Same(q)
  BY <1>1 DEF SaveChallenge, Goto, OInv, Handlers, Same
<1>6. HandlerOK(p)'
  BY <1>1, <1>2, <1>3, <1>5 DEF SaveChallenge, OInv, HandlerOK
<1> QED
  BY <1>2, <1>3, <1>4, <1>5, <1>6, ChallengesMove

LEMMA CreateUserStep ==
    ASSUME OInv, NEW p \in Procs, CreateUser(p)
    PROVE  OInv'
<1> DEFINE n == Len(users) + 1
<1> DEFINE row == [phone |-> call[p].phone, verified |-> FALSE]
<1> USE DEF Places
<1>1. /\ row \in User /\ users \in Seq(User) /\ sessions \in Seq(Nat) /\ Len(sessions) = Len(users)
      /\ n \in Nat \ {0}
  BY DEF CreateUser, OInv, Tables, HandlerOK, User
<1>2. /\ users' = Append(users, row) /\ sessions' = Append(sessions, 0)
      /\ UNCHANGED <<challenges, known>>
  BY DEF CreateUser
<1>3. /\ users' \in Seq(User) /\ DOMAIN users' = DOMAIN users \cup {n} /\ Len(users') = n
      /\ users'[n] = row /\ \A u \in DOMAIN users : users'[u] = users[u]
      /\ n \notin DOMAIN users
  BY <1>1, <1>2, RowAppended
<1>4. /\ sessions' \in Seq(Nat) /\ Len(sessions') = n /\ sessions'[n] = 0
      /\ \A u \in DOMAIN users : sessions'[u] = sessions[u]
  BY <1>1, <1>2, RowAppended
<1>5. Advanced /\ Tables'
  BY <1>2, <1>3, <1>4 DEF Advanced, OInv, Tables
<1>6. /\ Handlers' /\ place'[p] = "save" /\ seen'[p] = seen[p]
      /\ call'[p].user = n /\ call'[p].phone = call[p].phone
      /\ \A q \in Procs \ {p} : Same(q)
  <2>1. call[p] \in Call /\ [call[p] EXCEPT !.user = n] \in Call
    BY <1>1 DEF OInv, Handlers, Call
  <2>2. call' = [call EXCEPT ![p] = [call[p] EXCEPT !.user = n]]
    BY DEF CreateUser
  <2>3. call' \in [Procs -> Call] /\ call'[p] = [call[p] EXCEPT !.user = n]
    BY <2>1, <2>2 DEF OInv, Handlers
  <2>4. call'[p].user = n /\ call'[p].phone = call[p].phone
    BY <2>1, <2>3 DEF Call
  <2> QED
    BY <2>2, <2>3, <2>4 DEF CreateUser, Goto, OInv, Handlers, Same
<1>7. HandlerOK(p)'
  BY <1>1, <1>2, <1>3, <1>6 DEF CreateUser, OInv, HandlerOK
<1>8. OneUserPerPhone'
  BY <1>3 DEF CreateUser, PhoneIsFree, OInv, OneUserPerPhone
<1>9. NoSessionBeforeVerification'
  BY <1>2, <1>3, <1>4, SMTT(30) DEF OInv, NoSessionBeforeVerification
<1> QED
  BY <1>5, <1>6, <1>7, <1>8, <1>9, ActorMoves

LEMMA SetPhoneVerifiedStep ==
    ASSUME OInv, NEW p \in Procs, SetPhoneVerified(p)
    PROVE  OInv'
<1> DEFINE u == call[p].user
<1> DEFINE row == [users[u] EXCEPT !.verified = TRUE]
<1> USE DEF Places
<1>1. /\ u \in DOMAIN users /\ users \in Seq(User) /\ users[u] \in User
      /\ users[u].phone = call[p].phone /\ seen[p] \in DOMAIN challenges
      /\ challenges[seen[p]].phone = call[p].phone /\ challenges[seen[p]].consumed
  BY DEF SetPhoneVerified, OInv, HandlerOK, Tables
<1>2. row \in User /\ row.phone = users[u].phone /\ row.verified
  BY <1>1 DEF User
<1>3. users' = [users EXCEPT ![u] = row] /\ UNCHANGED <<challenges, sessions, known>>
  BY DEF SetPhoneVerified
<1>4. /\ users' \in Seq(User) /\ DOMAIN users' = DOMAIN users /\ Len(users') = Len(users)
      /\ users'[u] = row /\ \A v \in DOMAIN users : v # u => users'[v] = users[v]
  BY <1>1, <1>2, <1>3, RowUpdated
<1>5. Advanced /\ Tables'
  BY <1>2, <1>3, <1>4 DEF Advanced, OInv, Tables
<1>6. /\ Handlers' /\ place'[p] = "mint" /\ seen'[p] = seen[p] /\ call'[p] = call[p]
      /\ \A q \in Procs \ {p} : Same(q)
  BY DEF SetPhoneVerified, Goto, OInv, Handlers, Same
<1>7. HandlerOK(p)'
  <2> HIDE DEF row
  <2> QED
    BY <1>1, <1>2, <1>3, <1>4, <1>6 DEF SetPhoneVerified, OInv, HandlerOK
<1>8. OneUserPerPhone'
  <2> HIDE DEF row
  <2>1. \A v \in DOMAIN users : users'[v].phone = users[v].phone
    BY <1>2, <1>4
  <2> QED
    BY <1>4, <2>1 DEF OInv, OneUserPerPhone
<1>9. NoSessionBeforeVerification'
  BY <1>1, <1>2, <1>3, <1>4 DEF OInv, NoSessionBeforeVerification
<1> QED
  BY <1>5, <1>6, <1>7, <1>8, <1>9, ActorMoves

LEMMA MintSessionStep ==
    ASSUME OInv, NEW p \in Procs, MintSession(p)
    PROVE  OInv'
<1> DEFINE u == call[p].user
<1>1. /\ u \in DOMAIN users /\ users[u].verified /\ sessions \in Seq(Nat)
      /\ u \in DOMAIN sessions /\ sessions[u] \in Nat
  BY DEF MintSession, OInv, HandlerOK, Tables
<1>2. /\ sessions' = [sessions EXCEPT ![u] = sessions[u] + 1]
      /\ UNCHANGED <<users, challenges, known>> /\ Respond(p, "session")
  BY DEF MintSession
<1>3. /\ sessions' \in Seq(Nat) /\ Len(sessions') = Len(sessions)
      /\ \A v \in DOMAIN sessions : v # u => sessions'[v] = sessions[v]
  BY <1>1, <1>2, RowUpdated
<1>4. Advanced /\ Tables'
  BY <1>2, <1>3 DEF Advanced, OInv, Tables
<1>5. OneUserPerPhone'
  BY <1>2 DEF OInv, OneUserPerPhone
<1>6. NoSessionBeforeVerification'
  <2>1. DOMAIN sessions = DOMAIN users
    BY <1>1 DEF OInv, Tables
  <2> QED
    BY <1>1, <1>2, <1>3, <2>1 DEF OInv, NoSessionBeforeVerification
<1> QED
  BY <1>2, <1>4, <1>5, <1>6, RespondLeavesIdle, ActorMoves

LEMMA CrashStep ==
    ASSUME OInv, Crash
    PROVE  OInv'
<1>1. UNCHANGED <<tables, known>>
  BY DEF Crash
<1>2. Handlers' /\ \A p \in Procs : HandlerOK(p)'
  BY DEF Crash, OInv, Handlers, HandlerOK, Places, Call, Idle
<1> QED
  BY <1>1, <1>2 DEF OInv, Tables, OneUserPerPhone, NoSessionBeforeVerification, tables

(* Time passes, or the limiter serves somebody else. *)
LEMMA Frame == OInv /\ UNCHANGED <<tables, known, place, call, seen>> => OInv'
BY DEF OInv, Tables, Handlers, HandlerOK, OneUserPerPhone, NoSessionBeforeVerification, tables

LEMMA HandleStep ==
    ASSUME OInv, NEW p \in Procs, Handle(p)
    PROVE  OInv'
<1>0. known \subseteq DOMAIN users
  BY DEF OInv, Tables
<1>1. CASE PhoneTaken(p) \/ CreateRaceLost(p) \/ NoUsableChallenge(p) \/ IncrementFails(p)
           \/ LoginRefused(p) \/ StatementFails(p)
  BY <1>0, <1>1, RespondStep
  DEF PhoneTaken, CreateRaceLost, NoUsableChallenge, IncrementFails, LoginRefused,
      StatementFails
<1>2. CASE Reply(p)
  <2>1. call[p].user \in DOMAIN users
    BY <1>2 DEF Reply, OInv, HandlerOK
  <2> QED
    BY <1>0, <1>2, <2>1, RespondStep DEF Reply
<1>3. CASE PhoneAbsent(p) \/ LoginAccepted(p) \/ RightCode(p)
  BY <1>3, ReadStep
<1>4. CASE SendCode(p) \/ WrongCode(p) \/ Consume(p)
  BY <1>4, WriteStep
<1> QED
  BY <1>1, <1>2, <1>3, <1>4, CreateUserStep, SaveChallengeStep, IncrementStep,
     SetPhoneVerifiedStep, MintSessionStep
  DEF Handle

LEMMA OInvInit == Init => OInv
BY DEF Init, OInv, Tables, Handlers, HandlerOK, Places, Call, Idle, OneUserPerPhone,
       NoSessionBeforeVerification

LEMMA OInvStep == OInv /\ [Next]_vars => OInv'
<1> SUFFICES ASSUME OInv, [Next]_vars PROVE OInv'
  OBVIOUS
<1>1. ASSUME NEW cl \in Clients, Elsewhere(cl) PROVE OInv'
  BY <1>1, Frame DEF Elsewhere
<1>2. CASE UNCHANGED vars
  BY <1>2, Frame DEF vars, tables
<1>3. CASE Next
  BY <1>1, <1>3, Frame, RequestStep, HandleStep, ExpireStep, CrashStep DEF Next
<1> QED
  BY <1>2, <1>3

THEOREM Invariant == Spec => []OInv
<1> QED
  BY OInvInit, OInvStep, PTL DEF Spec

-------------------------------------------------------------------------------
(* However many sign-ups race, a phone has one user. *)
THEOREM PhonesAreUnique == Spec => []OneUserPerPhone
<1> QED
  BY Invariant, PTL DEF OInv

(* However the statements of verifications and log-ins interleave and      *)
(* fail, a session is of a verified user, and a verified user's phone had  *)
(* a code of its own consumed.                                             *)
THEOREM SessionsAreVerified == Spec => []NoSessionBeforeVerification
<1> QED
  BY Invariant, PTL DEF OInv

-------------------------------------------------------------------------------
(* Types.                                                                  *)

LEMMA LimiterStep == LimiterInv /\ [Next]_vars => LimiterInv'
<1> SUFFICES ASSUME LimiterInv, [Next]_vars PROVE LimiterInv'
  OBVIOUS
<1>1. ASSUME NEW p \in Procs, Request(p) PROVE LimiterInv'
  BY <1>1, AdmitKeeps, LimiterFrame
  DEF Request, Throttled, Refuse, Register, Login, Resend, Verify, Serve
<1>2. CASE UNCHANGED vars
  BY <1>2, LimiterFrame DEF vars
<1>3. CASE Next
  BY <1>1, <1>3, AdmitKeeps, TickKeeps, NewLimiterKeeps, LimiterFrame
  DEF Next, Elsewhere, Crash
<1> QED
  BY <1>2, <1>3

THEOREM LimiterInvariant == Spec => []LimiterInv
<1>1. Init => LimiterInv
  BY LimiterInvInit DEF Init
<1> QED
  BY <1>1, LimiterStep, PTL DEF Spec

(* A step that answers nobody with a 429. *)
Quiet ==
    /\ DOMAIN outcome' = Procs
    /\ \A p \in Procs : outcome'[p] = "rate_limited" => outcome[p] = "rate_limited"

LEMMA HandlersAreQuiet ==
    ASSUME DOMAIN outcome = Procs, NEW p \in Procs, Handle(p)
    PROVE  Quiet
<1>1. ASSUME NEW result, Respond(p, result), result # "rate_limited" PROVE Quiet
  BY <1>1 DEF Respond, Quiet
<1>2. CASE PhoneTaken(p) \/ CreateRaceLost(p) \/ Reply(p) \/ NoUsableChallenge(p)
           \/ IncrementAttempts(p) \/ IncrementFails(p) \/ MintSession(p) \/ StatementFails(p)
  BY <1>1, <1>2
  DEF PhoneTaken, CreateRaceLost, Reply, NoUsableChallenge, IncrementAttempts,
      IncrementFails, MintSession, StatementFails
<1>3. CASE LoginRefused(p)
  <2>1. Respond(p, "phone_unverified") \/ Respond(p, "invalid")
    BY <1>3 DEF LoginRefused
  <2> QED
    BY <1>1, <2>1
<1>4. CASE \/ PhoneAbsent(p) \/ CreateUser(p) \/ SendCode(p) \/ WrongCode(p) \/ RightCode(p)
           \/ Consume(p) \/ SetPhoneVerified(p) \/ LoginAccepted(p)
           \/ \E code \in Codes : SaveChallenge(p, code)
  BY <1>4
  DEF PhoneAbsent, CreateUser, SendCode, WrongCode, RightCode, Consume, SetPhoneVerified,
      LoginAccepted, SaveChallenge, Quiet
<1> QED
  BY <1>2, <1>3, <1>4 DEF Handle

LEMMA OnlyTheLimiterThrottles ==
    ASSUME DOMAIN outcome = Procs, [Next]_vars
    PROVE  Quiet \/ (DOMAIN outcome' = Procs /\ \E cl \in Clients : Refuse(cl))
<1>1. ASSUME NEW p \in Procs, Throttled(p)
      PROVE  DOMAIN outcome' = Procs /\ \E cl \in Clients : Refuse(cl)
  BY <1>1 DEF Throttled
<1>2. ASSUME NEW p \in Procs, NEW c, NEW where, Serve(p, c, where) PROVE Quiet
  BY <1>2 DEF Serve, Quiet
<1>3. ASSUME NEW p \in Procs, Request(p), ~Throttled(p) PROVE Quiet
  BY <1>2, <1>3 DEF Request, Register, Login, Resend, Verify
<1>4. ASSUME UNCHANGED outcome PROVE Quiet
  BY <1>4 DEF Quiet
<1>5. CASE Crash
  BY <1>5 DEF Crash, Quiet
<1>6. CASE UNCHANGED vars
  BY <1>4, <1>6 DEF vars
<1>7. CASE Next
  BY <1>1, <1>3, <1>4, <1>5, <1>7, HandlersAreQuiet DEF Next, Elsewhere, Expire
<1> QED
  BY <1>6, <1>7

(* The shared limiter admits fewer than twice its budget in any stretch of *)
(* a window's length, and refuses only a client that has spent the budget  *)
(* within the last one, across all routes and restarts.                    *)
THEOREM LimiterIsAlwaysFair == Spec => LimiterIsFair
<1> DEFINE Answers == DOMAIN outcome = Procs
<1> DEFINE Caused ==
      \A p \in Procs : outcome'[p] = "rate_limited" /\ outcome[p] # "rate_limited" =>
         \E cl \in Clients : RefusedForCause(cl)
<1>1. Init => Answers
  BY DEF Init
<1>2. Answers /\ [Next]_vars => Answers'
  BY OnlyTheLimiterThrottles DEF Quiet
<1>3. Answers /\ LimiterInv /\ [Next]_vars => [Caused]_vars
  BY OnlyTheLimiterThrottles, RefusalHasCause DEF Quiet
<1>4. Spec => []Answers
  BY <1>1, <1>2, PTL DEF Spec
<1>5. Spec => [][Caused]_vars
  BY <1>3, <1>4, LimiterInvariant, PTL DEF Spec
<1>6. Spec => []BudgetKept
  BY BudgetIsKept, LimiterInvariant, PTL
<1>7. BudgetKept' /\ [Caused]_vars => [BudgetKept' /\ Caused]_vars
  OBVIOUS
<1>8. Spec => [][BudgetKept' /\ Caused]_vars
  BY <1>5, <1>6, <1>7, PTL
<1> QED
  BY <1>8, PTL DEF LimiterIsFair

(* Every variable keeps its range, and a handler past its reads has the    *)
(* user and the challenge it works on.                                     *)
THEOREM TypeCorrect == Spec => []TypeOK
<1>1. OInv /\ LimiterInv => TypeOK
  BY DEF OInv, Tables, Handlers, HandlerOK, Places, User, Challenge, LimiterInv, TypeOK
<1> QED
  BY <1>1, Invariant, LimiterInvariant, PTL

-------------------------------------------------------------------------------
(* How often a code serves, and how often it can be guessed.               *)

(* The handlers that are at a statement about a challenge.                 *)
At(where, c) == {p \in Procs : place[p] = where /\ seen[p] = c}

(* A code that was used is consumed; and a wrong code is counted, about to *)
(* be, or lost to a fault.                                                 *)
Guarded(c) ==
    /\ ~challenges[c].consumed => challenges[c].uses = 0
    /\ challenges[c].misses <= challenges[c].attempts + Cardinality(At("miss", c))
                                 + faults * Cardinality(Procs)
    /\ challenges[c].misses < MaxAttempts + (1 + faults) * Cardinality(Procs)

Guards == faults \in Nat /\ \A c \in DOMAIN challenges : Guarded(c)

(* What a step may do to a code that was used: serve those it let in.      *)
Serves(c) ==
    /\ LetIn(c)' \subseteq LetIn(c)
    /\ challenges'[c].uses + Cardinality(LetIn(c)')
          <= challenges[c].uses + Cardinality(LetIn(c))

NoNewUse == \A c \in DOMAIN challenges : challenges[c].uses > 0 => Serves(c)

Guarding == Guards' /\ NoNewUse

LEMMA OneMore ==
    ASSUME NEW f \in Nat, NEW n \in Nat
    PROVE  /\ f * n \in Nat /\ (1 + f) * n = f * n + n
           /\ (f + 1) * n = f * n + n /\ (1 + (f + 1)) * n = (1 + f) * n + n
           /\ (1 + f) * n \in Nat
<1>1. f * n \in Nat /\ (1 + f) * n = f * n + n
  OBVIOUS
<1>2. (1 + (f + 1)) * n = (1 + f) * n + n
  OBVIOUS
<1> QED
  BY <1>1, <1>2

LEMMA SomeProcs ==
    ASSUME NEW T \in SUBSET Procs
    PROVE  /\ IsFiniteSet(T) /\ Cardinality(T) \in Nat
           /\ Cardinality(T) <= Cardinality(Procs) /\ Cardinality(Procs) \in Nat
<1>1. IsFiniteSet(T) /\ Cardinality(T) <= Cardinality(Procs)
  BY FS_Subset, ProcsAssumption
<1> QED
  BY <1>1, FS_CardinalityType, ProcsAssumption

LEMMA FewerAt ==
    ASSUME NEW S \in SUBSET Procs, NEW T \in SUBSET S
    PROVE  Cardinality(T) <= Cardinality(S)
BY FS_Subset, ProcsAssumption

(* A use more leaves a handler less, and without one nobody joins them.    *)
LEMMA ServesWhen ==
    ASSUME OInv, OInv', NEW c \in DOMAIN challenges, c \in DOMAIN challenges',
           LetIn(c)' \subseteq LetIn(c),
           \/ challenges'[c].uses = challenges[c].uses
           \/ /\ challenges'[c].uses = challenges[c].uses + 1
              /\ \E p \in LetIn(c) : LetIn(c)' = LetIn(c) \ {p}
    PROVE  Serves(c)
<1> DEFINE C == LetIn(c)
           K == {q \in Procs : place'[q] = "consume" /\ seen'[q] = c}
<1>1. LetIn(c)' = K
  BY DEF LetIn
<1>2. C \in SUBSET Procs /\ K \in SUBSET Procs
  BY DEF LetIn
<1> HIDE DEF C, K
<1>3. /\ IsFiniteSet(C) /\ Cardinality(C) \in Nat /\ Cardinality(K) \in Nat
  BY <1>2, SomeProcs
<1>4. K \subseteq C
  BY <1>1 DEF C
<1>5. Cardinality(K) <= Cardinality(C)
  BY <1>2, <1>4, FewerAt
<1>6. challenges[c].uses \in Nat
  BY ChallengeRow DEF Challenge
<1>7. challenges'[c].uses + Cardinality(K) <= challenges[c].uses + Cardinality(C)
  <2>1. CASE challenges'[c].uses = challenges[c].uses
    BY <1>3, <1>5, <1>6, <2>1
  <2>2. CASE /\ challenges'[c].uses = challenges[c].uses + 1
             /\ \E p \in C : K = C \ {p}
    <3>1. PICK p \in C : K = C \ {p}
      BY <2>2
    <3>2. Cardinality(K) = Cardinality(C) - 1
      BY <1>3, <3>1, FS_RemoveElement
    <3> QED
      BY <1>3, <1>6, <2>2, <3>2
  <2> QED
    BY <1>1, <2>1, <2>2 DEF C
<1> QED
  BY <1>1, <1>4, <1>7 DEF Serves, C

(* Rows keep their counts, new ones begin at zero; nobody comes to consume *)
(* a code, and nobody leaves a miss uncounted unless something fails.      *)
LEMMA GuardsKept ==
    ASSUME OInv, Guards, OInv',
           \A c \in DOMAIN challenges :
              /\ c \in DOMAIN challenges'
              /\ challenges'[c].uses = challenges[c].uses
              /\ challenges'[c].misses = challenges[c].misses
              /\ challenges'[c].attempts = challenges[c].attempts
              /\ challenges'[c].consumed = challenges[c].consumed,
           \A c \in DOMAIN challenges' \ DOMAIN challenges :
              challenges'[c].uses = 0 /\ challenges'[c].misses = 0,
           faults' \in {faults, faults + 1},
           \A q \in Procs :
              /\ place'[q] = "consume" => place[q] = "consume" /\ seen'[q] = seen[q]
              /\ \/ faults' = faults + 1
                 \/ place[q] = "miss" => place'[q] = "miss" /\ seen'[q] = seen[q]
    PROVE  Guarding
<1> DEFINE N == Cardinality(Procs)
<1>1. faults \in Nat /\ faults' \in Nat /\ N \in Nat /\ MaxAttempts \in Nat \ {0}
  BY FS_CardinalityType, ProcsAssumption, AttemptsAssumption DEF Guards
<1>2. /\ faults * N \in Nat /\ faults' * N \in Nat /\ (1 + faults') * N \in Nat
      /\ (1 + faults) * N \in Nat
      /\ faults' = faults + 1 => /\ faults' * N = faults * N + N
                                 /\ (1 + faults') * N = (1 + faults) * N + N
  BY <1>1, OneMore
<1>3. ASSUME NEW c \in DOMAIN challenges' PROVE Guarded(c)'
  <2> DEFINE m1 == Cardinality(At("miss", c))
             M == {q \in Procs : place'[q] = "miss" /\ seen'[q] = c}
             m2 == Cardinality(M)
  <2>0. At("miss", c)' = M
    BY DEF At
  <2>1. m1 \in Nat /\ m1 <= N /\ m2 \in Nat /\ m2 <= N
    <3>1. M \in SUBSET Procs /\ At("miss", c) \in SUBSET Procs
      BY DEF At
    <3> HIDE DEF M
    <3>2. m1 \in Nat /\ m1 <= N
      BY <3>1, SomeProcs
    <3>3. m2 \in Nat /\ m2 <= N
      BY <3>1, SomeProcs
    <3> QED
      BY <3>2, <3>3
  <2>2. /\ challenges'[c].attempts \in Nat /\ challenges'[c].misses \in Nat
        /\ challenges'[c].uses \in Nat
    <3>1. challenges' \in Seq(Challenge)
      BY DEF OInv, Tables
    <3>2. challenges'[c] \in Challenge
      BY <3>1
    <3> QED
      BY <3>2 DEF Challenge
  <2>3. CASE c \notin DOMAIN challenges
    <3>1. challenges'[c].uses = 0 /\ challenges'[c].misses = 0
      BY <2>3
    <3>2. 0 <= challenges'[c].attempts + m2 + faults' * N
      <4> DEFINE L2 == faults' * N
      <4>1. L2 \in Nat
        BY <1>2
      <4> HIDE DEF L2, m2
      <4>2. 0 <= challenges'[c].attempts + m2 + L2
        BY <2>1, <2>2, <4>1
      <4> QED
        BY <4>2 DEF L2
    <3>3. 0 < MaxAttempts + (1 + faults') * N
      BY <1>1, <1>2
    <3> HIDE DEF N, M
    <3> QED
      BY <2>0, <3>1, <3>2, <3>3 DEF Guarded, N
  <2>4. CASE c \in DOMAIN challenges
    <3>1. faults' = faults + 1 \/ m1 <= m2
      <4>1. ASSUME faults' # faults + 1
            PROVE  At("miss", c) \in SUBSET M /\ M \in SUBSET Procs
        BY <4>1 DEF At
      <4> QED
        BY <4>1, FewerAt
    <3>2. /\ challenges'[c].uses = challenges[c].uses
          /\ challenges'[c].misses = challenges[c].misses
          /\ challenges'[c].attempts = challenges[c].attempts
          /\ challenges'[c].consumed = challenges[c].consumed
      BY <2>4
    <3>3. /\ ~challenges[c].consumed => challenges[c].uses = 0
          /\ challenges[c].misses <= challenges[c].attempts + m1 + faults * N
          /\ challenges[c].misses < MaxAttempts + (1 + faults) * N
      BY <2>4 DEF Guards, Guarded
    <3> HIDE DEF N, M, m1, m2
    <3>4. ~challenges'[c].consumed => challenges'[c].uses = 0
      BY <3>2, <3>3
    <3>5. /\ challenges'[c].misses <= challenges'[c].attempts + m2 + faults' * N
          /\ challenges'[c].misses < MaxAttempts + (1 + faults') * N
      <4> DEFINE L1 == faults * N
                 L2 == faults' * N
                 B1 == (1 + faults) * N
                 B2 == (1 + faults') * N
      <4>1. /\ L1 \in Nat /\ L2 \in Nat /\ B1 \in Nat /\ B2 \in Nat
            /\ faults' = faults + 1 => L2 = L1 + N /\ B2 = B1 + N
            /\ faults' = faults => L2 = L1 /\ B2 = B1
        BY <1>2
      <4>2. /\ challenges[c].misses <= challenges[c].attempts + m1 + L1
            /\ challenges[c].misses < MaxAttempts + B1
        BY <3>3
      <4> HIDE DEF L1, L2, B1, B2
      <4>3. /\ challenges'[c].misses <= challenges'[c].attempts + m2 + L2
            /\ challenges'[c].misses < MaxAttempts + B2
        BY <1>1, <2>1, <2>2, <3>1, <3>2, <4>1, <4>2
      <4> QED
        BY <4>3 DEF L2, B2
    <3> QED
      BY <2>0, <3>4, <3>5 DEF Guarded, N, m2
  <2> QED
    BY <2>3, <2>4
<1>4. ASSUME NEW c \in DOMAIN challenges PROVE Serves(c)
  <2>1. LetIn(c)' \subseteq LetIn(c)
    BY DEF LetIn
  <2> QED
    BY <2>1, ServesWhen
<1> QED
  BY <1>1, <1>3, <1>4 DEF Guards, Guarding, NoNewUse

(* The first of the handlers let in consumes the code, and another follows. *)
LEMMA GuardsConsume ==
    ASSUME OInv, Guards, OInv', NEW p \in Procs, Consume(p) PROVE Guarding
<1> DEFINE d == seen[p]
<1>1. /\ d \in DOMAIN challenges /\ place[p] = "consume"
      /\ UNCHANGED <<seen, faults>> /\ place' = [place EXCEPT ![p] = "verify"]
  BY DEF Consume, Goto, OInv, HandlerOK
<1>2. /\ DOMAIN challenges' = DOMAIN challenges
      /\ challenges'[d].uses = challenges[d].uses + 1 /\ challenges'[d].consumed
      /\ challenges'[d].misses = challenges[d].misses
      /\ challenges'[d].attempts = challenges[d].attempts
      /\ \A c \in DOMAIN challenges : c # d => challenges'[c] = challenges[c]
  <2> DEFINE once == [challenges[d] EXCEPT !.consumed = TRUE]
             row == [once EXCEPT !.uses = once.uses + 1]
  <2>1. challenges[d] \in Challenge /\ challenges \in Seq(Challenge)
    BY <1>1, ChallengeRow DEF OInv, Tables
  <2>2. challenges' = [challenges EXCEPT ![d] = row]
    BY <1>1, <2>1 DEF Consume, Challenge
  <2>3. row.uses = challenges[d].uses + 1 /\ row.consumed
        /\ row.misses = challenges[d].misses /\ row.attempts = challenges[d].attempts
    BY <2>1 DEF Challenge
  <2>4. DOMAIN challenges' = DOMAIN challenges /\ challenges'[d] = row
    BY <1>1, <2>1, <2>2
  <2> HIDE DEF row
  <2> QED
    BY <1>1, <2>2, <2>3, <2>4
<1>3. ASSUME NEW c \in DOMAIN challenges PROVE Guarded(c)'
  <2>1. At("miss", c)' = At("miss", c)
    BY <1>1 DEF At, OInv, Handlers
  <2>2. /\ challenges'[c].misses = challenges[c].misses
        /\ challenges'[c].attempts = challenges[c].attempts
        /\ ~challenges'[c].consumed => challenges'[c].uses = 0
    BY <1>2 DEF Guards, Guarded
  <2> QED
    BY <1>1, <2>1, <2>2 DEF Guards, Guarded
<1>4. ASSUME NEW c \in DOMAIN challenges PROVE Serves(c)
  <2>1. LetIn(c)' \subseteq LetIn(c) /\ (c = d => p \in LetIn(c) /\ LetIn(c)' = LetIn(c) \ {p})
    BY <1>1 DEF LetIn, OInv, Handlers
  <2>2. c \in DOMAIN challenges' /\ (c # d => challenges'[c].uses = challenges[c].uses)
    BY <1>2
  <2> QED
    BY <1>2, <2>1, <2>2, ServesWhen
<1> QED
  BY <1>1, <1>2, <1>3, <1>4 DEF Guards, Guarding, NoNewUse

(* Whoever finds the right code is let in only before the first use.       *)
LEMMA GuardsLetIn ==
    ASSUME OInv, Guards, OInv', NEW p \in Procs, RightCode(p) PROVE Guarding
<1> DEFINE d == Active(call[p].phone)
<1>1. /\ d \in DOMAIN challenges /\ place[p] = "active" /\ d # 0
      /\ UNCHANGED <<challenges, faults>> /\ place' = [place EXCEPT ![p] = "consume"]
      /\ seen' = [seen EXCEPT ![p] = d]
  <2>1. d # 0 /\ seen' = [seen EXCEPT ![p] = d]
    BY DEF RightCode, Usable
  <2>2. d \in DOMAIN challenges
    BY <2>1, ActiveIsOfPhone DEF OInv
  <2> HIDE DEF d
  <2> QED
    BY <2>1, <2>2 DEF RightCode, Goto, tables
<1>2. ~challenges[d].consumed
  BY <1>1, ActiveIsUnconsumed DEF OInv
<1> HIDE DEF d
<1>3. ASSUME NEW c \in DOMAIN challenges PROVE Guarded(c)'
  <2>1. At("miss", c)' = At("miss", c)
    BY <1>1 DEF At, OInv, Handlers
  <2> QED
    BY <1>1, <2>1 DEF Guards, Guarded
<1>4. ASSUME NEW c \in DOMAIN challenges, challenges[c].uses > 0 PROVE Serves(c)
  <2>1. c # d
    BY <1>2, <1>4 DEF Guards, Guarded
  <2>2. LetIn(c)' \subseteq LetIn(c)
    BY <1>1, <2>1 DEF LetIn, OInv, Handlers
  <2> QED
    BY <1>1, <2>2, ServesWhen
<1> QED
  BY <1>1, <1>3, <1>4 DEF Guards, Guarding, NoNewUse

(* A wrong code is compared only while the count is below the limit, and   *)
(* those not counted yet are the other handlers'.                          *)
LEMMA GuardsMiss ==
    ASSUME OInv, Guards, OInv', NEW p \in Procs, WrongCode(p) PROVE Guarding
<1> DEFINE d == Active(call[p].phone)
           N == Cardinality(Procs)
           L == faults * N
<1>1. /\ d \in DOMAIN challenges /\ place[p] = "active"
      /\ challenges[d].attempts < MaxAttempts
      /\ UNCHANGED faults /\ place' = [place EXCEPT ![p] = "miss"]
      /\ seen' = [seen EXCEPT ![p] = d]
      /\ challenges' = [challenges EXCEPT ![d].misses = @ + 1]
  <2>1. /\ d # 0 /\ seen' = [seen EXCEPT ![p] = d] /\ ~Spent(d)
        /\ challenges' = [challenges EXCEPT ![d].misses = @ + 1]
    BY DEF WrongCode, Usable
  <2>2. d \in DOMAIN challenges
    BY <2>1, ActiveIsOfPhone DEF OInv
  <2> HIDE DEF d
  <2>3. challenges[d].attempts \in Nat
    BY <2>2, ChallengeRow DEF Challenge
  <2>4. challenges[d].attempts < MaxAttempts
    BY <2>1, <2>3, AttemptsAssumption DEF Spent
  <2>5. place[p] = "active" /\ UNCHANGED faults /\ place' = [place EXCEPT ![p] = "miss"]
    BY DEF WrongCode, Goto
  <2> QED
    BY <2>1, <2>2, <2>4, <2>5
<1> HIDE DEF d
<1>2. /\ DOMAIN challenges' = DOMAIN challenges
      /\ challenges'[d].misses = challenges[d].misses + 1
      /\ challenges'[d].uses = challenges[d].uses
      /\ challenges'[d].consumed = challenges[d].consumed
      /\ challenges'[d].attempts = challenges[d].attempts
      /\ \A c \in DOMAIN challenges : c # d => challenges'[c] = challenges[c]
  <2>1. challenges[d] \in Challenge /\ challenges \in Seq(Challenge)
    BY <1>1, ChallengeRow DEF OInv, Tables
  <2> QED
    BY <1>1, <2>1 DEF Challenge
<1>3. faults \in Nat /\ N \in Nat /\ L \in Nat /\ (1 + faults) * N = L + N
  <2>1. N \in Nat
    BY FS_CardinalityType, ProcsAssumption
  <2> QED
    BY <2>1, OneMore DEF Guards
<1> HIDE DEF L
<1>4. ASSUME NEW c \in DOMAIN challenges PROVE Guarded(c)'
  <2> DEFINE K == {q \in Procs : place'[q] = "miss" /\ seen'[q] = c}
             C == At("miss", c)
  <2>1. At("miss", c)' = K
    BY <1>1 DEF At, OInv, Handlers
  <2>2. /\ c # d => K = C
        /\ c = d => K = C \cup {p} /\ p \notin C
        /\ C \in SUBSET Procs /\ K \in SUBSET Procs
    BY <1>1 DEF At, OInv, Handlers
  <2> HIDE DEF K, C, N
  <2>3. IsFiniteSet(C) /\ Cardinality(C) \in Nat
    BY <2>2, SomeProcs
  <2>4. Cardinality(K) \in Nat /\ Cardinality(K) <= N
    BY <2>2, SomeProcs DEF N
  <2>5. c = d => Cardinality(K) = Cardinality(C) + 1
    BY <2>2, <2>3, FS_AddElement
  <2>6. /\ challenges[c].misses <= challenges[c].attempts + Cardinality(C) + L
        /\ challenges[c].misses < MaxAttempts + (1 + faults) * N
        /\ ~challenges[c].consumed => challenges[c].uses = 0
    BY DEF Guards, Guarded, C, L, N
  <2>7. challenges[c].misses \in Nat /\ challenges[c].attempts \in Nat
    BY ChallengeRow DEF Challenge
  <2>8. challenges'[c].misses <= challenges'[c].attempts + Cardinality(K) + L
        /\ challenges'[c].misses < MaxAttempts + (L + N)
    <3>1. CASE c = d
      <4>1. challenges'[c].misses <= challenges'[c].attempts + Cardinality(K) + L
        BY <1>2, <1>3, <2>3, <2>4, <2>5, <2>6, <2>7, <3>1
      <4>2. challenges'[c].misses < MaxAttempts + (L + N)
        BY <1>1, <1>2, <1>3, <2>4, <2>7, <3>1, <4>1, AttemptsAssumption
      <4> QED
        BY <4>1, <4>2
    <3>2. CASE c # d
      BY <1>2, <1>3, <2>2, <2>6, <3>2
    <3> QED
      BY <3>1, <3>2
  <2>9. /\ challenges'[c].uses = challenges[c].uses
        /\ challenges'[c].consumed = challenges[c].consumed
    BY <1>2
  <2> QED
    BY <1>1, <1>3, <2>1, <2>6, <2>8, <2>9 DEF Guarded, L, N
<1>5. ASSUME NEW c \in DOMAIN challenges PROVE Serves(c)
  <2>1. LetIn(c)' \subseteq LetIn(c)
    BY <1>1 DEF LetIn, OInv, Handlers
  <2>2. c \in DOMAIN challenges' /\ challenges'[c].uses = challenges[c].uses
    BY <1>2
  <2> QED
    BY <2>1, <2>2, ServesWhen
<1> QED
  BY <1>1, <1>2, <1>3, <1>4, <1>5 DEF Guards, Guarding, NoNewUse

(* The count catches up with a miss.                                       *)
LEMMA GuardsCount ==
    ASSUME OInv, Guards, OInv', NEW p \in Procs, IncrementAttempts(p) PROVE Guarding
<1> DEFINE d == seen[p]
           N == Cardinality(Procs)
           L == faults * N
<1>1. /\ d \in DOMAIN challenges /\ place[p] = "miss" /\ d # 0
      /\ UNCHANGED faults /\ place' = [place EXCEPT ![p] = "idle"]
      /\ seen' = [seen EXCEPT ![p] = 0]
      /\ challenges' = [challenges EXCEPT ![d].attempts = @ + 1]
  BY DEF IncrementAttempts, Respond, Goto, OInv, HandlerOK
<1>2. /\ DOMAIN challenges' = DOMAIN challenges
      /\ challenges'[d].attempts = challenges[d].attempts + 1
      /\ challenges'[d].uses = challenges[d].uses
      /\ challenges'[d].consumed = challenges[d].consumed
      /\ challenges'[d].misses = challenges[d].misses
      /\ \A c \in DOMAIN challenges : c # d => challenges'[c] = challenges[c]
  <2> HIDE DEF d
  <2>1. challenges[d] \in Challenge /\ challenges \in Seq(Challenge)
    BY <1>1, ChallengeRow DEF OInv, Tables
  <2> QED
    BY <1>1, <2>1 DEF Challenge
<1>3. L \in Nat
  <2>1. N \in Nat
    BY FS_CardinalityType, ProcsAssumption
  <2> QED
    BY <2>1, OneMore DEF Guards
<1> HIDE DEF L
<1>4. ASSUME NEW c \in DOMAIN challenges PROVE Guarded(c)'
  <2> DEFINE K == {q \in Procs : place'[q] = "miss" /\ seen'[q] = c}
             C == At("miss", c)
  <2>1. At("miss", c)' = K
    BY <1>1 DEF At, OInv, Handlers
  <2>2. /\ c # d => K = C
        /\ c = d => K = C \ {p} /\ p \in C
        /\ C \in SUBSET Procs /\ K \in SUBSET Procs
    BY <1>1 DEF At, OInv, Handlers
  <2> HIDE DEF K, C, N
  <2>3. IsFiniteSet(C) /\ Cardinality(C) \in Nat
    BY <2>2, SomeProcs
  <2>4. Cardinality(K) \in Nat
    BY <2>2, SomeProcs
  <2>5. c = d => Cardinality(K) = Cardinality(C) - 1
    BY <2>2, <2>3, FS_RemoveElement
  <2>6. challenges[c].misses <= challenges[c].attempts + Cardinality(C) + L
    BY DEF Guards, Guarded, C, L, N
  <2>7. challenges[c].misses \in Nat /\ challenges[c].attempts \in Nat
    BY ChallengeRow DEF Challenge
  <2>8. challenges'[c].misses <= challenges'[c].attempts + Cardinality(K) + L
    <3>1. CASE c = d
      BY <1>2, <1>3, <2>3, <2>4, <2>5, <2>6, <2>7, <3>1
    <3>2. CASE c # d
      BY <1>2, <1>3, <2>2, <2>6, <3>2
    <3> QED
      BY <3>1, <3>2
  <2>9. /\ challenges'[c].uses = challenges[c].uses
        /\ challenges'[c].consumed = challenges[c].consumed
        /\ challenges'[c].misses = challenges[c].misses
    BY <1>2
  <2> QED
    BY <1>1, <2>1, <2>8, <2>9 DEF Guards, Guarded, L, N
<1>5. ASSUME NEW c \in DOMAIN challenges PROVE Serves(c)
  <2>1. LetIn(c)' \subseteq LetIn(c)
    BY <1>1 DEF LetIn, OInv, Handlers
  <2>2. c \in DOMAIN challenges' /\ challenges'[c].uses = challenges[c].uses
    BY <1>2
  <2> QED
    BY <2>1, <2>2, ServesWhen
<1> QED
  BY <1>1, <1>2, <1>4, <1>5 DEF Guards, Guarding, NoNewUse

(* Everything else leaves the counts and the handlers at them alone.       *)
Calm(q) ==
    /\ place'[q] = "consume" => place[q] = "consume" /\ seen'[q] = seen[q]
    /\ \/ faults' = faults + 1
       \/ place[q] = "miss" => place'[q] = "miss" /\ seen'[q] = seen[q]

LEMMA GuardsIgnore ==
    ASSUME OInv, Guards, OInv', NEW p \in Procs, UNCHANGED challenges,
           faults' \in {faults, faults + 1},
           place[p] # "miss" \/ faults' = faults + 1,
           \/ \E where : Goto(p, where) /\ where # "consume" /\ UNCHANGED seen
           \/ \E result : Respond(p, result)
    PROVE  Guarding
<1>1. \A q \in Procs : Calm(q)
  BY DEF Calm, Goto, Respond, OInv, Handlers
<1> QED
  BY <1>1, GuardsKept DEF Calm

LEMMA GuardsHandle ==
    ASSUME OInv, Guards, OInv', NEW p \in Procs, Handle(p)
    PROVE  Guarding
<1>1. CASE PhoneTaken(p) \/ CreateRaceLost(p) \/ NoUsableChallenge(p) \/ LoginRefused(p)
           \/ Reply(p) \/ MintSession(p)
  <2>1. /\ UNCHANGED <<challenges, faults>> /\ place[p] # "miss"
        /\ \E result : Respond(p, result)
    BY <1>1 DEF PhoneTaken, CreateRaceLost, NoUsableChallenge, LoginRefused, Reply,
                MintSession, tables
  <2> QED
    BY <2>1, GuardsIgnore
<1>2. CASE IncrementFails(p) \/ StatementFails(p)
  <2>1. UNCHANGED challenges /\ faults' = faults + 1 /\ \E result : Respond(p, result)
    BY <1>2 DEF IncrementFails, StatementFails, Fault, tables
  <2> QED
    BY <2>1, GuardsIgnore
<1>3. CASE PhoneAbsent(p) \/ CreateUser(p) \/ SetPhoneVerified(p) \/ LoginAccepted(p)
  <2>1. /\ UNCHANGED <<challenges, faults, seen>> /\ place[p] # "miss"
        /\ \E where : Goto(p, where) /\ where # "consume"
    BY <1>3 DEF PhoneAbsent, CreateUser, SetPhoneVerified, LoginAccepted, tables
  <2> QED
    BY <2>1, GuardsIgnore
<1>4. CASE SendCode(p)
  <2> DEFINE d == seen[p]
  <2>1. /\ d \in DOMAIN challenges /\ UNCHANGED <<seen, faults>> /\ place[p] = "send"
        /\ place' = [place EXCEPT ![p] = "reply"]
        /\ challenges' = [challenges EXCEPT ![d].sent = TRUE]
    BY <1>4 DEF SendCode, Goto, OInv, HandlerOK
  <2>2. challenges \in Seq(Challenge) /\ challenges[d] \in Challenge
    BY <2>1, ChallengeRow DEF OInv, Tables
  <2> HIDE DEF d
  <2>3. /\ DOMAIN challenges' = DOMAIN challenges
        /\ \A c \in DOMAIN challenges :
              /\ challenges'[c].uses = challenges[c].uses
              /\ challenges'[c].misses = challenges[c].misses
              /\ challenges'[c].attempts = challenges[c].attempts
              /\ challenges'[c].consumed = challenges[c].consumed
    BY <2>1, <2>2 DEF Challenge
  <2>4. \A q \in Procs : Calm(q)
    BY <2>1 DEF Calm, OInv, Handlers
  <2> QED
    BY <2>1, <2>3, <2>4, GuardsKept DEF Calm
<1>5. ASSUME NEW code \in Codes, SaveChallenge(p, code) PROVE Guarding
  <2> DEFINE n == Len(challenges) + 1
             row == [phone |-> call[p].phone, code |-> code, attempts |-> 0,
                     consumed |-> FALSE, expired |-> FALSE, sent |-> FALSE,
                     misses |-> 0, uses |-> 0]
  <2>1. row \in Challenge /\ challenges \in Seq(Challenge)
    BY <1>5 DEF SaveChallenge, OInv, Tables, HandlerOK, Challenge
  <2>2. challenges' = Append(challenges, row)
    BY <1>5 DEF SaveChallenge
  <2>3. /\ DOMAIN challenges' = DOMAIN challenges \cup {n} /\ challenges'[n] = row
        /\ \A c \in DOMAIN challenges : challenges'[c] = challenges[c]
    BY <2>1, <2>2, RowAppended
  <2>4. \A q \in Procs : Calm(q)
    BY <1>5 DEF SaveChallenge, Goto, Calm, OInv, Handlers
  <2>5. \A c \in DOMAIN challenges' \ DOMAIN challenges :
           challenges'[c].uses = 0 /\ challenges'[c].misses = 0
    BY <2>3
  <2>6. faults' = faults
    BY <1>5 DEF SaveChallenge
  <2> HIDE DEF row, n
  <2> QED
    BY <2>3, <2>4, <2>5, <2>6, GuardsKept DEF Calm
<1> QED
  BY <1>1, <1>2, <1>3, <1>4, <1>5, GuardsMiss, GuardsLetIn, GuardsCount, GuardsConsume
  DEF Handle

LEMMA GuardsStep == OInv /\ Guards /\ [Next]_vars => Guarding
<1> SUFFICES ASSUME OInv, Guards, [Next]_vars PROVE Guarding
  OBVIOUS
<1>0. OInv'
  BY OInvStep
<1>1. ASSUME NEW p \in Procs, NEW c, NEW where, where \notin {"miss", "consume"},
             Serve(p, c, where)
      PROVE  Guarding
  <2>1. /\ UNCHANGED <<challenges, faults, seen>> /\ place[p] # "miss" /\ Goto(p, where)
        /\ where # "consume"
    BY <1>1 DEF Serve, tables
  <2> QED
    BY <1>0, <2>1, GuardsIgnore
<1>2. ASSUME UNCHANGED <<challenges, faults, place, seen>> PROVE Guarding
  BY <1>0, <1>2, GuardsKept
<1>3. ASSUME NEW p \in Procs, Request(p) PROVE Guarding
  <2>1. CASE Throttled(p)
    BY <1>2, <2>1 DEF Throttled, tables
  <2>2. CASE ~Throttled(p)
    <3>1. CASE \E ph \in Phones : Register(p, ph)
      BY <1>1, <3>1 DEF Register
    <3>2. CASE \E ph \in Phones, right \in BOOLEAN : Login(p, ph, right)
      BY <1>1, <3>2 DEF Login
    <3>3. CASE \E u \in known : Resend(p, u)
      BY <1>1, <3>3 DEF Resend
    <3>4. CASE \E u \in known, code \in Codes : Verify(p, u, code)
      BY <1>1, <3>4 DEF Verify
    <3> QED
      BY <1>3, <2>2, <3>1, <3>2, <3>3, <3>4 DEF Request
  <2> QED
    BY <2>1, <2>2
<1>4. ASSUME NEW p \in Procs, Handle(p) PROVE Guarding
  BY <1>0, <1>4, GuardsHandle
<1>5. ASSUME NEW cl \in Clients, Elsewhere(cl) PROVE Guarding
  BY <1>2, <1>5 DEF Elsewhere, tables
<1>6. ASSUME NEW d \in DOMAIN challenges, Expire(d) PROVE Guarding
  <2>1. challenges \in Seq(Challenge) /\ challenges[d] \in Challenge
    BY ChallengeRow DEF OInv, Tables
  <2>2. /\ DOMAIN challenges' = DOMAIN challenges
        /\ \A c \in DOMAIN challenges :
              /\ challenges'[c].uses = challenges[c].uses
              /\ challenges'[c].misses = challenges[c].misses
              /\ challenges'[c].attempts = challenges[c].attempts
              /\ challenges'[c].consumed = challenges[c].consumed
    BY <1>6, <2>1 DEF Expire, Challenge
  <2> QED
    BY <1>0, <1>6, <2>2, GuardsKept DEF Expire
<1>7. CASE Crash
  <2>1. UNCHANGED challenges /\ faults' = faults + 1
        /\ \A q \in Procs : place'[q] = "idle"
    BY <1>7 DEF Crash, Fault, tables
  <2> QED
    BY <1>0, <2>1, GuardsKept
<1>8. ASSUME Tick, UNCHANGED <<tables, known, place, call, seen, outcome, calls, faults>>
      PROVE  Guarding
  BY <1>2, <1>8 DEF tables
<1>9. CASE UNCHANGED vars
  BY <1>2, <1>9 DEF vars
<1> QED
  BY <1>3, <1>4, <1>5, <1>6, <1>7, <1>8, <1>9 DEF Next

THEOREM GuardsInvariant == Spec => []Guards
<1>1. Init => Guards
  BY DEF Init, Guards
<1>2. OInv /\ Guards /\ [Next]_vars => Guards'
  BY GuardsStep DEF Guarding
<1> QED
  BY <1>1, <1>2, Invariant, PTL DEF Spec

(* Active and Consume of a verification are two statements: once a code    *)
(* was used nobody comes in with it any more, and only those let in before *)
(* its first use may use it once each.                                     *)
THEOREM CodesAreSpent == Spec => CodeIsSpent
<1> DEFINE Ok == \A c \in DOMAIN challenges : challenges[c].uses > 0 =>
                    /\ LetIn(c)' \subseteq LetIn(c)
                    /\ challenges'[c].uses + Cardinality(LetIn(c)')
                          <= challenges[c].uses + Cardinality(LetIn(c))
<1>1. OInv /\ Guards /\ [Next]_vars => Ok
  BY GuardsStep DEF Guarding, NoNewUse, Serves
<1> HIDE DEF Ok
<1>2. Spec => [][Ok]_vars
  BY <1>1, Invariant, GuardsInvariant, PTL DEF Spec
<1> QED
  BY <1>2, PTL DEF CodeIsSpent, Ok

(* The comparison of otp.Verify and the count of IncrementAttempts are two *)
(* statements, and the error of the second is dropped: the limit is passed *)
(* by less than one guess for each handler, and as many again for a fault. *)
THEOREM GuessesAreBounded == Spec => []GuessesBounded
<1>1. Guards => GuessesBounded
  BY DEF Guards, Guarded, GuessesBounded
<1> QED
  BY <1>1, GuardsInvariant, PTL
===============================================================================
