-------------------------- MODULE Collections_proofs --------------------------
(***************************************************************************)
(* Sums over finite sets and lists that lose elements, for every function, *)
(* every finite set and every sequence: what SumFunctionOnSet of the       *)
(* community modules computes, with which the modules of the ledger and of *)
(* the web app add up entries, and what Without of Lists leaves.           *)
(*                                                                         *)
(* Induction is over sets of numbers: a set of naturals that holds 0 and   *)
(* the successor of each of its elements holds them all.                   *)
(***************************************************************************)
EXTENDS Lists, FiniteSetsExt, FiniteSetTheorems, WellFoundedInduction, TLAPS

LEMMA Induction ==
    ASSUME NEW Q \in SUBSET Nat, 0 \in Q, \A n \in Q : n + 1 \in Q
    PROVE  Q = Nat
<1> SUFFICES ASSUME Nat \ Q # {} PROVE FALSE
  OBVIOUS
<1> DEFINE T == Nat \ Q
<1>0. T \subseteq Nat /\ T # {}
  OBVIOUS
<1>1. PICK m \in T : \A k \in T : ~ (<<k, m>> \in OpToRel(<, Nat))
  <2> HIDE DEF T
  <2> QED
    BY <1>0, NatLessThanWellFounded, WFMin
<1>2. m \in Nat /\ m # 0
  BY <1>1
<1>3. m - 1 \in Nat /\ <<m - 1, m>> \in OpToRel(<, Nat)
  BY <1>2 DEF OpToRel
<1>4. m - 1 \in Q
  BY <1>1, <1>3
<1>5. (m - 1) + 1 \in Q /\ (m - 1) + 1 = m
  BY <1>2, <1>4
<1> QED
  BY <1>1, <1>5

(* The recursion SumFunctionOnSet is defined by: the sum over a set is the *)
(* value at the element CHOOSE picks plus the sum over the others.         *)
Pick(s) == CHOOSE x \in s : TRUE

IsSum(g, f, S) ==
    g = [s \in SUBSET S |-> IF s = {} THEN 0 ELSE f[Pick(s)] + g[s \ {Pick(s)}]]

LEMMA PickIsElement == ASSUME NEW s, s # {} PROVE Pick(s) \in s
BY DEF Pick

(* Some function satisfies the recursion, as far as the sets are finite.   *)
LEMMA SumExists == ASSUME NEW f, NEW S, IsFiniteSet(S) PROVE \E g : IsSum(g, f, S)
<1> DEFINE Small(n) == {s \in SUBSET S : Cardinality(s) <= n}
           Body(g, s) == IF s = {} THEN 0 ELSE f[Pick(s)] + g[s \ {Pick(s)}]
           Defined(n) == \E g : g = [s \in Small(n) |-> Body(g, s)]
           Q == {n \in Nat : Defined(n)}
<1>1. 0 \in Q
  <2> DEFINE zero == [s \in Small(0) |-> 0]
  <2>1. \A s \in Small(0) : s = {}
    <3> SUFFICES ASSUME NEW s \in Small(0) PROVE s = {}
      OBVIOUS
    <3>1. IsFiniteSet(s) /\ s \in SUBSET S /\ Cardinality(s) <= 0
      BY FS_Subset
    <3>2. Cardinality(s) = 0
      BY <3>1, FS_CardinalityType
    <3> QED
      BY <3>1, <3>2, FS_EmptySet
  <2>2. zero = [s \in Small(0) |-> Body(zero, s)]
    BY <2>1
  <2>3. Defined(0)
    BY <2>2
  <2> QED
    BY <2>3
<1>2. ASSUME NEW n \in Q PROVE n + 1 \in Q
  <2>1. PICK g : g = [s \in Small(n) |-> Body(g, s)]
    OBVIOUS
  <2> DEFINE h == [s \in Small(n + 1) |-> Body(g, s)]
  <2>2. ASSUME NEW s \in Small(n + 1), s # {}
        PROVE  s \ {Pick(s)} \in Small(n) /\ s \ {Pick(s)} \in Small(n + 1)
    <3>1. IsFiniteSet(s) /\ Pick(s) \in s
      BY <2>2, FS_Subset, PickIsElement
    <3>2. Cardinality(s \ {Pick(s)}) = Cardinality(s) - 1 /\ Cardinality(s) \in Nat
      BY <3>1, FS_RemoveElement, FS_CardinalityType
    <3> QED
      BY <3>2
  <2>3. ASSUME NEW s \in Small(n + 1), s # {}
        PROVE  h[s \ {Pick(s)}] = g[s \ {Pick(s)}]
    <3> DEFINE t == s \ {Pick(s)}
    <3>1. h[t] = Body(g, t)
      BY <2>2, <2>3
    <3>2. g[t] = Body(g, t)
      BY <2>1, <2>2, <2>3
    <3> QED
      BY <3>1, <3>2
  <2>4. \A s \in Small(n + 1) : Body(h, s) = Body(g, s)
    <3> HIDE DEF h, Small
    <3> QED
      BY <2>3
  <2>5. h = [s \in Small(n + 1) |-> Body(h, s)]
    <3> DEFINE G(s) == Body(g, s)
               H(s) == Body(h, s)
    <3>1. h = [s \in Small(n + 1) |-> G(s)]
      OBVIOUS
    <3>2. \A s \in Small(n + 1) : G(s) = H(s)
      BY <2>4
    <3> HIDE DEF G, H, h, Small
    <3>3. h = [s \in Small(n + 1) |-> H(s)]
      BY <3>1, <3>2
    <3> QED
      BY <3>3 DEF H
  <2>6. Defined(n + 1)
    BY <2>5
  <2> HIDE DEF Defined
  <2> QED
    BY <2>6
<1>3. Q = Nat
  <2> HIDE DEF Q
  <2>1. Q \in SUBSET Nat
    BY DEF Q
  <2> QED
    BY <1>1, <1>2, <2>1, Induction
<1>4. Defined(Cardinality(S))
  BY <1>3, FS_CardinalityType
<1>5. Small(Cardinality(S)) = SUBSET S
  BY FS_Subset
<1> QED
  BY <1>4, <1>5 DEF IsSum

LEMMA SumIsDefined ==
    ASSUME NEW f, NEW S, IsFiniteSet(S)
    PROVE  \E g : IsSum(g, f, S) /\ SumFunctionOnSet(f, S) = g[S]
<1>1. \E g : IsSum(g, f, S)
  BY SumExists
<1> QED
  BY <1>1
  DEF IsSum, Pick, SumFunctionOnSet, FoldFunctionOnSet, MapThenFoldSet

LEMMA SmallerSet ==
    ASSUME NEW s, IsFiniteSet(s), NEW x \in s, NEW n \in Nat, Cardinality(s) = n + 1
    PROVE  Cardinality(s \ {x}) = n
<1>1. Cardinality(s \ {x}) = Cardinality(s) - 1
  BY FS_RemoveElement
<1> QED
  BY <1>1

(* Two sums over one set are the same when the functions agree on it,      *)
(* whatever larger sets the two recursions are written for.                *)
LEMMA SumsAgree ==
    ASSUME NEW A, NEW B, NEW f, NEW h, NEW g1, NEW g2,
           IsSum(g1, f, A), IsSum(g2, h, B),
           NEW C, C \subseteq A, C \subseteq B, IsFiniteSet(C),
           \A x \in C : f[x] = h[x]
    PROVE  g1[C] = g2[C]
<1> DEFINE Q == {n \in Nat : \A s \in SUBSET C : Cardinality(s) = n => g1[s] = g2[s]}
<1>1. ASSUME NEW s \in SUBSET C
      PROVE  /\ s \in SUBSET A /\ s \in SUBSET B
             /\ g1[s] = IF s = {} THEN 0 ELSE f[Pick(s)] + g1[s \ {Pick(s)}]
             /\ g2[s] = IF s = {} THEN 0 ELSE h[Pick(s)] + g2[s \ {Pick(s)}]
  BY DEF IsSum
<1>2. 0 \in Q
  <2>1. ASSUME NEW s \in SUBSET C, Cardinality(s) = 0 PROVE g1[s] = g2[s]
    <3>1. s = {}
      BY <2>1, FS_Subset, FS_EmptySet
    <3> QED
      BY <1>1, <3>1
  <2> QED
    BY <2>1
<1>3. ASSUME NEW n \in Q PROVE n + 1 \in Q
  <2>1. ASSUME NEW s \in SUBSET C, Cardinality(s) = n + 1 PROVE g1[s] = g2[s]
    <3>1. IsFiniteSet(s) /\ n \in Nat
      BY FS_Subset
    <3>2. s # {}
      BY <2>1, <3>1, FS_EmptySet
    <3>3. Pick(s) \in s
      BY <3>2, PickIsElement
    <3>4. Cardinality(s \ {Pick(s)}) = n
      BY <2>1, <3>1, <3>3, SmallerSet
    <3>5. g1[s \ {Pick(s)}] = g2[s \ {Pick(s)}]
      BY <3>4
    <3> QED
      BY <1>1, <3>2, <3>3, <3>5
  <2> QED
    BY <2>1
<1>4. Q = Nat
  <2>1. Q \in SUBSET Nat
    OBVIOUS
  <2> HIDE DEF Q
  <2> QED
    BY <1>2, <1>3, <2>1, Induction
<1> QED
  BY <1>4, FS_CardinalityType

LEMMA SumAgrees ==
    ASSUME NEW f, NEW h, NEW S, IsFiniteSet(S), \A x \in S : f[x] = h[x]
    PROVE  SumFunctionOnSet(f, S) = SumFunctionOnSet(h, S)
<1>1. PICK g1 : IsSum(g1, f, S) /\ SumFunctionOnSet(f, S) = g1[S]
  BY SumIsDefined
<1>2. PICK g2 : IsSum(g2, h, S) /\ SumFunctionOnSet(h, S) = g2[S]
  BY SumIsDefined
<1> QED
  BY <1>1, <1>2, SumsAgree

LEMMA SumOfNothing == ASSUME NEW f PROVE SumFunctionOnSet(f, {}) = 0
<1>1. PICK g : IsSum(g, f, {}) /\ SumFunctionOnSet(f, {}) = g[{}]
  BY SumIsDefined, FS_EmptySet
<1> QED
  BY <1>1 DEF IsSum

LEMMA SumPicks ==
    ASSUME NEW f, NEW S, IsFiniteSet(S), S # {}
    PROVE  SumFunctionOnSet(f, S) = f[Pick(S)] + SumFunctionOnSet(f, S \ {Pick(S)})
<1> DEFINE R == S \ {Pick(S)}
<1>1. IsFiniteSet(R)
  BY FS_RemoveElement
<1>2. PICK g1 : IsSum(g1, f, S) /\ SumFunctionOnSet(f, S) = g1[S]
  BY SumIsDefined
<1>3. PICK g2 : IsSum(g2, f, R) /\ SumFunctionOnSet(f, R) = g2[R]
  BY <1>1, SumIsDefined
<1>4. g1[S] = f[Pick(S)] + g1[R]
  BY <1>2 DEF IsSum
<1>5. g1[R] = g2[R]
  <2> HIDE DEF R
  <2>1. R \subseteq S
    BY DEF R
  <2> QED
    BY <1>1, <1>2, <1>3, <2>1, SumsAgree
<1> QED
  BY <1>2, <1>3, <1>4, <1>5

(* A sum of integers is an integer. *)
LEMMA SumIsInt ==
    ASSUME NEW f, NEW S, IsFiniteSet(S), \A x \in S : f[x] \in Int
    PROVE  SumFunctionOnSet(f, S) \in Int
<1> DEFINE Sum(s) == SumFunctionOnSet(f, s)
           Q == {n \in Nat : \A s \in SUBSET S : Cardinality(s) = n => Sum(s) \in Int}
<1> HIDE DEF Sum
<1>1. 0 \in Q
  <2>1. ASSUME NEW s \in SUBSET S, Cardinality(s) = 0 PROVE Sum(s) = 0
    <3>1. s = {}
      BY <2>1, FS_Subset, FS_EmptySet
    <3> QED
      BY <3>1, SumOfNothing DEF Sum
  <2> QED
    BY <2>1
<1>2. ASSUME NEW n \in Q PROVE n + 1 \in Q
  <2>1. ASSUME NEW s \in SUBSET S, Cardinality(s) = n + 1 PROVE Sum(s) \in Int
    <3>1. IsFiniteSet(s) /\ n \in Nat
      BY FS_Subset
    <3>2. s # {}
      BY <2>1, <3>1, FS_EmptySet
    <3>3. Pick(s) \in s
      BY <3>2, PickIsElement
    <3>4. Cardinality(s \ {Pick(s)}) = n
      BY <2>1, <3>1, <3>3, SmallerSet
    <3>5. Sum(s \ {Pick(s)}) \in Int
      BY <3>4
    <3>6. Sum(s) = f[Pick(s)] + Sum(s \ {Pick(s)})
      BY <3>1, <3>2, SumPicks DEF Sum
    <3> QED
      BY <3>3, <3>5, <3>6
  <2> QED
    BY <2>1
<1>3. Q = Nat
  <2>1. Q \in SUBSET Nat
    OBVIOUS
  <2> HIDE DEF Q
  <2> QED
    BY <1>1, <1>2, <2>1, Induction
<1>4. Sum(S) \in Int
  BY <1>3, FS_CardinalityType
<1> QED
  BY <1>4 DEF Sum

(* Any element may be taken out first. *)
LEMMA SumRemoves ==
    ASSUME NEW f, NEW S, IsFiniteSet(S), \A x \in S : f[x] \in Int, NEW e \in S
    PROVE  SumFunctionOnSet(f, S) = f[e] + SumFunctionOnSet(f, S \ {e})
<1> DEFINE Sum(s) == SumFunctionOnSet(f, s)
           Q == {n \in Nat : \A s \in SUBSET S :
                    Cardinality(s) = n => \A x \in s : Sum(s) = f[x] + Sum(s \ {x})}
<1> HIDE DEF Sum
<1>1. 0 \in Q
  <2>1. ASSUME NEW s \in SUBSET S, Cardinality(s) = 0 PROVE s = {}
    BY <2>1, FS_Subset, FS_EmptySet
  <2> QED
    BY <2>1
<1>2. ASSUME NEW n \in Q PROVE n + 1 \in Q
  <2>1. ASSUME NEW s \in SUBSET S, Cardinality(s) = n + 1, NEW x \in s
        PROVE  Sum(s) = f[x] + Sum(s \ {x})
    <3>1. IsFiniteSet(s) /\ n \in Nat
      BY FS_Subset
    <3>2. PICK y \in s : y = Pick(s) /\ Sum(s) = f[y] + Sum(s \ {y})
      BY <3>1, SumPicks, PickIsElement DEF Sum
    <3>3. CASE x = y
      BY <3>2, <3>3
    <3>4. CASE x # y
      <4>1. Cardinality(s \ {x}) = n /\ Cardinality(s \ {y}) = n
        BY <2>1, <3>1, SmallerSet
      <4>2. Sum(s \ {y}) = f[x] + Sum((s \ {y}) \ {x})
        BY <3>4, <4>1
      <4>3. Sum(s \ {x}) = f[y] + Sum((s \ {x}) \ {y})
        BY <3>4, <4>1
      <4>4. Sum((s \ {y}) \ {x}) = Sum((s \ {x}) \ {y})
        <5>1. (s \ {y}) \ {x} = (s \ {x}) \ {y}
          OBVIOUS
        <5> QED
          BY <5>1, Zenon
      <4>5. Sum((s \ {x}) \ {y}) \in Int
        <5>1. IsFiniteSet((s \ {x}) \ {y})
          BY <3>1, FS_RemoveElement
        <5> QED
          BY <5>1, SumIsInt DEF Sum
      <4>6. f[x] \in Int /\ f[y] \in Int
        OBVIOUS
      <4> QED
        BY <3>2, <4>2, <4>3, <4>4, <4>5, <4>6
    <3> QED
      BY <3>3, <3>4
  <2> QED
    BY <2>1
<1>3. Q = Nat
  <2>1. Q \in SUBSET Nat
    OBVIOUS
  <2> HIDE DEF Q
  <2> QED
    BY <1>1, <1>2, <2>1, Induction
<1>4. Sum(S) = f[e] + Sum(S \ {e})
  BY <1>3, FS_CardinalityType
<1> QED
  BY <1>4 DEF Sum

LEMMA SumAdds ==
    ASSUME NEW f, NEW S, IsFiniteSet(S), NEW e, e \notin S,
           \A x \in S \cup {e} : f[x] \in Int
    PROVE  SumFunctionOnSet(f, S \cup {e}) = SumFunctionOnSet(f, S) + f[e]
<1> DEFINE T == S \cup {e}
<1>1. IsFiniteSet(T) /\ T \ {e} = S
  BY FS_AddElement
<1>2. e \in T /\ \A x \in T : f[x] \in Int
  OBVIOUS
<1>3. SumFunctionOnSet(f, T) = f[e] + SumFunctionOnSet(f, T \ {e})
  <2> HIDE DEF T
  <2> QED
    BY <1>1, <1>2, SumRemoves
<1>4. SumFunctionOnSet(f, S) \in Int /\ f[e] \in Int
  BY SumIsInt
<1>5. SumFunctionOnSet(f, T) = f[e] + SumFunctionOnSet(f, S)
  BY <1>1, <1>3, Zenon
<1> QED
  BY <1>4, <1>5

(* Elements whose value is zero do not count. *)
LEMMA SumSkipsZeros ==
    ASSUME NEW f, NEW S, IsFiniteSet(S), \A x \in S : f[x] \in Int,
           NEW T \in SUBSET S, \A x \in S \ T : f[x] = 0
    PROVE  SumFunctionOnSet(f, S) = SumFunctionOnSet(f, T)
<1> DEFINE Sum(s) == SumFunctionOnSet(f, s)
           Q == {n \in Nat : \A s \in SUBSET S :
                    T \subseteq s /\ Cardinality(s \ T) = n => Sum(s) = Sum(T)}
<1> HIDE DEF Sum
<1>0. ASSUME NEW s \in SUBSET S PROVE IsFiniteSet(s) /\ IsFiniteSet(s \ T)
  <2>1. s \ T \in SUBSET S
    OBVIOUS
  <2> QED
    BY <2>1, FS_Subset
<1>1. 0 \in Q
  <2>1. ASSUME NEW s \in SUBSET S, T \subseteq s, Cardinality(s \ T) = 0
        PROVE  s = T
    <3>1. s \ T = {}
      BY <1>0, <2>1, FS_EmptySet
    <3> QED
      BY <2>1, <3>1
  <2> QED
    BY <2>1
<1>2. ASSUME NEW n \in Q PROVE n + 1 \in Q
  <2>1. ASSUME NEW s \in SUBSET S, T \subseteq s, Cardinality(s \ T) = n + 1
        PROVE  Sum(s) = Sum(T)
    <3>1. IsFiniteSet(s) /\ IsFiniteSet(s \ T) /\ n \in Nat
      BY <1>0
    <3>2. PICK x \in s : x \notin T
      <4>1. s \ T # {}
        BY <2>1, <3>1, FS_EmptySet
      <4> QED
        BY <4>1
    <3>3. Cardinality((s \ {x}) \ T) = n
      <4>1. (s \ {x}) \ T = (s \ T) \ {x} /\ x \in s \ T
        BY <3>2
      <4>2. Cardinality((s \ T) \ {x}) = n
        BY <2>1, <3>1, <4>1, SmallerSet
      <4> QED
        BY <4>1, <4>2
    <3>4. Sum(s \ {x}) = Sum(T)
      BY <2>1, <3>2, <3>3
    <3>5. Sum(s) = f[x] + Sum(s \ {x})
      BY <3>1, SumRemoves DEF Sum
    <3>6. f[x] = 0 /\ Sum(s \ {x}) \in Int
      <4>1. IsFiniteSet(s \ {x})
        BY <3>1, FS_RemoveElement
      <4> QED
        BY <3>2, <4>1, SumIsInt DEF Sum
    <3> QED
      BY <3>4, <3>5, <3>6
  <2> QED
    BY <2>1
<1>3. Q = Nat
  <2>1. Q \in SUBSET Nat
    OBVIOUS
  <2> HIDE DEF Q
  <2> QED
    BY <1>1, <1>2, <2>1, Induction
<1>4. Sum(S) = Sum(T)
  <2>1. Cardinality(S \ T) \in Q
    BY <1>0, <1>3, FS_CardinalityType
  <2> QED
    BY <2>1
<1> QED
  BY <1>4 DEF Sum

(* A sum of naturals is a natural. *)
LEMMA SumIsNat ==
    ASSUME NEW f, NEW S, IsFiniteSet(S), \A x \in S : f[x] \in Nat
    PROVE  SumFunctionOnSet(f, S) \in Nat
<1> DEFINE Sum(s) == SumFunctionOnSet(f, s)
           Q == {n \in Nat : \A s \in SUBSET S : Cardinality(s) = n => Sum(s) \in Nat}
<1> HIDE DEF Sum
<1>1. 0 \in Q
  <2>1. ASSUME NEW s \in SUBSET S, Cardinality(s) = 0 PROVE Sum(s) = 0
    <3>1. s = {}
      BY <2>1, FS_Subset, FS_EmptySet
    <3> QED
      BY <3>1, SumOfNothing DEF Sum
  <2> QED
    BY <2>1
<1>2. ASSUME NEW n \in Q PROVE n + 1 \in Q
  <2>1. ASSUME NEW s \in SUBSET S, Cardinality(s) = n + 1 PROVE Sum(s) \in Nat
    <3>1. IsFiniteSet(s) /\ n \in Nat
      BY FS_Subset
    <3>2. s # {}
      BY <2>1, <3>1, FS_EmptySet
    <3>3. Pick(s) \in s
      BY <3>2, PickIsElement
    <3>4. Cardinality(s \ {Pick(s)}) = n
      BY <2>1, <3>1, <3>3, SmallerSet
    <3>5. Sum(s \ {Pick(s)}) \in Nat
      BY <3>4
    <3>6. Sum(s) = f[Pick(s)] + Sum(s \ {Pick(s)})
      BY <3>1, <3>2, SumPicks DEF Sum
    <3> QED
      BY <3>3, <3>5, <3>6
  <2> QED
    BY <2>1
<1>3. Q = Nat
  <2>1. Q \in SUBSET Nat
    OBVIOUS
  <2> HIDE DEF Q
  <2> QED
    BY <1>1, <1>2, <2>1, Induction
<1>4. Sum(S) \in Nat
  BY <1>3, FS_CardinalityType
<1> QED
  BY <1>4 DEF Sum

(* The positions of a sequence that are selected for a sum.                *)
LEMMA PositionsAreFinite ==
    ASSUME NEW n \in Nat, NEW S, S \subseteq 1 .. n PROVE IsFiniteSet(S)
<1>1. IsFiniteSet(1 .. n)
  BY FS_Interval
<1> QED
  BY <1>1, FS_Subset

(* Two's complement of an integer that fits leaves it as it is. *)
LEMMA ModKeeps ==
    ASSUME NEW h \in Nat \ {0}, NEW n \in -h .. h - 1
    PROVE  ((n + h) % (2 * h)) - h = n
<1>1. n + h \in Nat /\ n + h < 2 * h /\ n \in Int /\ 2 * h \in Nat
  OBVIOUS
<1>2. \A a, b \in Nat : a < b => a % b = a
  OBVIOUS
<1>3. (n + h) % (2 * h) = n + h
  BY <1>1, <1>2
<1> QED
  BY <1>1, <1>3
-------------------------------------------------------------------------------
(* Lists.  g is the recursion Without is defined by.                       *)

IsWithout(g, s, xs) ==
    g = [n \in 0 .. Len(s) |-> IF n = 0 THEN <<>>
                               ELSE IF s[n] \in xs THEN g[n - 1]
                               ELSE Append(g[n - 1], s[n])]

(* Some function satisfies the recursion that Without is defined by.       *)
LEMMA WithoutExists == ASSUME NEW s, NEW xs, Len(s) \in Nat PROVE \E g : IsWithout(g, s, xs)
<1> DEFINE Body(g, n) == IF n = 0 THEN <<>>
                         ELSE IF s[n] \in xs THEN g[n - 1]
                         ELSE Append(g[n - 1], s[n])
           Defined(m) == \E g : g = [n \in 0 .. m |-> Body(g, n)]
           Q == {m \in Nat : Defined(m)}
<1>1. 0 \in Q
  <2> DEFINE g == [n \in 0 .. 0 |-> <<>>]
  <2>1. g = [n \in 0 .. 0 |-> Body(g, n)]
    OBVIOUS
  <2> QED
    BY <2>1
<1>2. ASSUME NEW m \in Q PROVE m + 1 \in Q
  <2>1. PICK g : g = [n \in 0 .. m |-> Body(g, n)]
    BY <1>2
  <2> DEFINE g2 == [n \in 0 .. m + 1 |-> IF n = m + 1 THEN Body(g, n) ELSE g[n]]
  <2>2. ASSUME NEW n \in 0 .. m + 1 PROVE g2[n] = Body(g2, n)
    <3>1. CASE n = 0
      BY <2>1, <3>1
    <3>2. CASE n # 0
      <4>1. n - 1 \in 0 .. m /\ g2[n - 1] = g[n - 1]
        BY <3>2
      <4>2. g2[n] = Body(g, n)
        <5>1. CASE n = m + 1
          BY <5>1
        <5>2. CASE n # m + 1
          <6>1. n \in 0 .. m /\ g2[n] = g[n]
            BY <5>2
          <6> HIDE DEF g2
          <6>2. g[n] = Body(g, n)
            BY <2>1, <6>1
          <6> QED
            BY <6>1, <6>2
        <5> QED
          BY <5>1, <5>2
      <4> HIDE DEF g2
      <4> QED
        BY <3>2, <4>1, <4>2
    <3> QED
      BY <3>1, <3>2
  <2>3. g2 = [n \in 0 .. m + 1 |-> g2[n]]
    OBVIOUS
  <2> HIDE DEF g2
  <2>4. g2 = [n \in 0 .. m + 1 |-> Body(g2, n)]
    BY <2>2, <2>3
  <2> HIDE DEF Body
  <2> QED
    BY <2>4
<1>3. Q = Nat
  <2> HIDE DEF Q
  <2>1. Q \in SUBSET Nat
    BY DEF Q
  <2> QED
    BY <1>1, <1>2, <2>1, Induction
<1>4. Defined(Len(s))
  BY <1>3
<1> QED
  BY <1>4 DEF IsWithout

LEMMA WithoutIsDefined ==
    ASSUME NEW s, NEW xs, Len(s) \in Nat
    PROVE  \E g : IsWithout(g, s, xs) /\ Without(s, xs) = g[Len(s)]
<1>1. \E g : IsWithout(g, s, xs)
  BY WithoutExists
<1> QED
  BY <1>1 DEF IsWithout, Without

(* The elements that stay, in their order: h says where each one was.      *)
Embeds(h, r, s, n, xs) ==
    /\ h \in [1 .. Len(r) -> 1 .. n]
    /\ \A k \in 1 .. Len(r) : r[k] = s[h[k]] /\ s[h[k]] \notin xs
    /\ \A k, l \in 1 .. Len(r) : k < l => h[k] < h[l]
    /\ \A i \in 1 .. n : s[i] \notin xs => \E k \in 1 .. Len(r) : h[k] = i

LEMMA WithoutEmbeds ==
    ASSUME NEW S, NEW s \in Seq(S), NEW xs
    PROVE  /\ Without(s, xs) \in Seq(S)
           /\ \E h : Embeds(h, Without(s, xs), s, Len(s), xs)
<1>1. PICK g : IsWithout(g, s, xs) /\ Without(s, xs) = g[Len(s)]
  BY WithoutIsDefined
<1> DEFINE Good(n) == g[n] \in Seq(S) /\ \E h : Embeds(h, g[n], s, n, xs)
           Q == {n \in Nat : n <= Len(s) => Good(n)}
<1>2. 0 \in Q
  <2>1. g[0] = <<>>
    BY <1>1 DEF IsWithout
  <2>2. Embeds(<<>>, g[0], s, 0, xs)
    BY <2>1 DEF Embeds
  <2>3. g[0] \in Seq(S)
    BY <2>1
  <2> HIDE DEF Embeds
  <2>4. Good(0)
    BY <2>2, <2>3
  <2> QED
    BY <2>4
<1>3. ASSUME NEW n \in Q PROVE n + 1 \in Q
  <2> SUFFICES ASSUME n + 1 <= Len(s) PROVE Good(n + 1)
    OBVIOUS
  <2>1. Good(n) /\ n \in Nat
    BY <1>3
  <2> HIDE DEF Good
  <2>2. PICK h : Embeds(h, g[n], s, n, xs)
    BY <2>1 DEF Good
  <2>3. g[n] \in Seq(S)
    BY <2>1 DEF Good
  <2>4. g[n + 1] = IF s[n + 1] \in xs THEN g[n] ELSE Append(g[n], s[n + 1])
    <3>1. n + 1 \in 0 .. Len(s) /\ n + 1 # 0 /\ (n + 1) - 1 = n
      BY <2>1
    <3> QED
      BY <1>1, <3>1 DEF IsWithout
  <2>5. CASE s[n + 1] \in xs
    <3>1. Embeds(h, g[n], s, n + 1, xs)
      BY <2>2, <2>3, <2>5, <2>1 DEF Embeds
    <3> QED
      BY <2>3, <2>4, <2>5, <3>1 DEF Good
  <2>6. CASE s[n + 1] \notin xs
    <3> DEFINE r == Append(g[n], s[n + 1])
               m == Len(g[n])
               h2 == [k \in 1 .. m + 1 |-> IF k = m + 1 THEN n + 1 ELSE h[k]]
    <3>1. m \in Nat /\ r \in Seq(S) /\ Len(r) = m + 1 /\ r[m + 1] = s[n + 1]
          /\ \A k \in 1 .. m : r[k] = g[n][k]
      <4>1. s[n + 1] \in S
        BY <2>1
      <4> QED
        BY <2>3, <4>1
    <3>2. \A k \in 1 .. m : h[k] \in 1 .. n /\ h2[k] = h[k]
      <4>1. h \in [1 .. m -> 1 .. n]
        BY <2>2 DEF Embeds
      <4>2. m + 1 \notin 1 .. m /\ 1 .. m \subseteq 1 .. m + 1
        BY <3>1
      <4> HIDE DEF m
      <4> QED
        BY <4>1, <4>2
    <3>3. h2[m + 1] = n + 1
      BY <3>1
    <3>4. h2 \in [1 .. m + 1 -> 1 .. n + 1]
      <4> SUFFICES ASSUME NEW k \in 1 .. m + 1
                   PROVE  (IF k = m + 1 THEN n + 1 ELSE h[k]) \in 1 .. n + 1
        OBVIOUS
      <4>1. CASE k = m + 1
        BY <2>1, <4>1
      <4>2. CASE k # m + 1
        <5>1. k \in 1 .. m
          BY <3>1, <4>2
        <5>2. h[k] \in 1 .. n
          BY <3>2, <5>1
        <5> QED
          BY <2>1, <4>2, <5>2
      <4> QED
        BY <4>1, <4>2
    <3> HIDE DEF h2, r, m
    <3>5. \A k \in 1 .. m + 1 : k \in 1 .. m \/ k = m + 1
      BY <3>1
    <3>6. \A k \in 1 .. m + 1 : r[k] = s[h2[k]] /\ s[h2[k]] \notin xs
      <4> SUFFICES ASSUME NEW k \in 1 .. m + 1 PROVE r[k] = s[h2[k]] /\ s[h2[k]] \notin xs
        OBVIOUS
      <4>1. CASE k \in 1 .. m
        BY <2>2, <3>1, <3>2, <4>1 DEF Embeds, m
      <4>2. CASE k = m + 1
        BY <2>6, <3>1, <3>3, <4>2
      <4> QED
        BY <3>5, <4>1, <4>2
    <3>7. \A k, l \in 1 .. m + 1 : k < l => h2[k] < h2[l]
      <4> SUFFICES ASSUME NEW k \in 1 .. m + 1, NEW l \in 1 .. m + 1, k < l PROVE h2[k] < h2[l]
        OBVIOUS
      <4>1. k \in 1 .. m
        BY <3>1
      <4>2. CASE l \in 1 .. m
        BY <2>2, <3>2, <4>1, <4>2 DEF Embeds, m
      <4>3. CASE l = m + 1
        BY <2>1, <3>2, <3>3, <4>1, <4>3
      <4> QED
        BY <3>5, <4>2, <4>3
    <3>8. \A i \in 1 .. n + 1 : s[i] \notin xs => \E k \in 1 .. m + 1 : h2[k] = i
      <4> SUFFICES ASSUME NEW i \in 1 .. n + 1, s[i] \notin xs
                   PROVE  \E k \in 1 .. m + 1 : h2[k] = i
        OBVIOUS
      <4>1. CASE i = n + 1
        BY <3>1, <3>3, <4>1
      <4>2. CASE i # n + 1
        <5>1. i \in 1 .. n
          BY <2>1, <4>2
        <5>2. PICK k \in 1 .. m : h[k] = i
          BY <2>2, <5>1 DEF Embeds, m
        <5> QED
          BY <3>1, <3>2, <5>2
      <4> QED
        BY <4>1, <4>2
    <3>9. Embeds(h2, r, s, n + 1, xs)
      BY <3>1, <3>4, <3>6, <3>7, <3>8 DEF Embeds
    <3>10. g[n + 1] = r
      BY <2>4, <2>6 DEF r
    <3> QED
      BY <3>1, <3>9, <3>10 DEF Good
  <2> QED
    BY <2>5, <2>6
<1>4. Q = Nat
  <2> HIDE DEF Q
  <2>1. Q \in SUBSET Nat
    BY DEF Q
  <2> QED
    BY <1>2, <1>3, <2>1, Induction
<1>5. Good(Len(s))
  BY <1>4
<1> QED
  BY <1>1, <1>5
(* An element more at the end stays or is dropped, by itself. *)
LEMMA WithoutAppends ==
    ASSUME NEW S, NEW s \in Seq(S), NEW e \in S, NEW xs
    PROVE  Without(Append(s, e), xs) =
              IF e \in xs THEN Without(s, xs) ELSE Append(Without(s, xs), e)
<1> DEFINE t == Append(s, e)
           N == Len(s)
<1>1. /\ N \in Nat /\ Len(t) = N + 1 /\ t[N + 1] = e /\ Len(t) \in Nat
      /\ \A n \in 1 .. N : t[n] = s[n]
  OBVIOUS
<1>2. PICK g : IsWithout(g, s, xs) /\ Without(s, xs) = g[N]
  BY <1>1, WithoutIsDefined
<1> HIDE DEF t, N
<1>3. PICK h : IsWithout(h, t, xs) /\ Without(t, xs) = h[Len(t)]
  BY <1>1, WithoutIsDefined
<1>4. ASSUME NEW n \in 0 .. N
      PROVE  /\ g[n] = IF n = 0 THEN <<>> ELSE IF s[n] \in xs THEN g[n - 1]
                                              ELSE Append(g[n - 1], s[n])
  BY <1>2 DEF IsWithout, N
<1>5. ASSUME NEW n \in 0 .. N + 1
      PROVE  /\ h[n] = IF n = 0 THEN <<>> ELSE IF t[n] \in xs THEN h[n - 1]
                                              ELSE Append(h[n - 1], t[n])
  BY <1>1, <1>3 DEF IsWithout
<1> DEFINE Q == {n \in Nat : n <= N => g[n] = h[n]}
<1>6. 0 \in Q
  BY <1>1, <1>4, <1>5
<1>7. ASSUME NEW n \in Q PROVE n + 1 \in Q
  <2> SUFFICES ASSUME n + 1 <= N PROVE g[n + 1] = h[n + 1]
    OBVIOUS
  <2>1. n \in Nat /\ n + 1 \in 1 .. N /\ n + 1 \in 0 .. N /\ n + 1 \in 0 .. N + 1
        /\ (n + 1) - 1 = n /\ n + 1 # 0 /\ g[n] = h[n]
    BY <1>1
  <2>2. t[n + 1] = s[n + 1]
    BY <1>1, <2>1
  <2> HIDE DEF Q
  <2> QED
    BY <1>4, <1>5, <2>1, <2>2
<1>8. Q = Nat
  <2>1. Q \in SUBSET Nat
    OBVIOUS
  <2> HIDE DEF Q
  <2> QED
    BY <1>6, <1>7, <2>1, Induction
<1>9. g[N] = h[N]
  BY <1>1, <1>8
<1>10. h[N + 1] = IF e \in xs THEN h[N] ELSE Append(h[N], e)
  <2>1. N + 1 \in 0 .. N + 1 /\ N + 1 # 0 /\ (N + 1) - 1 = N
    BY <1>1
  <2> QED
    BY <1>1, <1>5, <2>1
<1> QED
  BY <1>1, <1>2, <1>3, <1>9, <1>10 DEF t

LEMMA WithoutNothing == ASSUME NEW xs PROVE Without(<<>>, xs) = <<>>
<1>1. Len(<<>>) = 0
  OBVIOUS
<1>2. PICK g : IsWithout(g, <<>>, xs) /\ Without(<<>>, xs) = g[0]
  BY <1>1, WithoutIsDefined
<1> QED
  BY <1>1, <1>2 DEF IsWithout
===============================================================================
