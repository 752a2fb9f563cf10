---------------------------- MODULE Sheets_proofs ----------------------------
(***************************************************************************)
(* What holds of the sheets and the back button for any tabs, any length   *)
(* of the history and any number of navigations under way.                 *)
(***************************************************************************)
EXTENDS Sheets, Collections_proofs

Ids == {"send", "message"}

(* What Open, Close and a refused press of back do to the two lists is     *)
(* said with the set of the sheets that left the stack.                    *)
Left == ToSet(shown) \ ToSet(overlays)

(* What the back button relies on.  Every entry above the first was pushed: *)
(* depthRef counted the push, or it was overtaken, or it still waits; a pop *)
(* that waits has left the history and is counted down later.               *)
PopAwaited == IF pending = "POP" THEN 1 ELSE 0

DepthAccounts ==
    /\ Len(entries) - 1 <= depth + uncounted + Awaited - PopAwaited
    /\ ExitsAtRoot

IInv == TypeOK /\ StackMatchesSheets /\ DepthAccounts

-------------------------------------------------------------------------------
(* Lists: what Front, Last and Without leave of them.                      *)

LEMMA ListParts ==
    ASSUME NEW S, NEW s \in Seq(S), s # <<>>
    PROVE  /\ Front(s) \in Seq(S) /\ Len(Front(s)) = Len(s) - 1 /\ Len(s) \in Nat \ {0}
           /\ Last(s) \in S /\ Last(s) \in ToSet(s)
           /\ s = Append(Front(s), Last(s))
           /\ ToSet(s) = ToSet(Front(s)) \cup {Last(s)}
           /\ IsInjective(s) => Last(s) \notin ToSet(Front(s))
<1> DEFINE N == Len(s)
           F == SubSeq(s, 1, N - 1)
<1>1. N \in Nat \ {0} /\ s = [i \in 1 .. N |-> s[i]] /\ DOMAIN s = 1 .. N
      /\ \A i \in 1 .. N : s[i] \in S
  OBVIOUS
<1>2. F \in Seq(S) /\ Len(F) = N - 1 /\ DOMAIN F = 1 .. N - 1
      /\ \A i \in 1 .. N - 1 : F[i] = s[i]
  BY <1>1
<1>3. s = Append(F, s[N])
  BY <1>1, <1>2
<1>4. \A i \in 1 .. N : i \in 1 .. N - 1 \/ i = N
  BY <1>1
<1>5. N \in 1 .. N /\ 1 .. N - 1 \subseteq 1 .. N /\ N \notin 1 .. N - 1
  BY <1>1
<1> HIDE DEF N, F
<1>6. Last(s) = s[N] /\ Front(s) = F
  BY DEF Last, Front, N, F
<1>7. /\ \A x : x \in ToSet(s) <=> \E i \in 1 .. N : s[i] = x
      /\ \A x : x \in ToSet(F) <=> \E i \in 1 .. N - 1 : F[i] = x
  <2>1. ToSet(s) = {s[i] : i \in 1 .. N}
    BY <1>1 DEF ToSet
  <2>2. ToSet(F) = {F[i] : i \in 1 .. N - 1}
    BY <1>2 DEF ToSet
  <2> QED
    BY <2>1, <2>2
<1>8. ToSet(s) = ToSet(F) \cup {s[N]} /\ s[N] \in ToSet(s)
  <2>1. s[N] \in ToSet(s)
    BY <1>5, <1>7
  <2>2. ASSUME NEW x \in ToSet(F) PROVE x \in ToSet(s)
    <3>1. PICK i \in 1 .. N - 1 : F[i] = x
      BY <1>7, <2>2
    <3>2. i \in 1 .. N /\ s[i] = x
      BY <1>2, <1>5, <3>1
    <3> QED
      BY <1>7, <3>2
  <2>3. ASSUME NEW x \in ToSet(s), x # s[N] PROVE x \in ToSet(F)
    <3>1. PICK i \in 1 .. N : s[i] = x
      BY <1>7, <2>3
    <3>2. i \in 1 .. N - 1 /\ F[i] = x
      BY <1>2, <1>4, <2>3, <3>1
    <3> QED
      BY <1>7, <3>2
  <2> QED
    BY <2>1, <2>2, <2>3
<1>9. ASSUME IsInjective(s), s[N] \in ToSet(F) PROVE FALSE
  <2>1. PICK i \in 1 .. N - 1 : F[i] = s[N]
    BY <1>7, <1>9
  <2>2. i \in 1 .. N /\ s[i] = s[N] /\ i # N
    BY <1>2, <1>5, <2>1
  <2> QED
    BY <1>1, <1>5, <1>9, <2>2 DEF IsInjective
<1>10. IsInjective(s) => s[N] \notin ToSet(F)
  BY <1>9
<1>11. s[N] \in S /\ Len(F) = N - 1 /\ N = Len(s)
  BY <1>1, <1>2, <1>5 DEF N
<1> HIDE DEF F
<1>12. Front(s) \in Seq(S) /\ Len(Front(s)) = Len(s) - 1 /\ Len(s) \in Nat \ {0}
  BY <1>1, <1>2, <1>6, <1>11
<1>13. Last(s) \in S /\ Last(s) \in ToSet(s) /\ s = Append(Front(s), Last(s))
  BY <1>3, <1>6, <1>8, <1>11
<1>14. ToSet(s) = ToSet(Front(s)) \cup {Last(s)}
  BY <1>6, <1>8, Zenon
<1>15. IsInjective(s) => Last(s) \notin ToSet(Front(s))
  BY <1>6, <1>10, Zenon
<1> QED
  BY <1>12, <1>13, <1>14, <1>15

(* Without drops nothing that is not asked for ... *)
LEMMA WithoutNone ==
    ASSUME NEW S, NEW xs
    PROVE  \A s \in Seq(S) : xs \cap ToSet(s) = {} => Without(s, xs) = s
<1> DEFINE Q == {n \in Nat : \A s \in Seq(S) :
                    Len(s) = n /\ xs \cap ToSet(s) = {} => Without(s, xs) = s}
<1>1. 0 \in Q
  <2> SUFFICES ASSUME NEW s \in Seq(S), Len(s) = 0 PROVE Without(s, xs) = s
    OBVIOUS
  <2>1. s = <<>>
    OBVIOUS
  <2> QED
    BY <2>1, WithoutNothing
<1>2. ASSUME NEW n \in Q PROVE n + 1 \in Q
  <2> SUFFICES ASSUME NEW s \in Seq(S), Len(s) = n + 1, xs \cap ToSet(s) = {}
               PROVE  Without(s, xs) = s
    OBVIOUS
  <2> DEFINE F == Front(s)
             e == Last(s)
  <2>1. s # <<>>
    OBVIOUS
  <2>2. F \in Seq(S) /\ Len(F) = n /\ e \in S /\ s = Append(F, e)
        /\ ToSet(s) = ToSet(F) \cup {e}
    BY <2>1, ListParts
  <2> HIDE DEF F, e
  <2>3. Without(F, xs) = F /\ e \notin xs
    BY <2>2
  <2>4. Without(Append(F, e), xs) = Append(Without(F, xs), e)
    BY <2>2, <2>3, WithoutAppends
  <2> QED
    BY <2>2, <2>3, <2>4
<1>3. Q = Nat
  <2>1. Q \in SUBSET Nat
    OBVIOUS
  <2> HIDE DEF Q
  <2> QED
    BY <1>1, <1>2, <2>1, Induction
<1> QED
  BY <1>3

(* ... depends only on what the list holds ... *)
LEMMA WithoutAgrees ==
    ASSUME NEW S, NEW xs, NEW ys
    PROVE  \A s \in Seq(S) : xs \cap ToSet(s) = ys \cap ToSet(s) => Without(s, xs) = Without(s, ys)
<1> DEFINE Q == {n \in Nat : \A s \in Seq(S) :
                    Len(s) = n /\ xs \cap ToSet(s) = ys \cap ToSet(s)
                       => Without(s, xs) = Without(s, ys)}
<1>1. 0 \in Q
  <2> SUFFICES ASSUME NEW s \in Seq(S), Len(s) = 0 PROVE Without(s, xs) = Without(s, ys)
    OBVIOUS
  <2>1. s = <<>>
    OBVIOUS
  <2> QED
    BY <2>1, WithoutNothing
<1>2. ASSUME NEW n \in Q PROVE n + 1 \in Q
  <2> SUFFICES ASSUME NEW s \in Seq(S), Len(s) = n + 1, xs \cap ToSet(s) = ys \cap ToSet(s)
               PROVE  Without(s, xs) = Without(s, ys)
    OBVIOUS
  <2> DEFINE F == Front(s)
             e == Last(s)
  <2>1. s # <<>>
    OBVIOUS
  <2>2. F \in Seq(S) /\ Len(F) = n /\ e \in S /\ s = Append(F, e)
        /\ ToSet(s) = ToSet(F) \cup {e}
    BY <2>1, ListParts
  <2> HIDE DEF F, e
  <2>3. e \in xs <=> e \in ys
    BY <2>2
  <2>4. Without(F, xs) = Without(F, ys)
    <3>1. xs \cap ToSet(F) = ys \cap ToSet(F)
      BY <2>2
    <3> QED
      BY <2>2, <3>1
  <2>5. /\ Without(Append(F, e), xs) = IF e \in xs THEN Without(F, xs) ELSE Append(Without(F, xs), e)
        /\ Without(Append(F, e), ys) = IF e \in ys THEN Without(F, ys) ELSE Append(Without(F, ys), e)
    BY <2>2, WithoutAppends
  <2> QED
    BY <2>2, <2>3, <2>4, <2>5
<1>3. Q = Nat
  <2>1. Q \in SUBSET Nat
    OBVIOUS
  <2> HIDE DEF Q
  <2> QED
    BY <1>1, <1>2, <2>1, Induction
<1> QED
  BY <1>3

(* ... and twice is once without both. *)
LEMMA WithoutTwice ==
    ASSUME NEW S, NEW xs, NEW ys
    PROVE  \A s \in Seq(S) : Without(Without(s, xs), ys) = Without(s, xs \cup ys)
<1> DEFINE Twice(s) == Without(Without(s, xs), ys) = Without(s, xs \cup ys)
           Q == {n \in Nat : \A s \in Seq(S) : Len(s) = n => Twice(s)}
<1> HIDE DEF Twice
<1>1. 0 \in Q
  <2> SUFFICES ASSUME NEW s \in Seq(S), Len(s) = 0
               PROVE  Twice(s)
    OBVIOUS
  <2>1. s = <<>>
    OBVIOUS
  <2>2. Without(s, xs) = <<>> /\ Without(s, xs \cup ys) = <<>> /\ Without(<<>>, ys) = <<>>
    BY <2>1, WithoutNothing
  <2> QED
    BY <2>1, <2>2 DEF Twice
<1>2. ASSUME NEW n \in Q PROVE n + 1 \in Q
  <2> SUFFICES ASSUME NEW s \in Seq(S), Len(s) = n + 1
               PROVE  Twice(s)
    OBVIOUS
  <2> DEFINE F == Front(s)
             e == Last(s)
             both == xs \cup ys
             r == Without(F, xs)
  <2>1. s # <<>>
    OBVIOUS
  <2>2. F \in Seq(S) /\ Len(F) = n /\ e \in S /\ s = Append(F, e)
    BY <2>1, ListParts
  <2>3. Without(r, ys) = Without(F, both)
    <3>1. Twice(F)
      BY <2>2
    <3> QED
      BY <3>1 DEF Twice
  <2>4. e \in both <=> e \in xs \/ e \in ys
    OBVIOUS
  <2> HIDE DEF F, e, both
  <2>5. r \in Seq(S)
    BY <2>2, WithoutEmbeds
  <2>6. Without(Append(F, e), xs) = IF e \in xs THEN r ELSE Append(r, e)
    BY <2>2, WithoutAppends
  <2>7. Without(Append(F, e), both) = IF e \in both THEN Without(F, both)
                                      ELSE Append(Without(F, both), e)
    BY <2>2, WithoutAppends
  <2> HIDE DEF r
  <2>8. Without(Append(r, e), ys) = IF e \in ys THEN Without(r, ys) ELSE Append(Without(r, ys), e)
    BY <2>2, <2>5, WithoutAppends
  <2>9. Without(Without(s, xs), ys) = Without(s, both)
    BY <2>2, <2>3, <2>4, <2>6, <2>7, <2>8
  <2> QED
    BY <2>9 DEF both, Twice
<1>3. Q = Nat
  <2>1. Q \in SUBSET Nat
    OBVIOUS
  <2> HIDE DEF Q
  <2> QED
    BY <1>1, <1>2, <2>1, Induction
<1>4. ASSUME NEW s \in Seq(S) PROVE Twice(s)
  BY <1>3
<1> QED
  BY <1>4 DEF Twice

LEMMA WithoutHolds ==
    ASSUME NEW S, NEW s \in Seq(S), NEW xs
    PROVE  /\ Without(s, xs) \in Seq(S)
           /\ ToSet(Without(s, xs)) = ToSet(s) \ xs
           /\ IsInjective(s) => IsInjective(Without(s, xs))
<1> DEFINE r == Without(s, xs)
<1>1. PICK h : Embeds(h, r, s, Len(s), xs)
  BY WithoutEmbeds
<1>2. r \in Seq(S)
  BY WithoutEmbeds
<1> HIDE DEF r
<1>3. DOMAIN r = 1 .. Len(r) /\ DOMAIN s = 1 .. Len(s) /\ Len(r) \in Nat /\ Len(s) \in Nat
  BY <1>2
<1>4. ToSet(r) = ToSet(s) \ xs
  <2>1. ASSUME NEW k \in 1 .. Len(r) PROVE r[k] \in ToSet(s) \ xs
    BY <1>1, <1>3 DEF Embeds, ToSet
  <2>2. ASSUME NEW i \in 1 .. Len(s), s[i] \notin xs PROVE s[i] \in ToSet(r)
    <3>1. PICK k \in 1 .. Len(r) : h[k] = i
      BY <1>1, <2>2 DEF Embeds
    <3>2. r[k] = s[i]
      BY <1>1, <3>1 DEF Embeds
    <3> QED
      BY <1>3, <3>2 DEF ToSet
  <2> QED
    BY <1>3, <2>1, <2>2 DEF ToSet
<1>5. ASSUME IsInjective(s) PROVE IsInjective(r)
  <2> SUFFICES ASSUME NEW k \in 1 .. Len(r), NEW l \in 1 .. Len(r), r[k] = r[l], k < l
               PROVE  FALSE
    BY <1>3 DEF IsInjective
  <2>1. h[k] \in 1 .. Len(s) /\ h[l] \in 1 .. Len(s) /\ h[k] < h[l]
    BY <1>1 DEF Embeds
  <2>2. s[h[k]] = s[h[l]]
    BY <1>1 DEF Embeds
  <2>3. h[k] = h[l]
    BY <1>3, <1>5, <2>1, <2>2 DEF IsInjective
  <2> QED
    BY <2>1, <2>3
<1> QED
  BY <1>2, <1>4, <1>5 DEF r

-------------------------------------------------------------------------------
(* The two lists: the open sheets sh and the stack ov.                     *)

Stacked(sh, ov) ==
    /\ sh \in Seq(Ids) /\ IsInjective(sh)
    /\ ov \in Seq(Ids) /\ IsInjective(ov)
    /\ ov = Without(sh, ToSet(sh) \ ToSet(ov))

LEMMA StackHolds ==
    ASSUME NEW sh, NEW ov, Stacked(sh, ov) PROVE ToSet(ov) \subseteq ToSet(sh)
<1>1. ToSet(Without(sh, ToSet(sh) \ ToSet(ov))) = ToSet(sh) \ (ToSet(sh) \ ToSet(ov))
  BY WithoutHolds DEF Stacked
<1> QED
  BY <1>1 DEF Stacked

LEMMA StackIs ==
    ASSUME NEW sh \in Seq(Ids), IsInjective(sh), NEW X, X \subseteq ToSet(sh)
    PROVE  /\ Stacked(sh, Without(sh, X))
           /\ ToSet(Without(sh, X)) = ToSet(sh) \ X
<1> DEFINE ov == Without(sh, X)
<1>1. ov \in Seq(Ids) /\ IsInjective(ov) /\ ToSet(ov) = ToSet(sh) \ X
  BY WithoutHolds
<1>2. ToSet(sh) \ ToSet(ov) = X
  BY <1>1
<1>3. ov = Without(sh, ToSet(sh) \ ToSet(ov))
  BY <1>2, Zenon
<1> HIDE DEF ov
<1>4. Stacked(sh, ov)
  BY <1>1, <1>3 DEF Stacked
<1> QED
  BY <1>1, <1>4 DEF ov

(* Sheets close: they leave both lists. *)
LEMMA StackShrinks ==
    ASSUME NEW sh, NEW ov, Stacked(sh, ov), NEW ss
    PROVE  /\ Stacked(Without(sh, ss), Without(ov, ss))
           /\ ToSet(Without(sh, ss)) = ToSet(sh) \ ss
           /\ ToSet(Without(ov, ss)) = ToSet(ov) \ ss
<1> DEFINE X == ToSet(sh) \ ToSet(ov)
           sh2 == Without(sh, ss)
           ov2 == Without(ov, ss)
<1>1. sh \in Seq(Ids) /\ IsInjective(sh) /\ ov \in Seq(Ids) /\ ov = Without(sh, X)
  BY DEF Stacked
<1>2. sh2 \in Seq(Ids) /\ IsInjective(sh2) /\ ToSet(sh2) = ToSet(sh) \ ss
      /\ ToSet(ov2) = ToSet(ov) \ ss
  BY <1>1, WithoutHolds
<1> HIDE DEF X
<1>3. ov2 = Without(sh, X \cup ss)
  BY <1>1, WithoutTwice
<1>4. Without(sh, X \cup ss) = Without(sh, ss \cup X)
  <2>1. X \cup ss = ss \cup X
    OBVIOUS
  <2> QED
    BY <2>1, Zenon
<1>5. Without(sh, ss \cup X) = Without(sh2, X)
  BY <1>1, WithoutTwice
<1>6. Without(sh2, X) = Without(sh2, X \ ss)
  <2>1. X \cap ToSet(sh2) = (X \ ss) \cap ToSet(sh2)
    BY <1>2
  <2> HIDE DEF sh2
  <2> QED
    BY <1>2, <2>1, WithoutAgrees
<1>7. ov2 = Without(sh2, X \ ss) /\ X \ ss \subseteq ToSet(sh2)
  BY <1>2, <1>3, <1>4, <1>5, <1>6 DEF X
<1> HIDE DEF sh2, ov2
<1>8. Stacked(sh2, ov2)
  BY <1>2, <1>7, StackIs
<1> QED
  BY <1>2, <1>8 DEF sh2, ov2

LEMMA AppendHolds ==
    ASSUME NEW S, NEW s \in Seq(S), NEW e \in S
    PROVE  /\ Append(s, e) \in Seq(S)
           /\ ToSet(Append(s, e)) = ToSet(s) \cup {e}
           /\ IsInjective(s) /\ e \notin ToSet(s) => IsInjective(Append(s, e))
<1> DEFINE t == Append(s, e)
           N == Len(s)
<1>1. /\ N \in Nat /\ t \in Seq(S) /\ DOMAIN s = 1 .. N /\ DOMAIN t = 1 .. N + 1
      /\ t[N + 1] = e /\ \A i \in 1 .. N : t[i] = s[i]
  OBVIOUS
<1>2. \A i \in 1 .. N + 1 : i \in 1 .. N \/ i = N + 1
  BY <1>1
<1>3. N + 1 \in 1 .. N + 1 /\ 1 .. N \subseteq 1 .. N + 1
  BY <1>1
<1> HIDE DEF t, N
<1>4. ToSet(t) = ToSet(s) \cup {e}
  BY <1>1, <1>2, <1>3 DEF ToSet
<1>5. ASSUME IsInjective(s), e \notin ToSet(s) PROVE IsInjective(t)
  <2> SUFFICES ASSUME NEW i \in 1 .. N + 1, NEW j \in 1 .. N + 1, t[i] = t[j] PROVE i = j
    BY <1>1 DEF IsInjective
  <2>1. \A k \in 1 .. N : s[k] # e
    BY <1>1, <1>5 DEF ToSet
  <2>2. CASE i \in 1 .. N /\ j \in 1 .. N
    BY <1>1, <1>5, <2>2 DEF IsInjective
  <2>3. CASE i = N + 1 \/ j = N + 1
    BY <1>1, <1>2, <2>1, <2>3
  <2> QED
    BY <1>2, <2>2, <2>3
<1> QED
  BY <1>1, <1>4, <1>5 DEF t

(* A sheet opens: it comes on top of both lists. *)
LEMMA StackGrows ==
    ASSUME NEW sh, NEW ov, Stacked(sh, ov), NEW e \in Ids, e \notin ToSet(sh)
    PROVE  /\ Stacked(Append(sh, e), Append(ov, e))
           /\ ToSet(Append(sh, e)) = ToSet(sh) \cup {e}
           /\ ToSet(Append(ov, e)) = ToSet(ov) \cup {e}
<1> DEFINE X == ToSet(sh) \ ToSet(ov)
           sh2 == Append(sh, e)
           ov2 == Append(ov, e)
<1>1. sh \in Seq(Ids) /\ IsInjective(sh) /\ ov \in Seq(Ids) /\ ov = Without(sh, X)
  BY DEF Stacked
<1>2. sh2 \in Seq(Ids) /\ IsInjective(sh2) /\ ToSet(sh2) = ToSet(sh) \cup {e}
      /\ ToSet(ov2) = ToSet(ov) \cup {e}
  BY <1>1, AppendHolds
<1>3. e \notin X /\ X \subseteq ToSet(sh2)
  BY <1>2
<1> HIDE DEF X, ov2
<1>4. Without(sh2, X) = Append(Without(sh, X), e)
  BY <1>1, <1>3, WithoutAppends
<1>5. ov2 = Without(sh2, X)
  BY <1>1, <1>4 DEF ov2
<1> HIDE DEF sh2
<1>6. Stacked(sh2, ov2)
  BY <1>2, <1>3, <1>5, StackIs
<1> QED
  BY <1>2, <1>6 DEF sh2, ov2

(* A press of back takes the top of the stack, and the sheet stays open. *)
LEMMA StackPops ==
    ASSUME NEW sh, NEW ov, Stacked(sh, ov), ov # <<>>
    PROVE  /\ Last(ov) \in ToSet(ov) /\ Last(ov) \in ToSet(sh)
           /\ Stacked(sh, Front(ov))
           /\ ToSet(Front(ov)) = ToSet(ov) \ {Last(ov)}
<1> DEFINE X == ToSet(sh) \ ToSet(ov)
           e == Last(ov)
           F == Front(ov)
<1>1. sh \in Seq(Ids) /\ IsInjective(sh) /\ ov \in Seq(Ids) /\ IsInjective(ov)
      /\ ov = Without(sh, X) /\ ToSet(ov) \subseteq ToSet(sh)
  BY StackHolds DEF Stacked
<1>2. F \in Seq(Ids) /\ e \in Ids /\ e \in ToSet(ov) /\ ov = Append(F, e)
      /\ ToSet(ov) = ToSet(F) \cup {e} /\ e \notin ToSet(F)
  BY <1>1, ListParts
<1> HIDE DEF X, e, F
<1>3. Without(F, {e}) = F
  <2>1. {e} \cap ToSet(F) = {}
    BY <1>2
  <2> QED
    BY <1>2, <2>1, WithoutNone
<1>4. Without(Append(F, e), {e}) = Without(F, {e})
  BY <1>2, WithoutAppends
<1>5. F = Without(Without(sh, X), {e})
  BY <1>1, <1>2, <1>3, <1>4
<1>6. F = Without(sh, X \cup {e})
  BY <1>1, <1>5, WithoutTwice
<1>7. X \cup {e} \subseteq ToSet(sh)
  BY <1>1, <1>2 DEF X
<1>8. Stacked(sh, F)
  BY <1>1, <1>6, <1>7, StackIs
<1>9. ToSet(F) = ToSet(ov) \ {e} /\ e \in ToSet(sh)
  BY <1>1, <1>2
<1> QED
  BY <1>2, <1>8, <1>9 DEF e, F

-------------------------------------------------------------------------------
(* The invariant in two parts, what is on the screen and where one is.     *)

Screen ==
    /\ Stacked(shown, overlays)
    /\ Left \subseteq (IF submitting THEN {"send"} ELSE {})
    /\ "send" \notin ToSet(shown) => ~error /\ ~submitting
    /\ submitting \in BOOLEAN /\ error \in BOOLEAN /\ topUpBusy \in BOOLEAN

Router ==
    /\ entries \in Seq(Pages) /\ entries # <<>> /\ rendered \in Pages
    /\ pending \in {"none", "PUSH", "POP", "REPLACE"} /\ uncounted \in Nat
    /\ depth \in Nat /\ pops \in 0 .. MaxPops /\ exited \in BOOLEAN
    /\ DepthAccounts

LEMMA InvIs == IInv <=> Screen /\ Router
BY DEF IInv, TypeOK, StackMatchesSheets, Screen, Router, Stacked, Left, Ids

LEMMA InvInit == Init => Screen /\ Router
<1> SUFFICES ASSUME Init PROVE Screen /\ Router
  OBVIOUS
<1>1. Router
  <2> DEFINE first == <<"home">>
  <2>1. first \in Seq(Pages) /\ first # <<>> /\ Len(first) = 1
    BY PagesAssumption
  <2>2. entries = first /\ depth = 0 /\ pops = 0 /\ exited = FALSE
        /\ rendered = "home" /\ pending = "none" /\ uncounted = 0
    BY DEF Init
  <2>3. 0 \in 0 .. MaxPops
    BY HistoryBounds
  <2> HIDE DEF first
  <2>4. Len(entries) = 1 /\ depth \in Nat /\ uncounted \in Nat
    BY <2>1, <2>2
  <2>5. Awaited = 0 /\ PopAwaited = 0
    BY <2>2 DEF Awaited, PopAwaited
  <2>6. DepthAccounts
    BY <2>2, <2>4, <2>5 DEF DepthAccounts, ExitsAtRoot
  <2>7. pops \in 0 .. MaxPops /\ exited \in BOOLEAN
    BY <2>2, <2>3, Zenon
  <2>8. rendered \in Pages /\ pending \in {"none", "PUSH", "POP", "REPLACE"}
    BY <2>2, PagesAssumption
  <2> QED
    BY <2>1, <2>2, <2>4, <2>6, <2>7, <2>8 DEF Router
<1>2. ToSet(<<>>) = {} /\ <<>> \in Seq(Ids) /\ IsInjective(<<>>)
  BY DEF ToSet, IsInjective
<1>3. Stacked(<<>>, <<>>)
  BY <1>2, WithoutNothing DEF Stacked
<1>4. Screen
  BY <1>2, <1>3 DEF Init, Screen, Left
<1> QED
  BY <1>1, <1>4

(* Nothing of the screen changes but what is said. *)
LEMMA ScreenFrame ==
    ASSUME Screen, UNCHANGED sheets PROVE Screen'
BY DEF Screen, Left, sheets

LEMMA RouterFrame == ASSUME Router, UNCHANGED router PROVE Router'
BY DEF Router, DepthAccounts, ExitsAtRoot, Awaited, PopAwaited, router

(* Sheets close, and every one that had left the stack may stay only while *)
(* its submission goes on.                                                 *)
LEMMA CloseKeeps ==
    ASSUME Screen, NEW ss, Close(ss)
    PROVE  /\ Stacked(shown', overlays')
           /\ ToSet(shown') = ToSet(shown) \ ss
           /\ ToSet(overlays') = ToSet(overlays) \ ss
           /\ Left' = Left \ ss
<1>1. /\ Stacked(shown', overlays')
      /\ ToSet(shown') = ToSet(shown) \ ss
      /\ ToSet(overlays') = ToSet(overlays) \ ss
  BY StackShrinks DEF Screen, Close
<1>2. Left' = Left \ ss
  BY <1>1 DEF Left
<1> QED
  BY <1>1, <1>2

LEMMA OpenKeeps ==
    ASSUME Screen, NEW s \in Ids, Open(s)
    PROVE  /\ Stacked(shown', overlays')
           /\ ToSet(shown') = ToSet(shown) \cup {s}
           /\ Left' = Left
<1>1. CASE IsOpen(s)
  BY <1>1 DEF Screen, Open, IsOpen, Left
<1>2. CASE ~IsOpen(s)
  <2>1. s \notin ToSet(shown) /\ shown' = Append(shown, s) /\ overlays' = Append(overlays, s)
    BY <1>2 DEF IsOpen, Open
  <2>2. /\ Stacked(shown', overlays')
        /\ ToSet(shown') = ToSet(shown) \cup {s}
        /\ ToSet(overlays') = ToSet(overlays) \cup {s}
    BY <2>1, StackGrows DEF Screen
  <2>3. ToSet(overlays) \subseteq ToSet(shown)
    BY StackHolds DEF Screen
  <2>4. Left' = Left
    BY <2>1, <2>2, <2>3 DEF Left
  <2> QED
    BY <2>2, <2>4
<1> QED
  BY <1>1, <1>2

LEMMA DismissKeeps ==
    ASSUME Screen, NEW ss, Dismiss(ss), UNCHANGED <<submitting, topUpBusy>>
    PROVE  Screen'
<1> DEFINE cc == ss \cap Accepting
<1>1. Close(cc) /\ error' = (error /\ "send" \notin cc)
  BY DEF Dismiss, Cleared
<1>2. "send" \in cc => ~submitting
  BY DEF Accepting
<1> HIDE DEF cc
<1>3. /\ Stacked(shown', overlays')
      /\ ToSet(shown') = ToSet(shown) \ cc
      /\ Left' = Left \ cc
  BY <1>1, CloseKeeps
<1>4. Left' \subseteq (IF submitting' THEN {"send"} ELSE {})
  BY <1>3 DEF Screen
<1>5. "send" \notin ToSet(shown') => ~error' /\ ~submitting'
  BY <1>1, <1>2, <1>3 DEF Screen
<1>6. submitting' \in BOOLEAN /\ error' \in BOOLEAN /\ topUpBusy' \in BOOLEAN
  BY <1>1 DEF Screen
<1> QED
  BY <1>3, <1>4, <1>5, <1>6 DEF Screen

LEMMA UnmountKeeps == ASSUME Screen, Unmount PROVE Screen'
<1> DEFINE ss == {"send", "message"}
<1>1. Close(ss) /\ submitting' = FALSE /\ error' = FALSE /\ topUpBusy' = FALSE
  BY DEF Unmount
<1> HIDE DEF ss
<1>2. Stacked(shown', overlays') /\ Left' = Left \ ss
  BY <1>1, CloseKeeps
<1>3. Left \subseteq {"send"}
  BY DEF Screen
<1>4. Left' = {}
  BY <1>2, <1>3 DEF ss
<1> QED
  BY <1>1, <1>2, <1>4 DEF Screen

-------------------------------------------------------------------------------
(* The steps.                                                              *)

LEMMA TapKeeps == ASSUME Screen, Router, NEW s \in Ids, Tap(s) PROVE Screen' /\ Router'
<1>1. Open(s) /\ UNCHANGED <<router, submitting, error, topUpBusy>>
  BY DEF Tap
<1>2. Stacked(shown', overlays') /\ ToSet(shown') = ToSet(shown) \cup {s} /\ Left' = Left
  BY <1>1, OpenKeeps
<1>3. Screen'
  BY <1>1, <1>2 DEF Screen
<1> QED
  BY <1>1, <1>3, RouterFrame

LEMMA TopUpKeeps ==
    ASSUME Screen, Router, StartTopUp \/ TopUpAnswered PROVE Screen' /\ Router'
<1>1. CASE StartTopUp
  <2>1. UNCHANGED <<router, shown, overlays, submitting, error>> /\ topUpBusy' = TRUE
    BY <1>1 DEF StartTopUp
  <2>2. Screen'
    BY <2>1 DEF Screen, Left
  <2> QED
    BY <2>1, <2>2, RouterFrame
<1>2. CASE TopUpAnswered
  <2>1. Open("message") /\ UNCHANGED <<router, submitting, error>> /\ topUpBusy' = FALSE
    BY <1>2 DEF TopUpAnswered
  <2>2. "message" \in Ids
    BY DEF Ids
  <2>3. /\ Stacked(shown', overlays') /\ ToSet(shown') = ToSet(shown) \cup {"message"}
        /\ Left' = Left
    BY <2>1, <2>2, OpenKeeps
  <2>4. Screen'
    BY <2>1, <2>3 DEF Screen
  <2> QED
    BY <2>1, <2>4, RouterFrame
<1> QED
  BY <1>1, <1>2

LEMMA FormKeeps == ASSUME Screen, Router, Submit \/ Invalid PROVE Screen' /\ Router'
<1>1. OnTop("send") /\ UNCHANGED <<router, shown, overlays, topUpBusy>>
      /\ submitting' \in BOOLEAN /\ error' \in BOOLEAN /\ (submitting => submitting')
  BY DEF Submit, Invalid, Screen
<1>2. "send" \in ToSet(shown)
  <2>1. shown \in Seq(Ids) /\ shown # <<>> /\ Last(shown) = "send"
    BY <1>1 DEF OnTop, Screen, Stacked
  <2>2. Last(shown) \in ToSet(shown)
    BY <2>1, ListParts
  <2> QED
    BY <2>1, <2>2
<1>3. Left' = Left /\ ToSet(shown') = ToSet(shown)
  BY <1>1 DEF Left
<1>4. Screen'
  BY <1>1, <1>2, <1>3 DEF Screen
<1> QED
  BY <1>1, <1>4, RouterFrame

LEMMA SentKeeps == ASSUME Screen, Router, Sent PROVE Screen' /\ Router'
<1> DEFINE ss == {"send"}
<1>1. Close(ss) /\ UNCHANGED <<router, topUpBusy>> /\ submitting' = FALSE /\ error' = FALSE
  BY DEF Sent, Cleared
<1> HIDE DEF ss
<1>2. Stacked(shown', overlays') /\ Left' = Left \ ss
  BY <1>1, CloseKeeps
<1>3. Left' = {}
  BY <1>2 DEF Screen, ss
<1>4. Screen'
  BY <1>1, <1>2, <1>3 DEF Screen
<1> QED
  BY <1>1, <1>4, RouterFrame

LEMMA SendFailedKeeps == ASSUME Screen, Router, SendFailed PROVE Screen' /\ Router'
<1>1. submitting' = FALSE /\ UNCHANGED <<router, topUpBusy>>
  BY DEF SendFailed
<1>2. CASE "send" \in ToSet(overlays)
  <2>1. error' = TRUE /\ UNCHANGED <<shown, overlays>>
    BY <1>2 DEF SendFailed
  <2>2. Left' = Left /\ Left = {} /\ "send" \in ToSet(shown)
    <3>1. ToSet(overlays) \subseteq ToSet(shown)
      BY StackHolds DEF Screen
    <3>2. Left \subseteq {"send"}
      BY DEF Screen
    <3> QED
      BY <1>2, <2>1, <3>1, <3>2 DEF Left
  <2> QED
    BY <1>1, <2>1, <2>2, RouterFrame DEF Screen
<1>3. CASE "send" \notin ToSet(overlays)
  <2> DEFINE ss == {"send"}
  <2>1. Close(ss) /\ error' = FALSE
    BY <1>3 DEF SendFailed
  <2> HIDE DEF ss
  <2>2. Stacked(shown', overlays') /\ Left' = Left \ ss
    BY <2>1, CloseKeeps
  <2>3. Left' = {}
    BY <2>2 DEF Screen, ss
  <2> QED
    BY <1>1, <2>1, <2>2, <2>3, RouterFrame DEF Screen
<1> QED
  BY <1>2, <1>3

LEMMA PressKeeps == ASSUME Screen, Router, PressOutside \/ Escape PROVE Screen' /\ Router'
<1>1. UNCHANGED <<router, submitting, topUpBusy>> /\ \E ss : Dismiss(ss)
  BY DEF PressOutside, Escape
<1> QED
  BY <1>1, DismissKeeps, RouterFrame

(* The history changes: what the rendering owes changes with it. *)
LEMMA NavigatesKeeps ==
    ASSUME Screen, Router, NEW kind \in {"PUSH", "POP", "REPLACE"}, Navigates(kind), ~exited,
           entries' \in Seq(Pages), entries' # <<>>, pops' \in 0 .. MaxPops,
           Len(entries') = Len(entries) + (CASE kind = "PUSH" -> 1
                                             [] kind = "POP" -> -1
                                             [] OTHER -> 0)
    PROVE  Screen' /\ Router'
<1>1. /\ pending' = kind /\ uncounted' = uncounted + Awaited
      /\ UNCHANGED <<rendered, depth, exited, sheets>>
  BY DEF Navigates
<1>2. Screen'
  BY <1>1, ScreenFrame
<1>3. Awaited \in {0, 1} /\ PopAwaited \in {0, 1} /\ (PopAwaited = 1 => Awaited = 0)
  BY DEF Awaited, PopAwaited
<1>4. /\ Awaited' = (IF kind = "PUSH" THEN 1 ELSE 0)
      /\ PopAwaited' = (IF kind = "POP" THEN 1 ELSE 0)
  BY <1>1 DEF Awaited, PopAwaited
<1>5. /\ Len(entries) \in Nat /\ Len(entries') \in Nat /\ depth \in Nat /\ uncounted \in Nat
      /\ Len(entries) - 1 <= depth + uncounted + Awaited - PopAwaited
  BY DEF Router, DepthAccounts
<1>6. Len(entries') = Len(entries) + Awaited' - PopAwaited'
  <2>1. CASE kind = "PUSH"
    BY <1>4, <1>5, <2>1
  <2>2. CASE kind = "POP"
    BY <1>4, <1>5, <2>2
  <2>3. CASE kind = "REPLACE"
    BY <1>4, <1>5, <2>3
  <2> QED
    BY <2>1, <2>2, <2>3
<1>7. Len(entries') - 1 <= depth' + uncounted' + Awaited' - PopAwaited'
  BY <1>1, <1>3, <1>4, <1>5, <1>6
<1>8. DepthAccounts'
  BY <1>1, <1>7 DEF DepthAccounts, ExitsAtRoot
<1>9. uncounted' \in Nat /\ depth' \in Nat /\ rendered' \in Pages /\ exited' \in BOOLEAN
      /\ pending' \in {"none", "PUSH", "POP", "REPLACE"}
  BY <1>1, <1>3, <1>5 DEF Router
<1> QED
  BY <1>2, <1>8, <1>9 DEF Router

LEMMA NavigateKeeps ==
    ASSUME Screen, Router, NEW page \in Pages, Navigate(page) PROVE Screen' /\ Router'
<1>1. entries' \in Seq(Pages) /\ Len(entries') = Len(entries) + 1 /\ entries' # <<>>
  BY DEF Navigate, Router
<1>2. Navigates("PUSH") /\ ~exited /\ pops' \in 0 .. MaxPops
  BY DEF Navigate, Router
<1> QED
  BY <1>1, <1>2, NavigatesKeeps

LEMMA RetapKeeps == ASSUME Screen, Router, Retap PROVE Screen' /\ Router'
<1>1. Front(entries) \in Seq(Pages) /\ Len(Front(entries)) = Len(entries) - 1
      /\ Len(entries) \in Nat \ {0} /\ rendered \in Pages
  BY ListParts DEF Router
<1>2. entries' \in Seq(Pages) /\ Len(entries') = Len(entries) + 0 /\ entries' # <<>>
  BY <1>1 DEF Retap
<1>3. Navigates("REPLACE") /\ ~exited /\ pops' \in 0 .. MaxPops
  BY DEF Retap, Router
<1> QED
  BY <1>2, <1>3, NavigatesKeeps

LEMMA PoppedKeeps == ASSUME Screen, Router, Popped PROVE Screen' /\ Router'
<1>1. Front(entries) \in Seq(Pages) /\ Len(Front(entries)) = Len(entries) - 1
      /\ Len(entries) \in Nat \ {0}
  BY ListParts DEF Router
<1>2. entries' \in Seq(Pages) /\ Len(entries') = Len(entries) + -1 /\ entries' # <<>>
  BY <1>1 DEF Popped
<1>3. Navigates("POP") /\ ~exited /\ pops' = pops - 1 /\ pops > 0
  BY DEF Popped
<1>4. pops' \in 0 .. MaxPops
  BY <1>3, HistoryBounds DEF Router
<1> QED
  BY <1>2, <1>3, <1>4, NavigatesKeeps

LEMMA PopsNothingKeeps == ASSUME Screen, Router, PopsNothing PROVE Screen' /\ Router'
<1>1. /\ pops' = pops - 1 /\ pops > 0
      /\ UNCHANGED <<entries, rendered, pending, uncounted, depth, exited, sheets>>
  BY DEF PopsNothing
<1>2. pops' \in 0 .. MaxPops
  BY <1>1, HistoryBounds DEF Router
<1>3. DepthAccounts'
  BY <1>1 DEF Router, DepthAccounts, ExitsAtRoot, Awaited, PopAwaited
<1> QED
  BY <1>1, <1>2, <1>3, ScreenFrame DEF Router

LEMMA RenderKeeps == ASSUME Screen, Router, Render PROVE Screen' /\ Router'
<1>1. /\ rendered' = Last(entries) /\ depth' = Counted /\ pending' = "none"
      /\ UNCHANGED <<entries, uncounted, pops, exited>> /\ ~exited
      /\ Unmount \/ UNCHANGED sheets
  BY DEF Render
<1>2. Screen'
  BY <1>1, UnmountKeeps, ScreenFrame
<1>3. Awaited' = 0 /\ PopAwaited' = 0
  BY <1>1 DEF Awaited, PopAwaited
<1>4. depth' \in Nat /\ depth' >= depth + Awaited - PopAwaited
  <2>1. CASE pending = "POP"
    <3>1. depth' = Max({0, depth - 1}) /\ Awaited = 0 /\ PopAwaited = 1
      BY <1>1, <2>1 DEF Counted, Awaited, PopAwaited
    <3>2. depth \in Nat
      BY DEF Router
    <3> DEFINE d == depth - 1
               top == IF d >= 0 THEN d ELSE 0
    <3>3. d \in Int /\ top \in Nat /\ top >= d
      BY <3>2
    <3>4. Max({0, d}) = top
      <4> HIDE DEF d
      <4> DEFINE Greatest(x) == x \in {0, d} /\ \A y \in {0, d} : x >= y
      <4>1. Greatest(top)
        BY <3>3
      <4>2. \A x : Greatest(x) => x = top
        BY <3>3
      <4>3. Max({0, d}) = CHOOSE x : Greatest(x)
        BY DEF Max
      <4> HIDE DEF Greatest, top
      <4> QED
        BY <4>1, <4>2, <4>3
    <3> HIDE DEF top
    <3>5. depth' = top
      BY <3>1, <3>4, Zenon DEF d
    <3> QED
      BY <3>1, <3>2, <3>3, <3>5
  <2>2. CASE pending = "PUSH"
    BY <1>1, <2>2 DEF Counted, Awaited, PopAwaited, Router
  <2>3. CASE pending \in {"none", "REPLACE"}
    BY <1>1, <2>3 DEF Counted, Awaited, PopAwaited, Router
  <2> QED
    BY <2>1, <2>2, <2>3 DEF Router
<1>5. DepthAccounts'
  <2>1. /\ Len(entries) \in Nat /\ depth \in Nat /\ uncounted \in Nat
        /\ Len(entries) - 1 <= depth + uncounted + Awaited - PopAwaited
        /\ Awaited \in {0, 1} /\ PopAwaited \in {0, 1}
    BY DEF Router, DepthAccounts, Awaited, PopAwaited
  <2>2. Len(entries') - 1 <= depth' + uncounted' + Awaited' - PopAwaited'
    BY <1>1, <1>3, <1>4, <2>1
  <2> QED
    BY <1>1, <2>2 DEF DepthAccounts, ExitsAtRoot
<1>6. rendered' \in Pages
  BY <1>1, ListParts DEF Router
<1> QED
  BY <1>1, <1>2, <1>4, <1>5, <1>6 DEF Router

LEMMA BackClosesKeeps == ASSUME Screen, Router, BackClosesSheet PROVE Screen' /\ Router'
<1> DEFINE top == Last(overlays)
<1>1. overlays # <<>> /\ UNCHANGED <<router, submitting, topUpBusy>>
  BY DEF BackClosesSheet, ClosesOverlay
<1>2. CASE top \in Accepting
  <2>1. Dismiss({top})
    BY <1>2 DEF BackClosesSheet
  <2> QED
    BY <1>1, <2>1, DismissKeeps, RouterFrame
<1>3. CASE top \notin Accepting
  <2>1. overlays' = Front(overlays) /\ UNCHANGED <<shown, error>>
    BY <1>3 DEF BackClosesSheet
  <2>2. /\ top \in ToSet(overlays) /\ top \in ToSet(shown)
        /\ Stacked(shown, Front(overlays))
        /\ ToSet(Front(overlays)) = ToSet(overlays) \ {top}
    BY <1>1, StackPops DEF Screen
  <2> HIDE DEF top
  <2>3. top = "send" /\ submitting
    BY <1>3, <2>2 DEF Accepting
  <2>4. Left' \subseteq Left \cup {"send"}
    BY <2>1, <2>2, <2>3 DEF Left
  <2>5. Screen'
    BY <1>1, <2>1, <2>2, <2>3, <2>4 DEF Screen
  <2> QED
    BY <1>1, <2>5, RouterFrame
<1> QED
  BY <1>2, <1>3

LEMMA BackGoesKeeps ==
    ASSUME Screen, Router, BackNavigates \/ BackExits PROVE Screen' /\ Router'
<1>1. UNCHANGED <<entries, rendered, pending, uncounted, depth, sheets>>
  BY DEF BackNavigates, BackExits
<1>2. Screen'
  BY <1>1, ScreenFrame
<1>3. CASE BackNavigates
  <2>1. pops' = pops + 1 /\ pops < MaxPops /\ exited' = exited
    BY <1>3 DEF BackNavigates
  <2>2. pops' \in 0 .. MaxPops
    BY <2>1, HistoryBounds DEF Router
  <2>3. DepthAccounts'
    BY <1>1, <2>1 DEF Router, DepthAccounts, ExitsAtRoot, Awaited, PopAwaited
  <2> QED
    BY <1>1, <1>2, <2>1, <2>2, <2>3 DEF Router
<1>4. CASE BackExits
  <2>1. depth = 0 /\ exited' = TRUE /\ pops' = pops
    BY <1>4 DEF BackExits
  <2>2. /\ Len(entries) \in Nat /\ uncounted \in Nat
        /\ Len(entries) - 1 <= depth + uncounted + Awaited - PopAwaited
        /\ Awaited \in {0, 1} /\ PopAwaited \in {0, 1}
    BY DEF Router, DepthAccounts, Awaited, PopAwaited
  <2>3. Awaited' = Awaited /\ PopAwaited' = PopAwaited
    BY <1>1 DEF Awaited, PopAwaited
  <2>4. ExitsAtRoot'
    BY <1>1, <2>1, <2>2, <2>3 DEF ExitsAtRoot
  <2>5. DepthAccounts'
    BY <1>1, <2>2, <2>3, <2>4 DEF DepthAccounts
  <2> QED
    BY <1>1, <1>2, <2>1, <2>5 DEF Router
<1> QED
  BY <1>3, <1>4

LEMMA InvStep == ASSUME Screen, Router, [Next]_vars PROVE Screen' /\ Router'
<1>1. CASE UNCHANGED vars
  BY <1>1, ScreenFrame, RouterFrame DEF vars
<1>2. CASE \E s \in {"send", "message"} : Tap(s)
  BY <1>2, TapKeeps DEF Ids
<1>3. CASE StartTopUp \/ TopUpAnswered
  BY <1>3, TopUpKeeps
<1>4. CASE Submit \/ Invalid
  BY <1>4, FormKeeps
<1>5. CASE Sent
  BY <1>5, SentKeeps
<1>6. CASE SendFailed
  BY <1>6, SendFailedKeeps
<1>7. CASE PressOutside \/ Escape
  BY <1>7, PressKeeps
<1>8. CASE \E page \in Pages : Navigate(page)
  BY <1>8, NavigateKeeps
<1>9. CASE BackClosesSheet
  BY <1>9, BackClosesKeeps
<1>10. CASE BackNavigates \/ BackExits
  BY <1>10, BackGoesKeeps
<1>11. CASE Retap
  BY <1>11, RetapKeeps
<1>12. CASE Popped
  BY <1>12, PoppedKeeps
<1>13. CASE PopsNothing
  BY <1>13, PopsNothingKeeps
<1>14. CASE Render
  BY <1>14, RenderKeeps
<1> QED
  BY <1>1, <1>2, <1>3, <1>4, <1>5, <1>6, <1>7, <1>8, <1>9, <1>10, <1>11, <1>12, <1>13, <1>14
  DEF Next

-------------------------------------------------------------------------------
(* The theorems.                                                           *)

(* The inductive invariant holds in every state that can be reached. *)
THEOREM Invariance == Spec => []IInv
<1>1. Init => Screen /\ Router
  BY InvInit
<1>2. Screen /\ Router /\ [Next]_vars => Screen' /\ Router'
  BY InvStep
<1>3. Screen /\ Router => IInv
  BY InvIs
<1> QED
  BY <1>1, <1>2, <1>3, PTL DEF Spec

(* The variables keep their types, neither list holds a sheet twice. *)
THEOREM TypeCorrect == Spec => []TypeOK
<1>1. IInv => TypeOK
  BY DEF IInv
<1> QED
  BY <1>1, Invariance, PTL

(* The stack of ui.store is the open sheets in their order, but for a      *)
(* sheet whose submission a press of back did not interrupt.               *)
THEOREM StackIsTheSheets == Spec => []StackMatchesSheets
<1>1. IInv => StackMatchesSheets
  BY DEF IInv
<1> QED
  BY <1>1, Invariance, PTL

(* Back leaves the app above its first page by no more entries than there  *)
(* are pushes the effect of useBackButton missed or has not run for: for   *)
(* any tabs and however navigations overtake each other, what depthRef     *)
(* counted is enough to go back through.                                   *)
THEOREM LeavesFromTheRoot == Spec => []ExitsAtRoot
<1>1. IInv => ExitsAtRoot
  BY DEF IInv, DepthAccounts
<1> QED
  BY <1>1, Invariance, PTL

(* A press of back that moves or exits finds no open sheet but one that is *)
(* submitting.                                                             *)
THEOREM BackTakesSheetsFirst == Spec => BackSparesSheets
<1>1. ASSUME IInv, [Next]_vars, pops' > pops \/ exited' # exited
      PROVE  ToSet(shown) \subseteq (IF submitting THEN {"send"} ELSE {})
  <2>1. Screen /\ Router
    BY <1>1, InvIs
  <2>2. BackNavigates \/ BackExits
    <3>1. pops \in 0 .. MaxPops /\ MaxPops \in Nat
      BY <2>1, HistoryBounds DEF Router
    <3>2. ~(pops - 1 > pops) /\ ~(pops > pops)
      BY <3>1
    <3>3. UNCHANGED router => ~(pops' > pops) /\ exited' = exited
      BY <3>2 DEF router
    <3>4. ~UNCHANGED router
      BY <1>1, <3>3
    <3>5. /\ ~Popped /\ ~PopsNothing /\ ~Retap /\ ~Render
          /\ ~\E page \in Pages : Navigate(page)
      BY <1>1, <3>2 DEF Popped, PopsNothing, Retap, Render, Navigate, Navigates
    <3>6. ~UNCHANGED vars
      BY <3>4 DEF vars
    <3> QED
      BY <1>1, <3>4, <3>5, <3>6
      DEF Next, Tap, StartTopUp, TopUpAnswered, Submit, Sent, SendFailed, Invalid,
          PressOutside, Escape, BackClosesSheet
  <2>3. overlays = <<>>
    BY <2>2 DEF BackNavigates, BackExits, ClosesOverlay
  <2>4. ToSet(overlays) = {}
    BY <2>3 DEF ToSet
  <2>5. Left = ToSet(shown)
    BY <2>4 DEF Left
  <2> QED
    BY <2>1, <2>5 DEF Screen
<1> QED
  BY <1>1, Invariance, PTL DEF Spec, BackSparesSheets
===============================================================================
