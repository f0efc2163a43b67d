---------------------------- MODULE ListLemmas -----------------------------
(***************************************************************************)
(* Lemmas about lists: FoldLeft, for the loops that the models describe by *)
(* folds, ToSet and InsertAt.  What a loop preserves is proved by induction *)
(* on the number of its steps: FoldExists gives the function that FoldLeft *)
(* chooses, FoldRange and FoldSteps go along it.  The last section is      *)
(* about the arrays of version components that Dewey compares.             *)
(***************************************************************************)
EXTENDS Dewey, SequenceTheorems, FiniteSetTheorems, TLAPS

-----------------------------------------------------------------------------
(* Folds *)

(* A set of naturals that is not empty has a least element.                *)
LEMMA LeastExists ==
  ASSUME NEW S \in SUBSET Nat, S # {}
  PROVE  Min(S) \in S /\ \A y \in S : Min(S) <= y
<1> DEFINE R == OpToRel(<, Nat)
<1>1. \E i \in S : \A j \in S : ~(<<j, i>> \in R)
  <2>1. IsWellFoundedOn(R, Nat)
    BY NatLessThanWellFounded
  <2> HIDE DEF R
  <2> QED
    BY <2>1, WFMin
<1>2. PICK i \in S : \A j \in S : ~(<<j, i>> \in R)
  BY <1>1
<1>3. \A j \in S : i <= j
  <2> SUFFICES ASSUME NEW j \in S, j < i PROVE FALSE
    OBVIOUS
  <2>1. <<j, i>> \in R
    BY DEF OpToRel
  <2> QED
    BY <2>1, <1>2
<1> QED
  BY <1>3 DEF Min

(* A fold applies one function after the other, F[1] first, to values in A. *)
(* As FoldLeft does it, the result is a recursive function on sets of       *)
(* places; it exists for one set 1 .. k after the other.                    *)
IsFold(g, base, F, n) ==
  g = [S \in SUBSET (1 .. n) |->
         IF S = {} THEN base ELSE F[Max(S)][g[S \ {Max(S)}]]]

(* The greatest of the places up to n, if n is among them, is n.            *)
LEMMA MaxUpTo ==
  ASSUME NEW n \in Nat, NEW S \in SUBSET (1 .. n), n \in S
  PROVE  Max(S) = n
<1>1. n \in S /\ \A y \in S : n >= y
  OBVIOUS
<1>2. Max(S) \in S /\ \A y \in S : Max(S) >= y
  BY <1>1 DEF Max
<1>3. Max(S) >= n /\ n >= Max(S) /\ Max(S) \in 1 .. n
  BY <1>1, <1>2
<1> QED
  BY <1>3

(* The function for 1 .. n - 1 extends to one for 1 .. n.                   *)
LEMMA FoldGrows ==
  ASSUME NEW A, NEW base \in A, NEW N \in Nat, NEW F \in [1 .. N -> [A -> A]],
         NEW n \in 1 .. N,
         NEW g \in [SUBSET (1 .. n - 1) -> A], IsFold(g, base, F, n - 1)
  PROVE  \E h \in [SUBSET (1 .. n) -> A] : IsFold(h, base, F, n)
<1> DEFINE value(S) == IF n \notin S THEN g[S] ELSE F[n][g[S \ {n}]]
           h == [S \in SUBSET (1 .. n) |-> value(S)]
<1>1. \A S \in SUBSET (1 .. n) : S \ {n} \in SUBSET (1 .. n - 1) /\ S \ {n} \in SUBSET (1 .. n)
  OBVIOUS
<1>2. \A S \in SUBSET (1 .. n - 1) :
        g[S] = IF S = {} THEN base ELSE F[Max(S)][g[S \ {Max(S)}]]
  BY DEF IsFold
<1>3. ASSUME NEW S \in SUBSET (1 .. n)
      PROVE  /\ value(S) = IF S = {} THEN base ELSE F[Max(S)][h[S \ {Max(S)}]]
             /\ value(S) \in A
  <2>1. CASE n \in S
    <3>1. Max(S) = n /\ S # {}
      BY <2>1, MaxUpTo
    <3>2. h[S \ {n}] = g[S \ {n}] /\ g[S \ {n}] \in A
      BY <1>1
    <3> QED
      BY <2>1, <3>1, <3>2
  <2>2. CASE n \notin S
    <3>1. S \in SUBSET (1 .. n - 1)
      BY <1>1, <2>2
    <3>2. h[S \ {Max(S)}] = g[S \ {Max(S)}]
      BY <2>2
    <3> QED
      BY <1>2, <2>2, <3>1, <3>2
  <2> QED
    BY <2>1, <2>2
<1> HIDE DEF value
<1>4. h = [S \in SUBSET (1 .. n) |->
            IF S = {} THEN base ELSE F[Max(S)][h[S \ {Max(S)}]]]
  BY <1>3
<1>5. IsFold(h, base, F, n)
  BY <1>4 DEF IsFold
<1>6. h \in [SUBSET (1 .. n) -> A]
  BY <1>3
<1> QED
  BY <1>5, <1>6

(* So there is one for every length.                                       *)
LEMMA FoldExists ==
  ASSUME NEW A, NEW base \in A, NEW N \in Nat, NEW F \in [1 .. N -> [A -> A]]
  PROVE  \E g \in [SUBSET (1 .. N) -> A] : IsFold(g, base, F, N)
<1> DEFINE exists(k) == \E g \in [SUBSET (1 .. k) -> A] : IsFold(g, base, F, k)
           bad == {k \in 0 .. N : ~ exists(k)}
<1> SUFFICES ASSUME bad # {}
             PROVE  FALSE
  <2>1. N \in 0 .. N
    OBVIOUS
  <2>2. bad = {} => exists(N)
    <3> HIDE DEF exists
    <3> QED
      BY <2>1 DEF bad
  <2> QED
    BY <2>2
<1>1. bad \in SUBSET Nat
  OBVIOUS
<1>2. Min(bad) \in bad /\ \A k \in bad : Min(bad) <= k
  <2> HIDE DEF bad
  <2> QED
    BY <1>1, LeastExists
<1>3. exists(0)
  <2> DEFINE g == [S \in SUBSET (1 .. 0) |-> base]
  <2>1. \A S \in SUBSET (1 .. 0) : S = {}
    OBVIOUS
  <2>2. g \in [SUBSET (1 .. 0) -> A] /\ IsFold(g, base, F, 0)
    BY <2>1 DEF IsFold
  <2> QED
    BY <2>2
<1>4. Min(bad) \in 1 .. N /\ Min(bad) - 1 \in 0 .. N /\ ~ (Min(bad) <= Min(bad) - 1)
  <2>1. Min(bad) \in 0 .. N /\ ~ exists(Min(bad))
    BY <1>2
  <2>2. Min(bad) # 0
    BY <1>3, <2>1
  <2> QED
    BY <2>1, <2>2
<1>5. exists(Min(bad) - 1)
  <2>1. Min(bad) - 1 \notin bad
    <3> HIDE DEF bad
    <3> QED
      BY <1>2, <1>4
  <2> QED
    BY <1>4, <2>1
<1>6. exists(Min(bad))
  <2>1. PICK g \in [SUBSET (1 .. Min(bad) - 1) -> A] : IsFold(g, base, F, Min(bad) - 1)
    BY <1>5
  <2> HIDE DEF bad
  <2> QED
    BY <1>4, <2>1, FoldGrows
<1> QED
  BY <1>2, <1>6

(* Going up: what holds at 0 and is handed on holds at n.                  *)
LEMMA GoingUp ==
  ASSUME NEW n \in Nat, NEW T, 0 \in T, \A k \in 1 .. n : k - 1 \in T => k \in T
  PROVE  n \in T
<1> DEFINE bad == {k \in 0 .. n : k \notin T}
<1> SUFFICES ASSUME bad # {}
             PROVE  FALSE
  OBVIOUS
<1>1. bad \in SUBSET Nat
  OBVIOUS
<1>2. Min(bad) \in bad /\ \A k \in bad : Min(bad) <= k
  <2> HIDE DEF bad
  <2> QED
    BY <1>1, LeastExists
<1>3. Min(bad) \in 0 .. n /\ Min(bad) \notin T
  BY <1>2
<1>4. Min(bad) \in 1 .. n /\ Min(bad) - 1 \in 0 .. n /\ ~ (Min(bad) <= Min(bad) - 1)
  BY <1>3
<1>5. Min(bad) - 1 \in T
  BY <1>2, <1>4
<1> QED
  BY <1>3, <1>4, <1>5

(* What the functions of a fold preserve holds at its end.                 *)
LEMMA FoldRange ==
  ASSUME NEW A, NEW N \in Nat, NEW h, h[{}] \in A,
         \A S \in SUBSET (1 .. N) : S # {} /\ h[S \ {Max(S)}] \in A => h[S] \in A
  PROVE  h[1 .. N] \in A
<1> DEFINE T == {k \in 0 .. N : h[1 .. k] \in A}
<1>1. 0 \in T
  <2>1. 1 .. 0 = {}
    OBVIOUS
  <2> QED
    BY <2>1
<1>2. ASSUME NEW k \in 1 .. N, k - 1 \in T
      PROVE  k \in T
  <2>1. (1 .. k) \in SUBSET (1 .. N) /\ (1 .. k) # {}
    <3>1. \A x \in 1 .. k : x \in 1 .. N
      OBVIOUS
    <3> QED
      BY <3>1
  <2>2. Max(1 .. k) = k
    <3>1. (1 .. k) \in SUBSET (1 .. k) /\ k \in 1 .. k /\ k \in Nat
      OBVIOUS
    <3> QED
      BY <3>1, MaxUpTo
  <2>3. (1 .. k) \ {k} = 1 .. k - 1
    OBVIOUS
  <2>4. h[1 .. k - 1] \in A /\ k \in 0 .. N
    BY <1>2
  <2>6. h[(1 .. k) \ {Max(1 .. k)}] \in A
    BY <2>4, <2>2, <2>3, Zenon
  <2>5. h[1 .. k] \in A
    BY <2>1, <2>6
  <2> QED
    BY <2>4, <2>5
<1>3. N \in T
  <2> HIDE DEF T
  <2> QED
    BY <1>1, <1>2, GoingUp
<1> QED
  BY <1>3

(* Each step of a fold takes one place more.                               *)
LEMMA OneMore ==
  ASSUME NEW N \in Nat, NEW k \in 1 .. N
  PROVE  /\ (1 .. k) \in SUBSET (1 .. N) /\ (1 .. k) # {}
         /\ Max(1 .. k) = k /\ (1 .. k) \ {k} = 1 .. k - 1
<1>1. (1 .. k) \in SUBSET (1 .. k) /\ k \in 1 .. k /\ k \in Nat
  OBVIOUS
<1>2. Max(1 .. k) = k
  BY <1>1, MaxUpTo
<1>3. (1 .. k) \ {k} = 1 .. k - 1
  OBVIOUS
<1>4. \A x \in 1 .. k : x \in 1 .. N
  OBVIOUS
<1> QED
  BY <1>1, <1>2, <1>3, <1>4

(* The same, when what holds after k steps depends on k.                   *)
LEMMA FoldSteps ==
  ASSUME NEW N \in Nat, NEW A, NEW h, h[{}] \in A[0],
         \A k \in 1 .. N : h[1 .. k - 1] \in A[k - 1] => h[1 .. k] \in A[k]
  PROVE  h[1 .. N] \in A[N]
<1> DEFINE T == {k \in 0 .. N : h[1 .. k] \in A[k]}
<1>1. 0 \in T
  <2>1. 1 .. 0 = {}
    OBVIOUS
  <2> QED
    BY <2>1
<1>2. ASSUME NEW k \in 1 .. N, k - 1 \in T
      PROVE  k \in T
  <2>1. h[1 .. k - 1] \in A[k - 1] /\ k \in 0 .. N
    BY <1>2
  <2> QED
    BY <2>1
<1>3. N \in T
  <2> HIDE DEF T
  <2> QED
    BY <1>1, <1>2, GoingUp
<1> QED
  BY <1>3

(* The greatest of a set of places is one of them.                         *)
LEMMA MaxInside ==
  ASSUME NEW n \in Nat, NEW S \in SUBSET (1 .. n), S # {}
  PROVE  Max(S) \in S
<1> DEFINE below == {n - y : y \in S}
<1>1. below \in SUBSET Nat /\ below # {}
  <2>1. \A y \in S : n - y \in Nat
    OBVIOUS
  <2> QED
    BY <2>1
<1>2. Min(below) \in below /\ \A y \in below : Min(below) <= y
  <2> HIDE DEF below
  <2> QED
    BY <1>1, LeastExists
<1>3. PICK m \in S : Min(below) = n - m
  BY <1>2
<1>4. ASSUME NEW y \in S PROVE m >= y
  <2>1. n - y \in below
    OBVIOUS
  <2>2. n - m <= n - y
    <3> HIDE DEF below
    <3> QED
      BY <1>2, <1>3, <2>1
  <2> QED
    BY <2>2
<1> QED
  BY <1>4 DEF Max

-----------------------------------------------------------------------------
(* Sequences *)

(* ToSet is the range of a sequence: that of its head and of its tail.     *)
LEMMA ToSetSeq ==
  ASSUME NEW S, NEW s \in Seq(S)
  PROVE  /\ ToSet(s) = {s[i] : i \in 1 .. Len(s)} /\ ToSet(s) \subseteq S
         /\ Range(s) = ToSet(s)
         /\ s # << >> => /\ Head(s) \in ToSet(s) /\ Tail(s) \in Seq(S)
                         /\ ToSet(s) = {Head(s)} \cup ToSet(Tail(s))
         /\ s = << >> => ToSet(s) = {}
<1>1. Len(s) \in Nat /\ DOMAIN s = 1 .. Len(s) /\ \A i \in 1 .. Len(s) : s[i] \in S
  OBVIOUS
<1>2. ASSUME s # << >>
      PROVE  Head(s) \in ToSet(s) /\ Tail(s) \in Seq(S) /\ ToSet(s) = {Head(s)} \cup ToSet(Tail(s))
  <2>1. /\ Tail(s) \in Seq(S) /\ Len(Tail(s)) = Len(s) - 1 /\ Head(s) = s[1] /\ 1 \in 1 .. Len(s)
        /\ \A i \in 1 .. Len(Tail(s)) : Tail(s)[i] = s[i + 1]
    BY <1>2, HeadTailProperties
  <2>2. DOMAIN Tail(s) = 1 .. Len(s) - 1
    BY <2>1
  <2>3. \A i \in 1 .. Len(s) : i = 1 \/ (i - 1 \in 1 .. Len(s) - 1 /\ i = (i - 1) + 1)
    BY <1>1
  <2>4. \A i \in 1 .. Len(s) - 1 : i + 1 \in 1 .. Len(s)
    BY <1>1
  <2>5. ToSet(Tail(s)) = {s[i + 1] : i \in 1 .. Len(s) - 1}
    BY <2>1, <2>2 DEF ToSet
  <2>6. ASSUME NEW i \in 1 .. Len(s) PROVE s[i] \in {Head(s)} \cup ToSet(Tail(s))
    BY <2>1, <2>3, <2>5
  <2>7. ToSet(s) \subseteq {Head(s)} \cup ToSet(Tail(s))
    BY <1>1, <2>6 DEF ToSet
  <2>8. ToSet(Tail(s)) \subseteq ToSet(s)
    BY <1>1, <2>4, <2>5 DEF ToSet
  <2>9. Head(s) \in ToSet(s)
    BY <1>1, <2>1 DEF ToSet
  <2> QED
    BY <2>1, <2>7, <2>8, <2>9
<1>3. s = << >> => ToSet(s) = {}
  BY DEF ToSet
<1> QED
  BY <1>1, <1>2, <1>3 DEF ToSet, Range

(* The empty sequence has no elements.                                     *)
LEMMA ToSetEmpty == ToSet(<< >>) = {}
BY DEF ToSet

(* Append adds one.                                                        *)
LEMMA ToSetAppend ==
  ASSUME NEW S, NEW s \in Seq(S), NEW e \in S
  PROVE  Append(s, e) \in Seq(S) /\ ToSet(Append(s, e)) = ToSet(s) \cup {e}
<1>1. /\ Append(s, e) \in Seq(S) /\ Len(Append(s, e)) = Len(s) + 1 /\ Len(s) \in Nat
      /\ \A i \in 1 .. Len(s) : Append(s, e)[i] = s[i]
      /\ Append(s, e)[Len(s) + 1] = e
  BY AppendProperties
<1>2. ToSet(Append(s, e)) = {Append(s, e)[i] : i \in 1 .. Len(s) + 1}
  BY <1>1, ToSetSeq
<1>3. ToSet(s) = {s[i] : i \in 1 .. Len(s)}
  BY ToSetSeq
<1>4. \A i \in 1 .. Len(s) + 1 : i \in 1 .. Len(s) \/ i = Len(s) + 1
  BY <1>1
<1>5. \A i \in 1 .. Len(s) : i \in 1 .. Len(s) + 1
  BY <1>1
<1>6. Len(s) + 1 \in 1 .. Len(s) + 1
  BY <1>1
<1> QED
  BY <1>1, <1>2, <1>3, <1>4, <1>5, <1>6

(* What InsertAt makes of a sequence.                                      *)
LEMMA InsertProperties ==
  ASSUME NEW S, NEW s \in Seq(S), NEW e \in S, NEW at \in 1 .. Len(s)
  PROVE  /\ InsertAt(s, at, e) \in Seq(S)
         /\ Len(InsertAt(s, at, e)) = Len(s) + 1
         /\ \A k \in 1 .. at - 1 : InsertAt(s, at, e)[k] = s[k]
         /\ InsertAt(s, at, e)[at] = e
         /\ \A k \in at + 1 .. Len(s) + 1 : InsertAt(s, at, e)[k] = s[k - 1]
<1> DEFINE front == SubSeq(s, 1, at - 1)
           back == SubSeq(s, at, Len(s))
<1>0. Len(s) \in Nat /\ at \in Nat /\ 1 <= at /\ at <= Len(s)
  OBVIOUS
<1>1. /\ front \in Seq(S) /\ Len(front) = at - 1
      /\ \A k \in 1 .. at - 1 : front[k] = s[k]
  <2>1. \A k \in 1 .. at - 1 : s[k] \in S
    BY <1>0
  <2> QED
    BY <1>0, <2>1, SubSeqProperties
<1>2. /\ back \in Seq(S) /\ Len(back) = Len(s) - at + 1
      /\ \A k \in 1 .. Len(s) - at + 1 : back[k] = s[at + k - 1]
  <2>1. \A k \in at .. Len(s) : s[k] \in S
    BY <1>0
  <2> QED
    BY <1>0, <2>1, SubSeqProperties
<1> HIDE DEF front, back
<1>3. <<e>> \in Seq(S) /\ Len(<<e>>) = 1 /\ <<e>>[1] = e
  OBVIOUS
<1>4. /\ front \o <<e>> \in Seq(S) /\ Len(front \o <<e>>) = at
      /\ \A k \in 1 .. at - 1 : (front \o <<e>>)[k] = s[k]
      /\ (front \o <<e>>)[at] = e
  BY <1>0, <1>1, <1>3, ConcatProperties
<1>5. /\ front \o <<e>> \o back \in Seq(S) /\ Len(front \o <<e>> \o back) = Len(s) + 1
      /\ \A k \in 1 .. Len(s) + 1 : (front \o <<e>> \o back)[k] =
           IF k <= at THEN (front \o <<e>>)[k] ELSE back[k - at]
  <2> DEFINE mid == front \o <<e>>
  <2>1. mid \in Seq(S) /\ Len(mid) = at
    BY <1>4
  <2> HIDE DEF mid
  <2>2. /\ mid \o back \in Seq(S) /\ Len(mid \o back) = Len(mid) + Len(back)
        /\ \A k \in 1 .. Len(mid) + Len(back) : (mid \o back)[k] =
             IF k <= Len(mid) THEN mid[k] ELSE back[k - Len(mid)]
    BY <1>2, <2>1, ConcatProperties
  <2>3. Len(mid) + Len(back) = Len(s) + 1
    BY <1>0, <1>2, <2>1
  <2>4. /\ mid \o back \in Seq(S) /\ Len(mid \o back) = Len(s) + 1
        /\ \A k \in 1 .. Len(s) + 1 : (mid \o back)[k] =
             IF k <= at THEN mid[k] ELSE back[k - at]
    BY <2>1, <2>2, <2>3
  <2> QED
    BY <2>4 DEF mid
<1>6. \A k \in at + 1 .. Len(s) + 1 :
        k - at \in 1 .. Len(s) - at + 1 /\ at + (k - at) - 1 = k - 1 /\ ~(k <= at) /\ k \in 1 .. Len(s) + 1
  BY <1>0
<1>7. \A k \in 1 .. at : k <= at /\ k \in 1 .. Len(s) + 1
  BY <1>0
<1>8. \A k \in 1 .. at - 1 : k \in 1 .. at
  BY <1>0
<1>9. at \in 1 .. at
  BY <1>0
<1>10. InsertAt(s, at, e) = front \o <<e>> \o back
  BY DEF InsertAt, front, back
<1> QED
  BY <1>2, <1>4, <1>5, <1>6, <1>7, <1>8, <1>9, <1>10

(* The elements of a finite set in some order, each once.                  *)
LEMMA SetToSeqProperties ==
  ASSUME NEW S, IsFiniteSet(S)
  PROVE  /\ SetToSeq(S) \in Seq(S)
         /\ \A k \in 1 .. Len(SetToSeq(S)) : SetToSeq(S)[k] \in S
         /\ \A e \in S : \E k \in 1 .. Len(SetToSeq(S)) : SetToSeq(S)[k] = e
<1> DEFINE n == Cardinality(S)
           f == SetToSeq(S)
<1>1. n \in Nat /\ Bijection(1 .. n, S) # {}
  BY FS_CardinalityType DEF ExistsBijection
<1>2. PICK g \in Injection(1 .. n, S) : TRUE
  BY <1>1 DEF Bijection
<1>3. f \in [1 .. n -> S] /\ IsInjective(f)
  <2>1. \E h \in [1 .. n -> S] : IsInjective(h)
    BY <1>2 DEF Injection
  <2> QED
    BY <2>1 DEF SetToSeq
<1> HIDE DEF f
<1>4. f \in Surjection(1 .. n, S)
  <2>1. f \in Injection(1 .. n, S)
    BY <1>3 DEF Injection
  <2>2. Cardinality(1 .. n) = n
    BY <1>1, FS_Interval
  <2> QED
    BY <2>1, <2>2, FS_Injection
<1>5. f \in Seq(S) /\ Len(f) = n
  BY <1>1, <1>3
<1> QED
  BY <1>3, <1>4, <1>5 DEF f, Surjection

(* The image of a finite set is finite.                                    *)
LEMMA ImageFinite ==
  ASSUME NEW S, IsFiniteSet(S), NEW f
  PROVE  IsFiniteSet({f[x] : x \in S})
<1> DEFINE T == {f[x] : x \in S}
           g == [x \in S |-> f[x]]
<1>1. g \in Surjection(S, T)
  BY DEF Surjection
<1> HIDE DEF g
<1> QED
  BY <1>1, FS_Surjection

(* The orders in which a finite set can be listed are sequences over it.   *)
LEMMA OrderedSets ==
  ASSUME NEW S, IsFiniteSet(S), NEW s \in SetToSeqs(S)
  PROVE  s \in Seq(S)
<1>1. Cardinality(S) \in Nat
  BY FS_CardinalityType
<1> QED
  BY <1>1 DEF SetToSeqs

-----------------------------------------------------------------------------
(* struct arr_t, with integers that do not overflow.                       *)
Array == [v : Seq(Int), netbsd : Int]

-----------------------------------------------------------------------------
(* Where two arrays differ *)

(* A digit is an integer, also beyond the end of the array.                *)
LEMMA DigitType ==
  ASSUME NEW a \in Array, NEW i \in Nat \ {0}
  PROVE  DIGIT(a.v, i) \in Int
BY DEF Array, DIGIT

(* The places at which two arrays differ are those at which their digits   *)
(* do: beyond the end of both there is none.                               *)
LEMMA DifferingPlaces ==
  ASSUME NEW a \in Array, NEW b \in Array, NEW i \in Nat \ {0}
  PROVE  i \in differing(a, b) <=> DIGIT(a.v, i) # DIGIT(b.v, i)
<1>1. Len(a.v) \in Nat /\ Len(b.v) \in Nat
  BY DEF Array
<1>2. i > Len(a.v) /\ i > Len(b.v) => DIGIT(a.v, i) = DIGIT(b.v, i)
  BY <1>1 DEF DIGIT
<1> QED
  BY <1>1, <1>2 DEF differing

(* They are numbers from 1 on.                                             *)
LEMMA DifferingNat ==
  ASSUME NEW a \in Array, NEW b \in Array
  PROVE  differing(a, b) \subseteq Nat \ {0}
<1>1. Len(a.v) \in Nat /\ Len(b.v) \in Nat
  BY DEF Array
<1> QED
  BY <1>1 DEF differing

(* A non-empty set of numbers has a first one.                             *)
LEMMA FirstExists ==
  ASSUME NEW S, S \subseteq Nat, S # {}
  PROVE  \E i \in S : IsFirst(i, S)
BY LeastExists DEF IsFirst

(* There is only one.                                                      *)
LEMMA FirstUnique ==
  ASSUME NEW S, S \subseteq Nat, NEW i \in S, NEW j \in S,
         IsFirst(i, S), IsFirst(j, S)
  PROVE  i = j
<1>1. i <= j /\ j <= i
  BY DEF IsFirst
<1> QED
  BY <1>1

-----------------------------------------------------------------------------
(* What the tests mean, place by place *)

(* a is above b from place i on, and equal before.                         *)
Above(a, b, i) ==
  /\ DIGIT(a.v, i) > DIGIT(b.v, i)
  /\ \A j \in 1 .. (i - 1) : DIGIT(a.v, j) = DIGIT(b.v, j)

Same(a, b) == \A i \in Nat \ {0} : DIGIT(a.v, i) = DIGIT(b.v, i)

(* Two arrays are the same, or one is above the other at the first place   *)
(* at which they differ.                                                   *)
LEMMA SameOrAbove ==
  ASSUME NEW a \in Array, NEW b \in Array
  PROVE  \/ Same(a, b) /\ differing(a, b) = {}
         \/ \E i \in Nat \ {0} :
              /\ IsFirst(i, differing(a, b)) /\ differing(a, b) # {}
              /\ Above(a, b, i) \/ Above(b, a, i)
<1>1. CASE differing(a, b) = {}
  BY <1>1, DifferingPlaces DEF Same
<1>2. CASE differing(a, b) # {}
  <2>1. PICK i \in differing(a, b) : IsFirst(i, differing(a, b))
    BY <1>2, FirstExists, DifferingNat
  <2>2. i \in Nat \ {0} /\ DIGIT(a.v, i) # DIGIT(b.v, i)
    BY DifferingNat, DifferingPlaces
  <2>3. \A j \in 1 .. (i - 1) : DIGIT(a.v, j) = DIGIT(b.v, j)
    <3> SUFFICES ASSUME NEW j \in 1 .. (i - 1), DIGIT(a.v, j) # DIGIT(b.v, j)
                 PROVE  FALSE
      OBVIOUS
    <3>1. j \in Nat \ {0} /\ j < i
      BY <2>2
    <3>2. j \in differing(a, b)
      BY <3>1, DifferingPlaces
    <3> QED
      BY <3>1, <3>2, <2>1, <2>2 DEF IsFirst
  <2>4. DIGIT(a.v, i) > DIGIT(b.v, i) \/ DIGIT(b.v, i) > DIGIT(a.v, i)
    BY <2>2, DigitType
  <2> QED
    BY <1>2, <2>1, <2>2, <2>3, <2>4 DEF Above
<1> QED
  BY <1>1, <1>2

(* A place from which one array is above the other is the first difference.*)
LEMMA AboveIsFirst ==
  ASSUME NEW a \in Array, NEW b \in Array, NEW i \in Nat \ {0},
         Above(a, b, i) \/ Above(b, a, i)
  PROVE  /\ IsFirst(i, differing(a, b)) /\ differing(a, b) # {}
         /\ \A j \in differing(a, b) : IsFirst(j, differing(a, b)) => j = i
<1>1. DIGIT(a.v, i) # DIGIT(b.v, i)
  BY DigitType DEF Above
<1>2. i \in differing(a, b)
  BY <1>1, DifferingPlaces
<1>3. \A j \in differing(a, b) : i <= j
  <2> SUFFICES ASSUME NEW j \in differing(a, b), j < i PROVE FALSE
    BY DifferingNat
  <2>1. j \in 1 .. (i - 1) /\ j \in Nat \ {0}
    BY DifferingNat
  <2>2. DIGIT(a.v, j) = DIGIT(b.v, j)
    BY <2>1 DEF Above
  <2> QED
    BY <2>1, <2>2, DifferingPlaces
<1>4. IsFirst(i, differing(a, b))
  BY <1>2, <1>3 DEF IsFirst
<1> QED
  BY <1>2, <1>4, FirstUnique, DifferingNat

(* vtest with any operator: the first difference decides, or netbsd.       *)
LEMMA VtestSame ==
  ASSUME NEW a \in Array, NEW b \in Array, NEW op, Same(a, b)
  PROVE  vtest(a, op, b) <=> result(a.netbsd - b.netbsd, op)
<1>1. differing(a, b) = {}
  <2> SUFFICES ASSUME NEW i \in differing(a, b) PROVE FALSE
    OBVIOUS
  <2>1. i \in Nat \ {0}
    BY DifferingNat
  <2> QED
    BY <2>1, DifferingPlaces DEF Same
<1> QED
  BY <1>1 DEF vtest

LEMMA VtestAbove ==
  ASSUME NEW a \in Array, NEW b \in Array, NEW op, NEW i \in Nat \ {0},
         Above(a, b, i) \/ Above(b, a, i)
  PROVE  vtest(a, op, b) <=> result(DIGIT(a.v, i) - DIGIT(b.v, i), op)
<1>1. /\ IsFirst(i, differing(a, b)) /\ differing(a, b) # {}
      /\ \A j \in differing(a, b) : IsFirst(j, differing(a, b)) => j = i
  BY AboveIsFirst
<1>2. i \in differing(a, b)
  BY <1>1 DEF IsFirst
<1> QED
  BY <1>1, <1>2 DEF vtest

(* The order: above from some place on, or the same digits and a greater   *)
(* package revision.                                                       *)
LEMMA Greater ==
  ASSUME NEW a \in Array, NEW b \in Array
  PROVE  vtest(a, ">", b) <=> \/ \E i \in Nat \ {0} : Above(a, b, i)
                              \/ Same(a, b) /\ a.netbsd > b.netbsd
<1>1. a.netbsd \in Int /\ b.netbsd \in Int
  BY DEF Array
<1>2. CASE Same(a, b)
  <2>1. ~ \E i \in Nat \ {0} : Above(a, b, i)
    BY <1>2, DigitType DEF Same, Above
  <2>2. vtest(a, ">", b) <=> result(a.netbsd - b.netbsd, ">")
    BY <1>2, VtestSame
  <2> QED
    BY <1>1, <1>2, <2>1, <2>2 DEF result
<1>3. CASE ~Same(a, b)
  <2>1. PICK i \in Nat \ {0} : Above(a, b, i) \/ Above(b, a, i)
    BY <1>3, SameOrAbove
  <2>2. vtest(a, ">", b) <=> result(DIGIT(a.v, i) - DIGIT(b.v, i), ">")
    BY <2>1, VtestAbove
  <2>3. DIGIT(a.v, i) \in Int /\ DIGIT(b.v, i) \in Int
    BY DigitType
  <2>4. vtest(a, ">", b) <=> DIGIT(a.v, i) > DIGIT(b.v, i)
    BY <2>2, <2>3 DEF result
  <2>5. ASSUME Above(b, a, i), NEW k \in Nat \ {0}, Above(a, b, k)
        PROVE  FALSE
    <3>1. IsFirst(i, differing(a, b)) /\ IsFirst(k, differing(a, b))
      BY <2>5, AboveIsFirst
    <3>2. i = k
      BY <3>1, <2>5, AboveIsFirst DEF IsFirst
    <3> QED
      BY <3>2, <2>5, <2>3 DEF Above
  <2> QED
    BY <1>3, <2>1, <2>3, <2>4, <2>5 DEF Above
<1> QED
  BY <1>2, <1>3

-----------------------------------------------------------------------------
(* The operators agree with each other *)

(* One difference c answers all the tests.                                 *)
LEMMA OneDifference ==
  ASSUME NEW a \in Array, NEW b \in Array
  PROVE  \E c \in Int : /\ vtest(a, "<", b)  <=> c < 0
                        /\ vtest(a, "<=", b) <=> c <= 0
                        /\ vtest(a, ">", b)  <=> c > 0
                        /\ vtest(a, ">=", b) <=> c >= 0
                        /\ vtest(a, "==", b) <=> c = 0
                        /\ vtest(a, "!=", b) <=> c # 0
                        /\ vtest(b, ">", a)  <=> c < 0
<1> DEFINE Tests(c, d) == /\ vtest(a, "<", b)  <=> result(c, "<")
                          /\ vtest(a, "<=", b) <=> result(c, "<=")
                          /\ vtest(a, ">", b)  <=> result(c, ">")
                          /\ vtest(a, ">=", b) <=> result(c, ">=")
                          /\ vtest(a, "==", b) <=> result(c, "==")
                          /\ vtest(a, "!=", b) <=> result(c, "!=")
                          /\ vtest(b, ">", a)  <=> result(d, ">")
<1>1. \E c, d \in Int : (c < 0 <=> d > 0) /\ Tests(c, d)
  <2>1. CASE Same(a, b)
    <3>1. Same(b, a)
      BY <2>1 DEF Same
    <3>2. Tests(a.netbsd - b.netbsd, b.netbsd - a.netbsd)
      BY <2>1, <3>1, VtestSame
    <3>3. a.netbsd \in Int /\ b.netbsd \in Int
      BY DEF Array
    <3>4. /\ a.netbsd - b.netbsd \in Int /\ b.netbsd - a.netbsd \in Int
          /\ a.netbsd - b.netbsd < 0 <=> b.netbsd - a.netbsd > 0
      BY <3>3
    <3> HIDE DEF Tests
    <3> QED
      BY <3>2, <3>4
  <2>2. CASE ~Same(a, b)
    <3>1. PICK i \in Nat \ {0} : Above(a, b, i) \/ Above(b, a, i)
      BY <2>2, SameOrAbove
    <3> DEFINE x == DIGIT(a.v, i)
               y == DIGIT(b.v, i)
    <3>2. Tests(x - y, y - x)
      BY <3>1, VtestAbove
    <3>3. x \in Int /\ y \in Int
      BY DigitType
    <3> HIDE DEF x, y
    <3>4. x - y \in Int /\ y - x \in Int /\ (x - y < 0 <=> y - x > 0)
      BY <3>3
    <3> HIDE DEF Tests
    <3> QED
      BY <3>2, <3>4
  <2> QED
    BY <2>1, <2>2
<1>2. PICK c, d \in Int : (c < 0 <=> d > 0) /\ Tests(c, d)
  BY <1>1
<1> QED
  BY <1>2 DEF result

(* The six operators are what their names say of the one order ">": a      *)
(* version is in a range of a pattern exactly if the order says so         *)
(* (dewey_match), and the mirrored comparison gives the mirrored answer.   *)
THEOREM OperatorsAgree ==
  ASSUME NEW a \in Array, NEW b \in Array
  PROVE  /\ vtest(a, "<", b)  <=> vtest(b, ">", a)
         /\ vtest(a, ">=", b) <=> ~vtest(a, "<", b)
         /\ vtest(a, "<=", b) <=> ~vtest(a, ">", b)
         /\ vtest(a, "!=", b) <=> ~vtest(a, "==", b)
         /\ vtest(a, "==", b) <=> ~vtest(a, ">", b) /\ ~vtest(a, "<", b)
BY OneDifference

(* Any two versions are comparable, and in one way only: pkg_order never   *)
(* says of both of two packages that the other one is better.              *)
THEOREM OrderTotal ==
  ASSUME NEW a \in Array, NEW b \in Array
  PROVE  /\ vtest(a, ">", b) \/ vtest(a, "==", b) \/ vtest(b, ">", a)
         /\ ~(vtest(a, ">", b) /\ vtest(b, ">", a))
<1>1. a.netbsd \in Int /\ b.netbsd \in Int
  BY DEF Array
<1>2. ASSUME vtest(a, ">", b), vtest(b, ">", a)
      PROVE  FALSE
  <2>1. CASE Same(a, b)
    <3>1. /\ ~ \E i \in Nat \ {0} : Above(a, b, i)
          /\ ~ \E i \in Nat \ {0} : Above(b, a, i)
      BY <2>1, DigitType DEF Same, Above
    <3> QED
      BY <1>1, <1>2, <3>1, Greater
  <2>2. CASE ~Same(a, b)
    <3>1. ~Same(b, a)
      BY <2>2 DEF Same
    <3>2. PICK i \in Nat \ {0} : Above(a, b, i)
      BY <1>2, <2>2, Greater
    <3>3. PICK k \in Nat \ {0} : Above(b, a, k)
      BY <1>2, <3>1, Greater
    <3>4. i = k
      BY <3>2, <3>3, AboveIsFirst DEF IsFirst
    <3> QED
      BY <3>2, <3>3, <3>4, DigitType DEF Above
  <2> QED
    BY <2>1, <2>2
<1> QED
  BY <1>2, OperatorsAgree

(* Newer than a newer one is newer: the best package so far, which has     *)
(* replaced others, stands for all of them.                                *)
THEOREM OrderTransitive ==
  ASSUME NEW a \in Array, NEW b \in Array, NEW c \in Array,
         vtest(a, ">", b), vtest(b, ">", c)
  PROVE  vtest(a, ">", c)
<1>1. a.netbsd \in Int /\ b.netbsd \in Int /\ c.netbsd \in Int
  BY DEF Array
<1>2. \A j \in Nat \ {0} :
        DIGIT(a.v, j) \in Int /\ DIGIT(b.v, j) \in Int /\ DIGIT(c.v, j) \in Int
  BY DigitType
<1>3. CASE Same(a, b)
  <2>1. a.netbsd > b.netbsd
    BY <1>2, <1>3, Greater DEF Same, Above
  <2>2. CASE Same(b, c) /\ b.netbsd > c.netbsd
    <3>1. Same(a, c) /\ a.netbsd > c.netbsd
      BY <1>1, <1>3, <2>1, <2>2 DEF Same
    <3> QED
      BY <3>1, Greater
  <2>3. ASSUME NEW i \in Nat \ {0}, Above(b, c, i)
        PROVE  Above(a, c, i)
    BY <1>3, <2>3 DEF Same, Above
  <2> QED
    BY <2>2, <2>3, Greater
<1>4. ASSUME NEW i \in Nat \ {0}, Above(a, b, i), Same(b, c)
      PROVE  Above(a, c, i)
  BY <1>4 DEF Same, Above
<1>5. ASSUME NEW i \in Nat \ {0}, Above(a, b, i),
             NEW k \in Nat \ {0}, Above(b, c, k)
      PROVE  Above(a, c, IF i <= k THEN i ELSE k)
  <2>1. CASE i < k
    <3>1. DIGIT(b.v, i) = DIGIT(c.v, i)
      BY <1>5, <2>1 DEF Above
    <3>2. \A j \in 1 .. (i - 1) : DIGIT(b.v, j) = DIGIT(c.v, j)
      BY <1>5, <2>1 DEF Above
    <3> QED
      BY <1>5, <2>1, <3>1, <3>2 DEF Above
  <2>2. CASE i = k
    BY <1>2, <1>5, <2>2 DEF Above
  <2>3. CASE k < i
    <3>1. DIGIT(a.v, k) = DIGIT(b.v, k)
      BY <1>5, <2>3 DEF Above
    <3>2. \A j \in 1 .. (k - 1) : DIGIT(a.v, j) = DIGIT(b.v, j)
      BY <1>5, <2>3 DEF Above
    <3>3. ~(i <= k)
      BY <2>3
    <3> QED
      BY <1>5, <3>1, <3>2, <3>3 DEF Above
  <2> QED
    BY <2>1, <2>2, <2>3
<1>6. CASE ~Same(a, b)
  <2>1. PICK i \in Nat \ {0} : Above(a, b, i)
    BY <1>6, Greater
  <2>2. CASE Same(b, c)
    BY <2>1, <2>2, <1>4, Greater
  <2>3. CASE ~Same(b, c)
    <3>1. PICK k \in Nat \ {0} : Above(b, c, k)
      BY <2>3, Greater
    <3>2. (IF i <= k THEN i ELSE k) \in Nat \ {0}
      OBVIOUS
    <3> QED
      BY <2>1, <3>1, <3>2, <1>5, Greater
  <2> QED
    BY <2>2, <2>3
<1> QED
  BY <1>3, <1>6

(* So a best package exists among any that match, and all best ones are    *)
(* equal versions: the answer of a scan over a directory that keeps the    *)
(* best so far depends on the order of the scan only between packages of   *)
(* equal versions.                                                         *)
THEOREM BestExists ==
  ASSUME NEW S, S \subseteq Array, S # {}, IsFiniteSet(S)
  PROVE  /\ \E b \in S : \A a \in S : ~vtest(a, ">", b)
         /\ \A b, d \in S :
              (\A a \in S : ~vtest(a, ">", b) /\ ~vtest(a, ">", d))
              => vtest(b, "==", d)
<1> DEFINE Better(b) == {a \in S : vtest(a, ">", b)}
           Sizes == {Cardinality(Better(b)) : b \in S}
<1>1. \A b \in S : IsFiniteSet(Better(b)) /\ Cardinality(Better(b)) \in Nat
  BY FS_Subset, FS_CardinalityType
<1>2. \E n \in Sizes : IsFirst(n, Sizes)
  <2>1. Sizes \subseteq Nat /\ Sizes # {}
    BY <1>1
  <2> HIDE DEF Sizes
  <2> QED
    BY <2>1, FirstExists
<1>3. PICK b \in S : \A a \in S : Cardinality(Better(b)) <= Cardinality(Better(a))
  BY <1>2 DEF IsFirst
<1>4. ASSUME NEW a \in S, vtest(a, ">", b)
      PROVE  FALSE
  <2>1. Better(a) \subseteq Better(b)
    BY <1>4, OrderTransitive
  <2>2. a \in Better(b) /\ a \notin Better(a)
    BY <1>4, OrderTotal
  <2>3. Cardinality(Better(a)) < Cardinality(Better(b))
    BY <2>1, <2>2, <1>1, FS_Subset
  <2>4. /\ Cardinality(Better(b)) \in Nat /\ Cardinality(Better(a)) \in Nat
        /\ Cardinality(Better(b)) <= Cardinality(Better(a))
    BY <1>1, <1>3
  <2> HIDE DEF Better
  <2> QED
    BY <2>3, <2>4
<1>5. ASSUME NEW c \in S, NEW d \in S, ~vtest(c, ">", d), ~vtest(d, ">", c)
      PROVE  vtest(c, "==", d)
  BY <1>5, OperatorsAgree
<1> QED
  BY <1>4, <1>5
=============================================================================
