------------------------------ MODULE FoldFacts ------------------------------
(***************************************************************************)
(* Induction over the natural numbers, by sets, and what FoldLeft computes *)
(* one element at a time, for any operator that takes a context e besides  *)
(* the accumulator and the element.                                        *)
(***************************************************************************)
EXTENDS Integers, Sequences, SequencesExt, SequenceTheorems, WellFoundedInduction, TLAPS

CONSTANT Op(_, _, _)

-----------------------------------------------------------------------------
\* Induction

\* Every set of natural numbers that is not empty has a least element.
LEMMA Least ==
    ASSUME NEW T \in SUBSET Nat, T # {}
    PROVE  \E n \in T: \A m \in T: n <= m
  <1> DEFINE R == {p \in Nat \X Nat: p[1] < p[2]}
  <1>1. IsWellFoundedOn(R, Nat)
    BY NatLessThanWellFounded DEF OpToRel
  <1>2. PICK n \in T: \A m \in T: ~(<<m, n>> \in R)
    BY <1>1, WFMin
  <1>3. ASSUME NEW m \in T PROVE n <= m
    <2>1. ~(<<m, n>> \in R)
      BY <1>2
    <2>2. n \in Nat /\ m \in Nat
      OBVIOUS
    <2>3. QED
      BY <2>1, <2>2
  <1>4. QED
    BY <1>3

\* And every one of numbers up to n a greatest.
LEMMA Greatest ==
    ASSUME NEW n \in Nat, NEW T \in SUBSET (1..n), T # {}
    PROVE  \E m \in T: \A k \in T: k <= m
  <1> DEFINE U == {n - k: k \in T}
  <1>1. U \in SUBSET Nat /\ U # {}
    <2>1. \A k \in T: n - k \in Nat
      OBVIOUS
    <2>2. PICK k \in T: TRUE
      OBVIOUS
    <2>3. n - k \in U
      OBVIOUS
    <2>4. QED
      BY <2>1, <2>3
  <1>2. PICK u \in U: \A v \in U: u <= v
    BY <1>1, Least
  <1>3. PICK m \in T: u = n - m
    OBVIOUS
  <1>4. ASSUME NEW k \in T PROVE k <= m
    <2>1. n - m <= n - k /\ m \in 1..n /\ k \in 1..n
      BY <1>2, <1>3
    <2>2. QED
      BY <2>1
  <1>5. QED
    BY <1>4

\* A set that has 0, and n + 1 with every n, has all natural numbers.
LEMMA Induction ==
    ASSUME NEW S \in SUBSET Nat, 0 \in S, \A n \in S: n + 1 \in S
    PROVE  S = Nat
  <1> SUFFICES ASSUME Nat \ S # {} PROVE FALSE
    OBVIOUS
  <1>1. PICK n \in Nat \ S: \A m \in Nat \ S: n <= m
    BY Least
  <1>2. n # 0 /\ n - 1 \in Nat /\ ~(n <= n - 1)
    BY <1>1
  <1>3. n - 1 \in S
    BY <1>1, <1>2
  <1>4. QED
    BY <1>1, <1>3, <1>2

LEMMA PrefixMore ==
    ASSUME NEW X, NEW s \in Seq(X), NEW n \in Nat, n + 1 <= Len(s)
    PROVE  s[n + 1] \in X /\ SubSeq(s, 1, n + 1) = Append(SubSeq(s, 1, n), s[n + 1])
  <1>1. s[n + 1] \in X
    OBVIOUS
  <1>2. SubSeq(s, 1, n + 1) = Append(SubSeq(s, 1, n), s[n + 1])
    OBVIOUS
  <1>3. QED
    BY <1>1, <1>2

\* The same for the sequences over a set, which are made by appending.
LEMMA SeqInduction ==
    ASSUME NEW X, NEW T \in SUBSET Seq(X), <<>> \in T, \A t \in T: \A x \in X: Append(t, x) \in T
    PROVE  T = Seq(X)
  <1> SUFFICES ASSUME NEW s \in Seq(X) PROVE s \in T
    OBVIOUS
  <1> DEFINE S == {n \in Nat: n <= Len(s) => SubSeq(s, 1, n) \in T}
  <1>1. 0 \in S
    <2>1. SubSeq(s, 1, 0) = <<>>
      OBVIOUS
    <2>2. QED
      BY <2>1
  <1>2. ASSUME NEW n \in S PROVE n + 1 \in S
    <2>1. CASE n + 1 <= Len(s)
      <3> DEFINE p(k) == SubSeq(s, 1, k)
      <3>1. n \in Nat /\ n <= Len(s) /\ n + 1 \in Nat
        BY <2>1
      <3>2. p(n) \in T
        BY <3>1
      <3>3. s[n + 1] \in X /\ p(n + 1) = Append(p(n), s[n + 1])
        BY <2>1, <3>1, PrefixMore
      <3> HIDE DEF p
      <3>4. p(n + 1) \in T
        BY <3>1, <3>2, <3>3
      <3>5. QED
        BY <3>1, <3>4 DEF p
    <2>2. CASE ~(n + 1 <= Len(s))
      BY <2>2
    <2>3. QED
      BY <2>1, <2>2
  <1> HIDE DEF S
  <1>3. S = Nat
    <2>1. S \in SUBSET Nat
      BY DEF S
    <2>2. QED
      BY <1>1, <1>2, <2>1, Induction
  <1>4. Len(s) \in S /\ Len(s) <= Len(s) /\ SubSeq(s, 1, Len(s)) = s
    BY <1>3
  <1>5. Len(s) <= Len(s) => SubSeq(s, 1, Len(s)) \in T
    BY <1>4 DEF S
  <1>6. QED
    BY <1>4, <1>5

-----------------------------------------------------------------------------
\* FoldLeft

Folded(e, b, s) == FoldLeft(LAMBDA a, x: Op(e, a, x), b, s)

\* The recursive function in which FoldLeft is defined, on the sets of the first n elements.
Folds(e, b, s, n, g) ==
    g = [d \in SUBSET (1..n) |->
            IF d = {} THEN b ELSE Op(e, g[d \ {Max(d)}], s[Max(d)])]

LEMMA LastIsMax ==
    ASSUME NEW n \in Nat, NEW d \in SUBSET (1..(n + 1)), n + 1 \in d
    PROVE  Max(d) = n + 1
  <1>1. \A y \in d: n + 1 >= y
    OBVIOUS
  <1>2. \A x \in d: (\A y \in d: x >= y) => x = n + 1
    OBVIOUS
  <1>3. QED
    BY <1>1, <1>2 DEF Max

\* It exists: the function for one element more is made of the one before.
LEMMA FoldsExists ==
    ASSUME NEW e, NEW b, NEW s
    PROVE  \A n \in Nat: \E g: Folds(e, b, s, n, g)
  <1> DEFINE S == {n \in Nat: \E g: Folds(e, b, s, n, g)}
  <1>1. 0 \in S
    <2>1. Folds(e, b, s, 0, [d \in SUBSET (1..0) |-> b])
      BY DEF Folds
    <2>2. QED
      BY <2>1
  <1>2. ASSUME NEW n \in S PROVE n + 1 \in S
    <2>1. PICK g: Folds(e, b, s, n, g)
      OBVIOUS
    <2> DEFINE h == [d \in SUBSET (1..(n + 1)) |->
                        IF n + 1 \in d THEN Op(e, g[d \ {n + 1}], s[n + 1]) ELSE g[d]]
               v(d) == IF d = {} THEN b ELSE Op(e, h[d \ {Max(d)}], s[Max(d)])
    <2>2. ASSUME NEW d \in SUBSET (1..(n + 1)) PROVE h[d] = v(d)
      <3>1. CASE n + 1 \in d
        <4>1. Max(d) = n + 1 /\ d # {}
          BY <3>1, LastIsMax
        <4>2. d \ {n + 1} \in SUBSET (1..(n + 1)) /\ n + 1 \notin d \ {n + 1}
          OBVIOUS
        <4>3. h[d \ {n + 1}] = g[d \ {n + 1}]
          BY <4>2
        <4>4. h[d] = Op(e, g[d \ {n + 1}], s[n + 1])
          BY <3>1
        <4>5. QED
          BY <4>1, <4>3, <4>4
      <3>2. CASE n + 1 \notin d
        <4>1. d \in SUBSET (1..n)
          BY <3>2
        <4>2. g[d] = IF d = {} THEN b ELSE Op(e, g[d \ {Max(d)}], s[Max(d)])
          BY <4>1, <2>1 DEF Folds
        <4>3. h[d] = g[d]
          BY <3>2
        <4>4. d \ {Max(d)} \in SUBSET (1..(n + 1)) /\ n + 1 \notin d \ {Max(d)}
          BY <3>2
        <4>5. h[d \ {Max(d)}] = g[d \ {Max(d)}]
          BY <4>4
        <4>6. QED
          BY <4>2, <4>3, <4>5
      <3>3. QED
        BY <3>1, <3>2
    <2> HIDE DEF h
    <2>3. h = [d \in SUBSET (1..(n + 1)) |-> h[d]]
      BY DEF h
    <2>4. h = [d \in SUBSET (1..(n + 1)) |-> v(d)]
      BY <2>2, <2>3
    <2>5. Folds(e, b, s, n + 1, h)
      BY <2>4 DEF Folds
    <2>6. QED
      BY <2>5
  <1> HIDE DEF S
  <1>3. S = Nat
    <2>1. S \in SUBSET Nat
      BY DEF S
    <2>2. QED
      BY <1>1, <1>2, <2>1, Induction
  <1>4. QED
    BY <1>3 DEF S

\* What it is for the first k + 1 elements.
LEMMA FoldsStep ==
    ASSUME NEW e, NEW b, NEW s, NEW n \in Nat, NEW g, Folds(e, b, s, n, g),
           NEW k \in Nat, k + 1 <= n
    PROVE  g[1..(k + 1)] = Op(e, g[1..k], s[k + 1])
  <1>1. 1..(k + 1) \in SUBSET (1..n) /\ 1..(k + 1) # {} /\ k + 1 \in 1..(k + 1)
    OBVIOUS
  <1>2. Max(1..(k + 1)) = k + 1
    BY <1>1, LastIsMax
  <1>3. (1..(k + 1)) \ {k + 1} = 1..k
    OBVIOUS
  <1>4. g[1..(k + 1)] =
           Op(e, g[(1..(k + 1)) \ {Max(1..(k + 1))}], s[Max(1..(k + 1))])
    BY <1>1 DEF Folds
  <1>5. QED
    BY <1>2, <1>3, <1>4

\* It depends on the elements it has come to.
LEMMA FoldsAgree ==
    ASSUME NEW e, NEW b, NEW s, NEW t, NEW n \in Nat, NEW m \in Nat, NEW g, NEW h,
           Folds(e, b, s, n, g), Folds(e, b, t, m, h), n <= m,
           \A i \in 1..n: s[i] = t[i]
    PROVE  g[1..n] = h[1..n]
  <1> DEFINE S == {k \in Nat: k <= n => g[1..k] = h[1..k]}
  <1>1. 0 \in S
    <2>1. 1..0 = {}
      OBVIOUS
    <2>2. g[{}] = b /\ h[{}] = b
      BY DEF Folds
    <2>3. QED
      BY <2>1, <2>2
  <1>2. ASSUME NEW k \in S PROVE k + 1 \in S
    <2>1. CASE k + 1 <= n
      <3>1. k \in Nat /\ k <= n /\ k + 1 <= m /\ k + 1 \in 1..n
        BY <2>1
      <3>2. g[1..(k + 1)] = Op(e, g[1..k], s[k + 1])
        BY <2>1, <3>1, FoldsStep
      <3>3. h[1..(k + 1)] = Op(e, h[1..k], t[k + 1])
        BY <3>1, FoldsStep
      <3>4. g[1..k] = h[1..k] /\ s[k + 1] = t[k + 1]
        BY <3>1
      <3>5. QED
        BY <3>2, <3>3, <3>4
    <2>2. QED
      BY <2>1
  <1> HIDE DEF S
  <1>3. S = Nat
    <2>1. S \in SUBSET Nat
      BY DEF S
    <2>2. QED
      BY <1>1, <1>2, <2>1, Induction
  <1>4. QED
    BY <1>3 DEF S

\* FoldLeft is the value of such a function.
LEMMA FoldLeftIs ==
    ASSUME NEW e, NEW b, NEW s, NEW n \in Nat, DOMAIN s = 1..n
    PROVE  \E g: Folds(e, b, s, n, g) /\ Folded(e, b, s) = g[1..n]
  <1> DEFINE G == CHOOSE g: Folds(e, b, s, n, g)
  <1>1. Folds(e, b, s, n, G)
    BY FoldsExists
  <1>2. Folded(e, b, s) = G[1..n]
    BY DEF Folded, FoldLeft, MapThenFoldSet, Folds
  <1>3. QED
    BY <1>1, <1>2

\* Nothing to fold.
LEMMA FoldEmpty ==
    ASSUME NEW e, NEW b
    PROVE  Folded(e, b, <<>>) = b
  <1>1. DOMAIN <<>> = 1..0 /\ 0 \in Nat /\ 1..0 = {}
    OBVIOUS
  <1>2. PICK g: Folds(e, b, <<>>, 0, g) /\ Folded(e, b, <<>>) = g[1..0]
    BY <1>1, FoldLeftIs
  <1>3. QED
    BY <1>1, <1>2 DEF Folds

\* One element more is one application more.
LEMMA FoldAppend ==
    ASSUME NEW e, NEW b, NEW X, NEW s \in Seq(X), NEW y
    PROVE  Folded(e, b, Append(s, y)) =
              Op(e, Folded(e, b, s), y)
  <1> DEFINE n == Len(s)
             t == Append(s, y)
  <1>1. n \in Nat /\ n + 1 \in Nat /\ DOMAIN s = 1..n /\ DOMAIN t = 1..(n + 1)
    OBVIOUS
  <1>2. t[n + 1] = y /\ \A i \in 1..n: s[i] = t[i]
    BY <1>1
  <1> HIDE DEF n, t
  <1>3. PICK g: /\ Folds(e, b, s, n, g)
                /\ Folded(e, b, s) = g[1..n]
    BY <1>1, FoldLeftIs
  <1>4. PICK h: /\ Folds(e, b, t, n + 1, h)
                /\ Folded(e, b, t) = h[1..(n + 1)]
    BY <1>1, FoldLeftIs
  <1>5. g[1..n] = h[1..n]
    BY <1>1, <1>2, <1>3, <1>4, FoldsAgree
  <1>6. h[1..(n + 1)] = Op(e, h[1..n], t[n + 1])
    BY <1>1, <1>4, FoldsStep
  <1>7. QED
    BY <1>2, <1>3, <1>4, <1>5, <1>6 DEF t

\* Folding, seen after n elements: after none, ...
LEMMA FoldNone ==
    ASSUME NEW e, NEW b, NEW s
    PROVE  Folded(e, b, SubSeq(s, 1, 0)) = b
  <1>1. SubSeq(s, 1, 0) = <<>>
    OBVIOUS
  <1>2. QED
    BY <1>1, FoldEmpty

\* ... after one more, ...
LEMMA FoldPrefix ==
    ASSUME NEW e, NEW b, NEW X, NEW s \in Seq(X), NEW n \in Nat, n + 1 <= Len(s)
    PROVE  Folded(e, b, SubSeq(s, 1, n + 1)) = Op(e, Folded(e, b, SubSeq(s, 1, n)), s[n + 1])
  <1> DEFINE t == SubSeq(s, 1, n)
             y == s[n + 1]
  <1>1. t \in Seq(X) /\ SubSeq(s, 1, n + 1) = Append(t, y)
    OBVIOUS
  <1> HIDE DEF t, y
  <1>2. Folded(e, b, Append(t, y)) = Op(e, Folded(e, b, t), y)
    BY <1>1, FoldAppend
  <1>3. QED
    BY <1>1, <1>2 DEF t, y

\* ... and after all.
LEMMA FoldAll ==
    ASSUME NEW e, NEW b, NEW X, NEW s \in Seq(X)
    PROVE  Folded(e, b, SubSeq(s, 1, Len(s))) = Folded(e, b, s)
  <1>1. SubSeq(s, 1, Len(s)) = s
    OBVIOUS
  <1>2. QED
    BY <1>1

\* What every element keeps and the start has, the result has.
LEMMA FoldKeeps ==
    ASSUME NEW e, NEW b, NEW X, NEW s \in Seq(X), NEW A,
           b \in A, \A a \in A, x \in X: Op(e, a, x) \in A
    PROVE  Folded(e, b, s) \in A
  <1> DEFINE S == {n \in Nat: n <= Len(s) => Folded(e, b, SubSeq(s, 1, n)) \in A}
  <1>1. 0 \in S
    BY FoldNone
  <1>2. ASSUME NEW n \in S PROVE n + 1 \in S
    <2>1. CASE n + 1 <= Len(s)
      <3>1. n \in Nat /\ n <= Len(s) /\ s[n + 1] \in X
        BY <2>1
      <3>2. Folded(e, b, SubSeq(s, 1, n)) \in A
        BY <3>1
      <3>3. Folded(e, b, SubSeq(s, 1, n + 1)) =
               Op(e, Folded(e, b, SubSeq(s, 1, n)), s[n + 1])
        BY <2>1, <3>1, FoldPrefix
      <3>4. Folded(e, b, SubSeq(s, 1, n + 1)) \in A
        BY <3>1, <3>2, <3>3
      <3>5. QED
        BY <3>1, <3>4
    <2>2. QED
      BY <2>1
  <1> HIDE DEF S
  <1>3. S = Nat
    <2>1. S \in SUBSET Nat
      BY DEF S
    <2>2. QED
      BY <1>1, <1>2, <2>1, Induction
  <1>4. Len(s) \in S
    BY <1>3
  <1>5. QED
    BY <1>4, FoldAll DEF S

\* Two contexts in which every element does the same fold to the same.
LEMMA FoldSame ==
    ASSUME NEW e, NEW h, NEW b, NEW X, NEW s \in Seq(X),
           \A i \in 1..Len(s): \A a: Op(e, a, s[i]) = Op(h, a, s[i])
    PROVE  Folded(e, b, s) = Folded(h, b, s)
  <1> DEFINE S == {n \in Nat: n <= Len(s) =>
                      Folded(e, b, SubSeq(s, 1, n)) = Folded(h, b, SubSeq(s, 1, n))}
  <1>1. 0 \in S
    BY FoldNone
  <1>2. ASSUME NEW n \in S PROVE n + 1 \in S
    <2>1. CASE n + 1 <= Len(s)
      <3>1. n \in Nat /\ n <= Len(s) /\ n + 1 \in 1..Len(s)
        BY <2>1
      <3>2. Folded(e, b, SubSeq(s, 1, n)) = Folded(h, b, SubSeq(s, 1, n))
        BY <3>1
      <3>3. /\ Folded(e, b, SubSeq(s, 1, n + 1)) =
                  Op(e, Folded(e, b, SubSeq(s, 1, n)), s[n + 1])
            /\ Folded(h, b, SubSeq(s, 1, n + 1)) =
                  Op(h, Folded(h, b, SubSeq(s, 1, n)), s[n + 1])
        BY <2>1, <3>1, FoldPrefix
      <3>4. \A a: Op(e, a, s[n + 1]) = Op(h, a, s[n + 1])
        BY <3>1
      <3>5. QED
        BY <3>1, <3>2, <3>3, <3>4
    <2>2. QED
      BY <2>1
  <1> HIDE DEF S
  <1>3. S = Nat
    <2>1. S \in SUBSET Nat
      BY DEF S
    <2>2. QED
      BY <1>1, <1>2, <2>1, Induction
  <1>4. Len(s) \in S
    BY <1>3
  <1>5. QED
    BY <1>4, FoldAll DEF S
===============================================================================
