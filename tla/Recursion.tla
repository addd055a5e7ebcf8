------------------------------ MODULE Recursion -----------------------------
(***************************************************************************)
(* What the proofs about recursive functions rest on: a set of naturals    *)
(* has a least element, a function may be defined from one argument to the *)
(* next, and FlattenSeq puts sequences together one after the other.       *)
(***************************************************************************)
EXTENDS Integers, SequencesExt, WellFoundedInduction, SequenceTheorems, TLAPS

\* A set of naturals that is not empty has a least element.
LEMMA LeastNat ==
  ASSUME NEW T, T \subseteq Nat, T # {}
  PROVE  \E x \in T : \A y \in T : x <= y
<1>1. IsWellFoundedOn(OpToRel(<, Nat), Nat)
  BY NatLessThanWellFounded
<1>2. PICK x \in T : \A y \in T : ~(<<y, x>> \in OpToRel(<, Nat))
  BY <1>1, WFMin
<1>3. \A y \in T : y \in Nat /\ x \in Nat /\ ~(y < x)
  BY <1>2 DEF OpToRel
<1>4. QED
  BY <1>3

\* f has the value base at 0 and goes from each value to the next by step.
Follows(f, A, base, n, step) ==
  /\ f \in [0..n -> A]
  /\ f[0] = base
  /\ \A k \in 1..n : f[k] = step[k][f[k - 1]]

\* Such a function exists.
LEMMA RecursionExists ==
  ASSUME NEW A, NEW base \in A, NEW n \in Nat, NEW step \in [1..n -> [A -> A]]
  PROVE  \E f : Follows(f, A, base, n, step)
<1> USE DEF Follows
<1> DEFINE Upto(m, f) == f[0] = base /\ \A k \in 1..m : f[k] = step[k][f[k - 1]]
           Bad == {m \in 0..n : ~ \E f \in [0..m -> A] : Upto(m, f)}
<1>1. SUFFICES Bad = {}
  <2>1. n \in 0..n
    OBVIOUS
  <2>2. QED
    BY <2>1
<1>2. SUFFICES ASSUME Bad # {} PROVE FALSE
  OBVIOUS
<1>3. PICK m \in Bad : \A y \in Bad : m <= y
  <2>1. Bad \subseteq Nat
    OBVIOUS
  <2>2. QED
    BY <1>2, <2>1, LeastNat
<1>4. m # 0
  <2>1. SUFFICES ASSUME m = 0 PROVE FALSE
    OBVIOUS
  <2> DEFINE g == [k \in 0..0 |-> base]
  <2>2. g \in [0..0 -> A]
    OBVIOUS
  <2>3. Upto(0, g)
    OBVIOUS
  <2>4. QED
    BY <1>3, <2>1, <2>2, <2>3
<1>5. m \in 1..n /\ m - 1 \in 0..n /\ ~(m <= m - 1)
  BY <1>3, <1>4
<1>6. PICK f \in [0..(m - 1) -> A] : Upto(m - 1, f)
  BY <1>3, <1>5
<1> DEFINE g == [k \in 0..m |-> IF k = m THEN step[m][f[m - 1]] ELSE f[k]]
<1>7. g \in [0..m -> A]
  <2>1. step[m] \in [A -> A] /\ f[m - 1] \in A
    BY <1>5
  <2>2. \A k \in 0..m : k = m \/ k \in 0..(m - 1)
    BY <1>5
  <2>3. QED
    BY <2>1, <2>2
<1>8. Upto(m, g)
  <2>1. ASSUME NEW k \in 1..m PROVE g[k] = step[k][g[k - 1]]
    <3>1. k \in 0..m /\ k - 1 \in 0..m /\ g[k - 1] = f[k - 1]
      BY <1>5
    <3>2. CASE k = m
      BY <3>1, <3>2
    <3>3. CASE k # m
      <4>1. k \in 1..(m - 1)
        BY <1>5, <3>3
      <4>2. QED
        BY <1>6, <3>1, <3>3, <4>1
    <3>4. QED
      BY <3>2, <3>3
  <2>2. 0 \in 0..m /\ g[0] = base
    BY <1>5, <1>6
  <2>3. QED
    BY <2>1, <2>2
<1>9. QED
  BY <1>3, <1>5, <1>7, <1>8

\* What holds of 0 and of each number after one it holds of, holds up to n.
LEMMA Climb ==
  ASSUME NEW n \in Nat, NEW S, 0 \in S, \A k \in 1..n : k - 1 \in S => k \in S
  PROVE  \A k \in 0..n : k \in S
<1> DEFINE Bad == {k \in 0..n : k \notin S}
<1>1. SUFFICES ASSUME Bad # {} PROVE FALSE
  OBVIOUS
<1>2. PICK m \in Bad : \A k \in Bad : m <= k
  <2>1. Bad \subseteq Nat
    OBVIOUS
  <2> HIDE DEF Bad
  <2>2. QED
    BY <1>1, <2>1, LeastNat
<1>3. m \in 1..n /\ m - 1 \in 0..n /\ m - 1 \notin Bad
  BY <1>2
<1>4. QED
  BY <1>2, <1>3

-----------------------------------------------------------------------------
(* Sequences put together.                                                 *)

\* The first k of some sequences, put together.
Together(g, A, n, f) ==
  /\ g \in [0..n -> Seq(A)] /\ g[0] = <<>>
  /\ \A k \in 1..n : g[k] = g[k - 1] \o f[k]

\* What FlattenSeq puts together, one sequence at a time.
LEMMA FlattenFacts ==
  ASSUME NEW A, NEW n \in Nat, NEW f \in [1..n -> Seq(A)]
  PROVE  \E g : Together(g, A, n, f) /\ FlattenSeq(f) = g[n]
<1> DEFINE B == Seq(A)
           step == [k \in 1..n |-> [a \in B |-> a \o f[k]]]
           Is(h) == h = [i \in 1..n |-> IF i = 1 THEN f[i] ELSE h[i - 1] \o f[i]]
<1>1. step \in [1..n -> [B -> B]] /\ <<>> \in B
  OBVIOUS
<1>2. PICK g : Follows(g, B, <<>>, n, step)
  <2> HIDE DEF B, step
  <2>1. QED
    BY <1>1, RecursionExists
<1>3. g \in [0..n -> B] /\ g[0] = <<>> /\ \A k \in 1..n : g[k] = step[k][g[k - 1]]
  <2> HIDE DEF B, step
  <2>1. QED
    BY <1>2 DEF Follows
<1>4. \A k \in 1..n : g[k] = g[k - 1] \o f[k]
  <2> SUFFICES ASSUME NEW k \in 1..n PROVE g[k] = g[k - 1] \o f[k]
    OBVIOUS
  <2> HIDE DEF B
  <2>1. g[k - 1] \in B
    BY <1>3
  <2>2. QED
    BY <1>3, <2>1
<1>5. Together(g, A, n, f)
  BY <1>3, <1>4 DEF Together
<1>6. Len(f) = n
  OBVIOUS
<1>7. CASE n = 0
  <2>1. f = <<>>
    BY <1>7
  <2>2. FlattenSeq(f) = <<>>
    BY <1>6, <1>7, <2>1 DEF FlattenSeq
  <2>3. QED
    BY <1>3, <1>5, <1>7, <2>2
<1>8. CASE n # 0
  <2> DEFINE h == CHOOSE h : Is(h)
             e == [i \in 1..n |-> g[i]]
  <2>1. Is(e)
    <3>1. \A i \in 1..n : e[i] = IF i = 1 THEN f[i] ELSE e[i - 1] \o f[i]
      <4> SUFFICES ASSUME NEW i \in 1..n PROVE e[i] = IF i = 1 THEN f[i] ELSE e[i - 1] \o f[i]
        OBVIOUS
      <4>1. g[i] = g[i - 1] \o f[i] /\ f[i] \in Seq(A)
        BY <1>4
      <4>2. CASE i = 1
        <5>1. g[i - 1] = <<>> /\ <<>> \o f[i] = f[i]
          BY <1>3, <4>1, <4>2, ConcatEmptySeq
        <5>2. QED
          BY <4>1, <4>2, <5>1
      <4>3. CASE i # 1
        <5>1. i - 1 \in 1..n
          BY <4>3
        <5>2. QED
          BY <4>1, <4>3, <5>1
      <4>4. QED
        BY <4>2, <4>3
    <3>2. e = [i \in 1..n |-> e[i]]
      OBVIOUS
    <3> HIDE DEF e
    <3>3. QED
      BY <3>1, <3>2, Zenon
  <2> HIDE DEF e
  <2>2. Is(h)
    BY <2>1, Zenon
  <2>3. FlattenSeq(f) = h[n]
    <3>1. FlattenSeq(f) = (CHOOSE x : x = [i \in 1..Len(f) |-> IF i = 1 THEN f[i] ELSE x[i - 1] \o f[i]])[Len(f)]
      BY <1>6, <1>8 DEF FlattenSeq
    <3>2. QED
      BY <1>6, <3>1
  <2> HIDE DEF h
  <2>4. \A i \in 1..n : h[i] = IF i = 1 THEN f[i] ELSE h[i - 1] \o f[i]
    BY <2>2
  <2> DEFINE Same == {k \in 0..n : k = 0 \/ h[k] = g[k]}
  <2>5. 0 \in Same
    OBVIOUS
  <2>6. ASSUME NEW k \in 1..n, k - 1 \in Same PROVE k \in Same
    <3>1. g[k] = g[k - 1] \o f[k] /\ f[k] \in Seq(A)
      BY <1>4
    <3>2. CASE k = 1
      <4>1. g[k - 1] = <<>> /\ <<>> \o f[k] = f[k]
        BY <1>3, <3>1, <3>2, ConcatEmptySeq
      <4>2. QED
        BY <2>4, <3>1, <3>2, <4>1
    <3>3. CASE k # 1
      <4>1. k - 1 # 0 /\ h[k - 1] = g[k - 1]
        BY <2>6, <3>3
      <4>2. h[k] = h[k - 1] \o f[k]
        BY <2>4, <3>3
      <4>3. h[k] = g[k]
        BY <3>1, <4>1, <4>2
      <4>4. QED
        BY <4>3
    <3>4. QED
      BY <3>2, <3>3
  <2>7. \A k \in 0..n : k \in Same
    <3> HIDE DEF Same
    <3>1. QED
      BY <2>5, <2>6, Climb
  <2>8. h[n] = g[n]
    BY <1>8, <2>7
  <2>9. QED
    BY <1>5, <2>3, <2>8
<1>9. QED
  BY <1>7, <1>8

\* Where two sequences meet.
LEMMA Meet ==
  ASSUME NEW A, NEW a \in Seq(A), NEW b \in Seq(A)
  PROVE  /\ a \o b \in Seq(A) /\ Len(a) \in Nat /\ Len(b) \in Nat
         /\ Len(a \o b) = Len(a) + Len(b)
         /\ \A i \in 1..Len(a) : i \in 1..Len(a \o b) /\ (a \o b)[i] = a[i]
         /\ \A i \in 1..Len(b) : Len(a) + i \in 1..Len(a \o b) /\ (a \o b)[Len(a) + i] = b[i]
<1> DEFINE m == Len(a)
           n == Len(b)
           c == a \o b
<1>1. c \in Seq(A) /\ Len(c) = m + n /\ \A i \in 1..(m + n) : c[i] = IF i <= m THEN a[i] ELSE b[i - m]
  BY ConcatProperties
<1>2. m \in Nat /\ n \in Nat
  OBVIOUS
<1> HIDE DEF m, n, c
<1>3. \A i \in 1..m : i \in 1..Len(c) /\ c[i] = a[i]
  BY <1>1, <1>2
<1>4. \A i \in 1..n : m + i \in 1..Len(c) /\ c[m + i] = b[i]
  <2> TAKE i \in 1..n
  <2>1. m + i \in 1..(m + n) /\ ~(m + i <= m) /\ (m + i) - m = i
    BY <1>2
  <2>2. QED
    BY <1>1, <2>1
<1>5. QED
  BY <1>1, <1>2, <1>3, <1>4 DEF m, n, c
=============================================================================
