------------------------- MODULE CollectionTheorems -------------------------
(* Facts about the data the models are built from: what is left of a queue,  *)
(* sums over functions, and sequences cut in two.  The induction behind them *)
(* is over a set of numbers, which the provers can instantiate.              *)
EXTENDS Collections, SequencesExt, FiniteSets, FiniteSetTheorems,
        SequenceTheorems,
        WellFoundedInduction, TLAPS

(* Every nonempty set of naturals has a least element.                       *)
LEMMA WellOrdered ==
    ASSUME NEW T \in SUBSET Nat, T # {}
    PROVE  \E n \in T : \A m \in T : n <= m
<1> DEFINE R == {ss \in Nat \X Nat : ss[1] < ss[2]}
<1>1. IsWellFoundedOn(R, Nat)
  BY NatLessThanWellFounded DEF OpToRel
<1>2. PICK n \in T : \A m \in T : ~ (<<m, n>> \in R)
  <2> HIDE DEF R
  <2> QED
    BY <1>1, WFMin
<1>3. \A m \in T : n <= m
  <2> TAKE m \in T
  <2>1. m \in Nat /\ n \in Nat /\ <<m, n>> \notin R
    BY <1>2
  <2>2. ~ (m < n)
    BY <2>1
  <2> QED
    BY <2>1, <2>2
<1> QED
  BY <1>3

(* Induction, with a set in place of a predicate.                            *)
LEMMA InductionOn ==
    ASSUME NEW T, 0 \in T, \A n \in Nat : n \in T => n + 1 \in T
    PROVE  Nat \subseteq T
<1> SUFFICES ASSUME Nat \ T # {}
             PROVE  FALSE
  OBVIOUS
<1>1. PICK n \in Nat \ T : \A m \in Nat \ T : n <= m
  BY WellOrdered
<1>2. n # 0 /\ n - 1 \in Nat /\ n - 1 \in T
  BY <1>1
<1> QED
  BY <1>1, <1>2

-----------------------------------------------------------------------------
(* What is left of a queue.                                                  *)

LeftBy(q, S, n, g) ==
    g = [i \in 0..n |-> IF i = 0 THEN <<>>
                        ELSE IF q[i] \in S THEN g[i - 1]
                        ELSE Append(g[i - 1], q[i])]

LeftEquations(q, S, n, g) ==
    /\ g[0] = <<>>
    /\ \A i \in 1..n : g[i] = IF q[i] \in S THEN g[i - 1] ELSE Append(g[i - 1], q[i])

(* The recursive function satisfies its equations.                           *)
LEMMA LeftIs ==
    ASSUME NEW q, NEW S, NEW n \in Nat, NEW g, LeftBy(q, S, n, g)
    PROVE  LeftEquations(q, S, n, g)
<1> DEFINE h == [i \in 0..n |-> IF i = 0 THEN <<>>
                                ELSE IF q[i] \in S THEN g[i - 1]
                                ELSE Append(g[i - 1], q[i])]
<1>1. g = h
  BY DEF LeftBy
<1>2. h[0] = <<>>
  OBVIOUS
<1>3. \A i \in 1..n : h[i] = IF q[i] \in S THEN g[i - 1] ELSE Append(g[i - 1], q[i])
  OBVIOUS
<1> HIDE DEF h
<1> QED
  BY <1>1, <1>2, <1>3 DEF LeftEquations

(* The recursive function of Without exists.                                 *)
LEMMA LeftExists ==
    ASSUME NEW q, NEW S
    PROVE  \A n \in Nat : \E g : LeftBy(q, S, n, g)
<1> DEFINE T == {n \in Nat : \E g : LeftBy(q, S, n, g)}
<1>1. 0 \in T
  <2> DEFINE g == [i \in 0..0 |-> <<>>]
  <2>1. g = [i \in 0..0 |-> IF i = 0 THEN <<>> ELSE IF q[i] \in S THEN g[i - 1]
                            ELSE Append(g[i - 1], q[i])]
    OBVIOUS
  <2> QED
    BY <2>1 DEF LeftBy
<1>2. ASSUME NEW n \in Nat, n \in T
      PROVE  n + 1 \in T
  <2>1. PICK g : LeftBy(q, S, n, g)
    BY <1>2
  <2> DEFINE last == IF q[n + 1] \in S THEN g[n] ELSE Append(g[n], q[n + 1])
             h == [i \in 0..n + 1 |-> IF i = n + 1 THEN last ELSE g[i]]
  <2>2. \A i \in 0..n : h[i] = g[i]
    OBVIOUS
  <2>3. ASSUME NEW i \in 0..n + 1
        PROVE  h[i] = IF i = 0 THEN <<>> ELSE IF q[i] \in S THEN h[i - 1]
                      ELSE Append(h[i - 1], q[i])
    <3>1. CASE i = n + 1
      <4>1. h[i] = last /\ h[i - 1] = g[n] /\ i # 0
        BY <3>1
      <4> QED
        BY <3>1, <4>1
    <3>2. CASE i = 0
      BY <3>2, <2>1, <2>2 DEF LeftBy
    <3>3. CASE i \in 1..n
      <4>1. h[i] = g[i] /\ h[i - 1] = g[i - 1] /\ i # 0
        BY <3>3
      <4>2. g[i] = IF i = 0 THEN <<>> ELSE IF q[i] \in S THEN g[i - 1]
                   ELSE Append(g[i - 1], q[i])
        BY <3>3, <2>1, LeftIs DEF LeftEquations
      <4> QED
        BY <4>1, <4>2
    <3> QED
      BY <3>1, <3>2, <3>3
  <2>4. DOMAIN h = 0..n + 1 /\ h = [i \in DOMAIN h |-> h[i]]
    OBVIOUS
  <2> HIDE DEF h
  <2>5. LeftBy(q, S, n + 1, h)
    BY <2>3, <2>4 DEF LeftBy
  <2> QED
    BY <2>5
<1> HIDE DEF T
<1>3. Nat \subseteq T
  BY <1>1, <1>2, InductionOn
<1> QED
  BY <1>3 DEF T

(* The positions of q that are kept, in their order: r is q without S.       *)
Keeps(m, q, n, S, r) ==
    /\ m \in [1..Len(r) -> 1..n]
    /\ \A k \in 1..Len(r) : r[k] = q[m[k]] /\ r[k] \notin S
    /\ \A k, l \in 1..Len(r) : k < l => m[k] < m[l]
    /\ \A i \in 1..n : q[i] \notin S => \E k \in 1..Len(r) : m[k] = i

(* One more element of q.                                                    *)
LEMMA KeepsOneMore ==
    ASSUME NEW E, NEW q \in Seq(E), NEW S, NEW n \in Nat, n + 1 <= Len(q),
           NEW r \in Seq(E), Len(r) <= n, NEW m, Keeps(m, q, n, S, r),
           NEW t, t = IF q[n + 1] \in S THEN r ELSE Append(r, q[n + 1])
    PROVE  t \in Seq(E) /\ Len(t) <= n + 1 /\ \E p : Keeps(p, q, n + 1, S, t)
<1>1. Len(r) \in Nat /\ q[n + 1] \in E
  BY LenProperties, ElementOfSeq
<1>2. CASE q[n + 1] \in S
  <2>1. Keeps(m, q, n + 1, S, r)
    BY <1>1, <1>2 DEF Keeps
  <2> QED
    BY <1>1, <1>2, <2>1
<1>3. CASE q[n + 1] \notin S
  <2>1. /\ t = Append(r, q[n + 1]) /\ t \in Seq(E) /\ Len(t) = Len(r) + 1
        /\ \A i \in 1..Len(r) : t[i] = r[i]
        /\ t[Len(r) + 1] = q[n + 1]
    BY <1>1, <1>3, AppendProperties
  <2> DEFINE p == [k \in 1..Len(t) |-> IF k = Len(r) + 1 THEN n + 1 ELSE m[k]]
  <2>2. p \in [1..Len(t) -> 1..n + 1]
    BY <1>1, <2>1 DEF Keeps
  <2>3. \A k \in 1..Len(t) : t[k] = q[p[k]] /\ t[k] \notin S
    BY <1>1, <1>3, <2>1 DEF Keeps
  <2>4. \A k, l \in 1..Len(t) : k < l => p[k] < p[l]
    <3> TAKE k, l \in 1..Len(t)
    <3>1. m \in [1..Len(r) -> 1..n] /\ \A x, y \in 1..Len(r) : x < y => m[x] < m[y]
      BY DEF Keeps
    <3>2. CASE l = Len(r) + 1
      <4>1. p[l] = n + 1
        BY <3>2
      <4>2. ASSUME k < l
            PROVE  p[k] \in 1..n
        <5>1. k \in 1..Len(r)
          BY <1>1, <2>1, <3>2, <4>2
        <5>2. p[k] = m[k]
          BY <1>1, <5>1
        <5> QED
          BY <3>1, <5>1, <5>2
      <4> HIDE DEF p
      <4> QED
        BY <4>1, <4>2
    <3>3. CASE l # Len(r) + 1
      BY <1>1, <2>1, <3>1, <3>3
    <3> QED
      BY <3>2, <3>3
  <2>5. \A i \in 1..n + 1 : q[i] \notin S => \E k \in 1..Len(t) : p[k] = i
    <3>1. p[Len(r) + 1] = n + 1 /\ Len(r) + 1 \in 1..Len(t)
      BY <1>1, <2>1
    <3>2. \A k \in 1..Len(r) : p[k] = m[k] /\ k \in 1..Len(t)
      BY <1>1, <2>1
    <3>3. \A i \in 1..n : q[i] \notin S => \E k \in 1..Len(r) : m[k] = i
      BY DEF Keeps
    <3> HIDE DEF p
    <3>4. \A i \in 1..n : q[i] \notin S => \E k \in 1..Len(t) : p[k] = i
      BY <3>2, <3>3
    <3> QED
      BY <1>1, <3>1, <3>4
  <2> HIDE DEF p
  <2>6. Keeps(p, q, n + 1, S, t)
    BY <2>2, <2>3, <2>4, <2>5 DEF Keeps
  <2> QED
    BY <1>1, <2>1, <2>6
<1> QED
  BY <1>2, <1>3

(* What retain leaves: elements of q outside S, all of them, in their order. *)
LEMMA WithoutIs ==
    ASSUME NEW E, NEW q \in Seq(E), NEW S
    PROVE  /\ Without(q, S) \in Seq(E)
           /\ Len(Without(q, S)) <= Len(q)
           /\ \E m : Keeps(m, q, Len(q), S, Without(q, S))
<1> DEFINE g == CHOOSE g : LeftBy(q, S, Len(q), g)
<1>1. Len(q) \in Nat
  BY LenProperties
<1>2. Without(q, S) = g[Len(q)]
  BY DEF Without, LeftBy
<1>3. LeftBy(q, S, Len(q), g)
  BY <1>1, LeftExists
<1> HIDE DEF g
<1>8. LeftEquations(q, S, Len(q), g)
  BY <1>1, <1>3, LeftIs
<1> DEFINE Good(n) == /\ g[n] \in Seq(E) /\ Len(g[n]) <= n
                      /\ \E m : Keeps(m, q, n, S, g[n])
           T == {n \in Nat : n <= Len(q) => Good(n)}
<1>4. 0 \in T
  <2>1. g[0] = <<>>
    BY <1>8 DEF LeftEquations
  <2>2. Keeps(<<>>, q, 0, S, <<>>)
    BY DEF Keeps
  <2>3. <<>> \in Seq(E) /\ Len(<<>>) = 0
    BY EmptySeq
  <2>4. Good(0)
    BY <2>1, <2>2, <2>3
  <2> HIDE DEF Good
  <2> QED
    BY <2>4
<1>5. ASSUME NEW n \in Nat, n \in T
      PROVE  n + 1 \in T
  <2> SUFFICES ASSUME n + 1 <= Len(q)
               PROVE  Good(n + 1)
    OBVIOUS
  <2>1. Good(n)
    BY <1>1, <1>5
  <2>2. g[n + 1] = IF q[n + 1] \in S THEN g[n] ELSE Append(g[n], q[n + 1])
    BY <1>1, <1>8 DEF LeftEquations
  <2>3. PICK m : Keeps(m, q, n, S, g[n])
    BY <2>1
  <2> QED
    BY <2>1, <2>2, <2>3, KeepsOneMore
<1> HIDE DEF T, Good
<1>6. Nat \subseteq T
  BY <1>4, <1>5, InductionOn
<1>7. Good(Len(q))
  BY <1>1, <1>6 DEF T
<1> QED
  BY <1>2, <1>7 DEF Good

(* The equations of what is left, and its last value.                        *)
LEMMA WithoutByLeft ==
    ASSUME NEW E, NEW q \in Seq(E), NEW S
    PROVE  \E g : LeftEquations(q, S, Len(q), g) /\ Without(q, S) = g[Len(q)]
<1> DEFINE g == CHOOSE g : LeftBy(q, S, Len(q), g)
<1>1. Len(q) \in Nat
  BY LenProperties
<1>2. Without(q, S) = g[Len(q)]
  BY DEF Without, LeftBy
<1>3. LeftBy(q, S, Len(q), g)
  BY <1>1, LeftExists
<1> HIDE DEF g
<1> QED
  BY <1>1, <1>2, <1>3, LeftIs

(* Two solutions of equations that agree are equal.                          *)
LEMMA LeftAgrees ==
    ASSUME NEW q, NEW S, NEW g, NEW p, NEW T, NEW h, NEW n \in Nat,
           LeftEquations(q, S, n, g), LeftEquations(p, T, n, h),
           \A i \in 1..n : p[i] = q[i] /\ (p[i] \in T <=> q[i] \in S)
    PROVE  g[n] = h[n]
<1> DEFINE A == {k \in Nat : k <= n => g[k] = h[k]}
<1>1. 0 \in A
  BY DEF LeftEquations
<1>2. ASSUME NEW k \in Nat, k \in A
      PROVE  k + 1 \in A
  <2> SUFFICES ASSUME k + 1 <= n
               PROVE  g[k + 1] = h[k + 1]
    OBVIOUS
  <2>1. g[k] = h[k] /\ k + 1 \in 1..n /\ k + 1 - 1 = k
    BY <1>2
  <2> QED
    BY <2>1 DEF LeftEquations
<1> HIDE DEF A
<1>3. Nat \subseteq A
  BY <1>1, <1>2, InductionOn
<1> QED
  BY <1>3 DEF A

(* What is left depends only on which elements of the queue are taken out.   *)
LEMMA WithoutAgrees ==
    ASSUME NEW E, NEW q \in Seq(E), NEW S, NEW T,
           \A i \in 1..Len(q) : q[i] \in S <=> q[i] \in T
    PROVE  Without(q, S) = Without(q, T)
<1>1. PICK g : LeftEquations(q, S, Len(q), g) /\ Without(q, S) = g[Len(q)]
  BY WithoutByLeft
<1>2. PICK h : LeftEquations(q, T, Len(q), h) /\ Without(q, T) = h[Len(q)]
  BY WithoutByLeft
<1>3. Len(q) \in Nat
  BY LenProperties
<1>4. g[Len(q)] = h[Len(q)]
  BY <1>1, <1>2, <1>3, LeftAgrees
<1> QED
  BY <1>1, <1>2, <1>4

(* What is left when one more element comes last.                            *)
LEMMA WithoutAppended ==
    ASSUME NEW E, NEW q \in Seq(E), NEW S, NEW e \in E
    PROVE  Without(Append(q, e), S) = IF e \in S THEN Without(q, S)
                                                 ELSE Append(Without(q, S), e)
<1> DEFINE p == Append(q, e)
<1>1. PICK n \in Nat : n = Len(q)
  BY LenProperties
<1>2. /\ p \in Seq(E) /\ Len(p) = n + 1 /\ p[n + 1] = e
      /\ \A i \in 1..n : p[i] = q[i]
  BY <1>1, AppendProperties
<1> HIDE DEF p
<1>3. PICK g : LeftEquations(q, S, n, g) /\ Without(q, S) = g[n]
  BY <1>1, WithoutByLeft
<1>4. PICK h : LeftEquations(p, S, n + 1, h) /\ Without(p, S) = h[n + 1]
  BY <1>2, WithoutByLeft
<1>5. LeftEquations(p, S, n, h)
  BY <1>4 DEF LeftEquations
<1>6. g[n] = h[n]
  BY <1>1, <1>2, <1>3, <1>5, LeftAgrees
<1>7. h[n + 1] = IF e \in S THEN h[n] ELSE Append(h[n], e)
  <2>1. n + 1 \in 1..n + 1 /\ n + 1 - 1 = n
    OBVIOUS
  <2> QED
    BY <1>2, <1>4, <2>1 DEF LeftEquations
<1> QED
  BY <1>3, <1>4, <1>6, <1>7 DEF p

(* What is left behind the first element of a queue.                         *)
LEMMA WithoutOfTail ==
    ASSUME NEW E, NEW q \in Seq(E), NEW S, q # <<>>
    PROVE  Without(q, S) = (IF Head(q) \in S THEN <<>> ELSE <<Head(q)>>) \o Without(Tail(q), S)
<1>1. /\ q[1] \in E /\ Head(q) = q[1]
      /\ \E n \in Nat : Len(q) = n + 1
  <2>1. Len(q) \in Nat \ {0}
    BY EmptySeq, LenProperties
  <2>2. Len(q) - 1 \in Nat /\ Len(q) - 1 + 1 = Len(q) /\ 1 \in 1..Len(q)
    BY <2>1
  <2>3. \E n \in Nat : Len(q) = n + 1
    BY <2>2
  <2>4. q[1] \in E
    BY <2>2, ElementOfSeq
  <2>5. Head(q) = q[1]
    BY HeadTailProperties
  <2> QED
    BY <2>3, <2>4, <2>5
<1>2. PICK a \in Seq(E) : a = IF Head(q) \in S THEN <<>> ELSE <<Head(q)>>
  <2>1. (IF Head(q) \in S THEN <<>> ELSE <<Head(q)>>) \in Seq(E)
    <3>1. <<>> \in Seq(E) /\ <<q[1]>> \in Seq(E)
      BY <1>1
    <3> QED
      BY <1>1, <3>1
  <2> QED
    BY <2>1
<1>3. \A x \in Seq(E) : \A e \in E : Append(a \o x, e) = a \o Append(x, e)
  <2> TAKE x \in Seq(E)
  <2> TAKE e \in E
  <2>1. a \o x \in Seq(E) /\ <<e>> \in Seq(E)
    BY ConcatProperties
  <2>2. Append(a \o x, e) = (a \o x) \o <<e>> /\ Append(x, e) = x \o <<e>>
    BY <2>1, AppendIsConcat
  <2> QED
    BY <2>1, <2>2, ConcatAssociative
<1>4. PICK n \in Nat : Len(q) = n + 1
  BY <1>1
<1>5. PICK p \in Seq(E) : p = Tail(q)
  BY HeadTailProperties
<1>6. Len(p) = n /\ \A i \in 1..n : p[i] = q[i + 1]
  BY <1>4, <1>5, HeadTailProperties
<1>7. PICK g : LeftEquations(q, S, n + 1, g) /\ Without(q, S) = g[n + 1]
  BY <1>4, WithoutByLeft
<1>8. PICK h : LeftEquations(p, S, n, h) /\ Without(p, S) = h[n]
  BY <1>6, WithoutByLeft
<1> DEFINE Good(k) == h[k] \in Seq(E) /\ g[k + 1] = a \o h[k]
           A == {k \in Nat : k <= n => Good(k)}
<1>9. 0 \in A
  <2>1. <<>> \in Seq(E) /\ a \o <<>> = a /\ 0 + 1 = 1
    BY ConcatEmptySeq
  <2>2. g[1] = IF q[1] \in S THEN <<>> ELSE Append(<<>>, q[1])
    <3>1. 1 \in 1..n + 1 /\ 1 - 1 = 0
      OBVIOUS
    <3> QED
      BY <1>7, <3>1 DEF LeftEquations
  <2>3. Append(<<>>, q[1]) = <<q[1]>>
    BY <1>1
  <2>4. g[1] = a /\ h[0] = <<>>
    BY <1>1, <1>2, <1>8, <2>2, <2>3 DEF LeftEquations
  <2>5. Good(0)
    BY <2>1, <2>4
  <2> HIDE DEF Good
  <2> QED
    BY <2>5
<1>10. ASSUME NEW k \in Nat, k \in A
       PROVE  k + 1 \in A
  <2> SUFFICES ASSUME k + 1 <= n
               PROVE  Good(k + 1)
    OBVIOUS
  <2>1. Good(k)
    BY <1>10
  <2>2. /\ k + 1 \in 1..n /\ k + 2 \in 1..n + 1
        /\ k + 1 - 1 = k /\ k + 2 - 1 = k + 1 /\ k + 1 + 1 = k + 2
    OBVIOUS
  <2>3. p[k + 1] = q[k + 2] /\ p[k + 1] \in E
    BY <1>6, <2>2, ElementOfSeq
  <2>4. h[k + 1] = IF p[k + 1] \in S THEN h[k] ELSE Append(h[k], p[k + 1])
    BY <1>8, <2>2 DEF LeftEquations
  <2>5. g[k + 2] = IF q[k + 2] \in S THEN g[k + 1] ELSE Append(g[k + 1], q[k + 2])
    BY <1>7, <2>2 DEF LeftEquations
  <2>6. Append(a \o h[k], p[k + 1]) = a \o Append(h[k], p[k + 1])
    BY <1>3, <2>1, <2>3
  <2>7. Append(h[k], p[k + 1]) \in Seq(E)
    BY <2>1, <2>3, AppendProperties
  <2>8. h[k + 1] \in Seq(E)
    BY <2>1, <2>4, <2>7
  <2>9. g[k + 2] = a \o h[k + 1]
    BY <2>1, <2>3, <2>4, <2>5, <2>6
  <2> QED
    BY <2>2, <2>8, <2>9
<1> HIDE DEF A, Good
<1>11. Nat \subseteq A
  BY <1>9, <1>10, InductionOn
<1>12. Good(n)
  <2>1. n \in A /\ n <= n
    BY <1>11
  <2> QED
    BY <2>1 DEF A
<1> QED
  BY <1>2, <1>5, <1>7, <1>8, <1>12 DEF Good

(* Nothing is left of nothing.                                               *)
LEMMA WithoutOfNone ==
    ASSUME NEW S
    PROVE  Without(<<>>, S) = <<>>
<1>1. PICK g : LeftEquations(<<>>, S, Len(<<>>), g) /\ Without(<<>>, S) = g[Len(<<>>)]
  BY WithoutByLeft, EmptySeq
<1> QED
  BY <1>1, EmptySeq DEF LeftEquations

(* What is left when one element is taken out.                               *)
LEMMA RemoveAtIs ==
    ASSUME NEW E, NEW q \in Seq(E), NEW i \in 1..Len(q)
    PROVE  /\ RemoveAt(q, i) \in Seq(E)
           /\ Len(RemoveAt(q, i)) = Len(q) - 1
           /\ \A k \in 1..Len(q) - 1 :
                 RemoveAt(q, i)[k] = IF k < i THEN q[k] ELSE q[k + 1]
<1> DEFINE a == SubSeq(q, 1, i - 1)
           b == SubSeq(q, i + 1, Len(q))
<1>1. Len(q) \in Nat
  BY LenProperties
<1>2. /\ a \in Seq(E) /\ Len(a) = i - 1
      /\ \A k \in 1..i - 1 : a[k] = q[k]
  <2>1. \A k \in 1..i - 1 : q[k] \in E
    BY <1>1, ElementOfSeq
  <2> QED
    BY <1>1, <2>1, SubSeqProperties
<1>3. /\ b \in Seq(E) /\ Len(b) = Len(q) - i
      /\ \A k \in 1..Len(q) - i : b[k] = q[i + k]
  <2>1. \A k \in i + 1..Len(q) : q[k] \in E
    BY <1>1, ElementOfSeq
  <2>2. /\ b \in Seq(E)
        /\ Len(b) = IF i + 1 <= Len(q) THEN Len(q) - (i + 1) + 1 ELSE 0
        /\ \A k \in 1..Len(q) - (i + 1) + 1 : b[k] = q[i + 1 + k - 1]
    BY <1>1, <2>1, SubSeqProperties
  <2> HIDE DEF b
  <2> QED
    BY <1>1, <2>2
<1>4. RemoveAt(q, i) = a \o b
  BY DEF RemoveAt
<1> HIDE DEF a, b
<1>5. /\ a \o b \in Seq(E) /\ Len(a \o b) = Len(a) + Len(b)
      /\ \A k \in 1..Len(a) + Len(b) :
            (a \o b)[k] = IF k <= Len(a) THEN a[k] ELSE b[k - Len(a)]
  BY <1>2, <1>3, ConcatProperties
<1>6. ASSUME NEW k \in 1..Len(q) - 1
      PROVE  (a \o b)[k] = IF k < i THEN q[k] ELSE q[k + 1]
  <2>1. CASE k < i
    BY <1>1, <1>2, <1>3, <1>5, <2>1
  <2>2. CASE k >= i
    <3>1. (a \o b)[k] = b[k - (i - 1)] /\ k - (i - 1) \in 1..Len(q) - i
      BY <1>1, <1>2, <1>3, <1>5, <2>2
    <3> QED
      BY <1>1, <1>3, <2>2, <3>1
  <2>3. k < i \/ k >= i
    BY <1>1
  <2> QED
    BY <2>1, <2>2, <2>3
<1> QED
  BY <1>1, <1>2, <1>3, <1>4, <1>5, <1>6

-----------------------------------------------------------------------------
(* Sums.  SumFunction takes one index after the other, in an order that      *)
(* CHOOSE gives; these facts say that the order does not matter.             *)

SumBody(w, g, s) == IF s = {} THEN 0
                 ELSE LET x == CHOOSE x \in s : TRUE IN w[x] + g[s \ {x}]
SumFolds(w, g, X) == g = [s \in X |-> SumBody(w, g, s)]
SumOver(w, s) == (CHOOSE g : SumFolds(w, g, SUBSET DOMAIN w))[s]

(* The sum of the community modules is this one.                             *)
LEMMA SumIsSumOver ==
    ASSUME NEW w
    PROVE  SumFunction(w) = SumOver(w, DOMAIN w)
BY DEF SumFunction, SumFunctionOnSet, FoldFunctionOnSet, MapThenFoldSet,
       SumOver, SumFolds, SumBody

(* A family of partial sums satisfies its equations.                         *)
LEMMA FoldsIs ==
    ASSUME NEW w, NEW X, NEW g, SumFolds(w, g, X), NEW s \in X
    PROVE  g[s] = SumBody(w, g, s)
<1> DEFINE h == [x \in X |-> SumBody(w, g, x)]
<1>1. g = h
  BY DEF SumFolds
<1>2. h[s] = SumBody(w, g, s)
  OBVIOUS
<1> HIDE DEF h
<1> QED
  BY <1>1, <1>2

SmallSets(D, n) == {s \in SUBSET D : Cardinality(s) <= n}

(* A set that loses an element loses one of its number.                      *)
LEMMA OneLess ==
    ASSUME NEW D, IsFiniteSet(D), NEW s \in SUBSET D, NEW x \in s
    PROVE  /\ s \ {x} \in SUBSET D /\ IsFiniteSet(s) /\ Cardinality(s) \in Nat
           /\ Cardinality(s) > 0
           /\ Cardinality(s \ {x}) = Cardinality(s) - 1
<1>1. IsFiniteSet(s)
  BY FS_Subset
<1>2. IsFiniteSet(s \ {x}) /\ Cardinality(s \ {x}) = Cardinality(s) - 1
  BY <1>1, FS_RemoveElement
<1>3. Cardinality(s) \in Nat /\ Cardinality(s \ {x}) \in Nat
  BY <1>1, <1>2, FS_CardinalityType
<1> QED
  BY <1>1, <1>2, <1>3

(* There are such families for every finite set.                             *)
LEMMA FoldsExist ==
    ASSUME NEW w, NEW D, IsFiniteSet(D)
    PROVE  \A n \in Nat : \E g : SumFolds(w, g, SmallSets(D, n))
<1> DEFINE T == {n \in Nat : \E g : SumFolds(w, g, SmallSets(D, n))}
<1>1. 0 \in T
  <2> DEFINE g == [s \in SmallSets(D, 0) |-> 0]
  <2>1. ASSUME NEW s \in SmallSets(D, 0)
        PROVE  SumBody(w, g, s) = 0
    <3>1. s = {}
      <4>1. IsFiniteSet(s)
        BY FS_Subset DEF SmallSets
      <4> QED
        BY <4>1, FS_CardinalityType, FS_EmptySet DEF SmallSets
    <3> QED
      BY <3>1 DEF SumBody
  <2>2. g = [s \in SmallSets(D, 0) |-> SumBody(w, g, s)]
    BY <2>1
  <2> HIDE DEF g
  <2>3. SumFolds(w, g, SmallSets(D, 0))
    BY <2>2 DEF SumFolds
  <2> QED
    BY <2>3
<1>2. ASSUME NEW n \in Nat, n \in T
      PROVE  n + 1 \in T
  <2>1. PICK g : SumFolds(w, g, SmallSets(D, n))
    BY <1>2
  <2> DEFINE h == [s \in SmallSets(D, n + 1) |-> IF s \in SmallSets(D, n) THEN g[s] ELSE SumBody(w, g, s)]
  <2>2. ASSUME NEW s \in SmallSets(D, n + 1)
        PROVE  h[s] = SumBody(w, h, s)
    <3>1. s \in SUBSET D /\ h[s] = SumBody(w, g, s)
      BY <2>1, FoldsIs DEF SmallSets
    <3>2. CASE s = {}
      BY <3>1, <3>2 DEF SumBody
    <3>3. CASE s # {}
      <4> DEFINE x == CHOOSE x \in s : TRUE
      <4>1. x \in s
        BY <3>3
      <4> HIDE DEF x
      <4>2. s \ {x} \in SmallSets(D, n) /\ s \ {x} \in SmallSets(D, n + 1)
        BY <3>1, <4>1, OneLess DEF SmallSets
      <4>3. h[s \ {x}] = g[s \ {x}]
        BY <4>2
      <4> HIDE DEF h
      <4> QED
        BY <3>1, <3>3, <4>3 DEF SumBody, x
    <3> QED
      BY <3>2, <3>3
  <2>3. h = [s \in SmallSets(D, n + 1) |-> h[s]]
    OBVIOUS
  <2> HIDE DEF h
  <2>4. [s \in SmallSets(D, n + 1) |-> h[s]] = [s \in SmallSets(D, n + 1) |-> SumBody(w, h, s)]
    BY <2>2
  <2>5. SumFolds(w, h, SmallSets(D, n + 1))
    BY <2>3, <2>4 DEF SumFolds
  <2> QED
    BY <2>5
<1> HIDE DEF T
<1>3. Nat \subseteq T
  BY <1>1, <1>2, InductionOn
<1> QED
  BY <1>3 DEF T

(* What SumOver is, one CHOOSE at a time.                                      *)
LEMMA SumOverIs ==
    ASSUME NEW w, IsFiniteSet(DOMAIN w)
    PROVE  /\ SumOver(w, {}) = 0
           /\ \A s \in SUBSET DOMAIN w : s # {} =>
                LET x == CHOOSE x \in s : TRUE
                IN SumOver(w, s) = w[x] + SumOver(w, s \ {x})
<1> DEFINE D == DOMAIN w
           n == Cardinality(D)
           g == CHOOSE g : SumFolds(w, g, SUBSET D)
<1>1. n \in Nat
  BY FS_CardinalityType
<1>2. SmallSets(D, n) = SUBSET D
  BY <1>1, FS_Subset DEF SmallSets
<1>3. \E f : SumFolds(w, f, SUBSET D)
  <2> HIDE DEF D, n
  <2>1. IsFiniteSet(D)
    BY DEF D
  <2>2. \E f : SumFolds(w, f, SmallSets(D, n))
    BY <1>1, <2>1, FoldsExist
  <2> QED
    BY <1>2, <2>2
<1>4. SumFolds(w, g, SUBSET D)
  BY <1>3
<1>5. \A s : SumOver(w, s) = g[s]
  BY DEF SumOver
<1> HIDE DEF g
<1>6. \A s \in SUBSET D : g[s] = SumBody(w, g, s)
  BY <1>4, FoldsIs
<1>7. g[{}] = 0
  BY <1>6 DEF SumBody
<1>8. ASSUME NEW s \in SUBSET D, s # {}
      PROVE  LET x == CHOOSE x \in s : TRUE IN g[s] = w[x] + g[s \ {x}]
  BY <1>6, <1>8 DEF SumBody
<1> QED
  BY <1>5, <1>7, <1>8

(* Sets of a finite set, by their size: what holds of the empty set and of a *)
(* set when it holds of those with one element less holds of all.            *)
LEMMA SizeInduction ==
    ASSUME NEW D, IsFiniteSet(D), NEW G,
           {} \in G,
           \A s \in SUBSET D : s # {} /\ (\A x \in s : s \ {x} \in G) => s \in G
    PROVE  SUBSET D \subseteq G
<1> DEFINE T == {n \in Nat : SmallSets(D, n) \subseteq G}
<1>1. 0 \in T
  <2>1. \A s \in SmallSets(D, 0) : s = {}
    <3> TAKE s \in SmallSets(D, 0)
    <3>1. IsFiniteSet(s)
      BY FS_Subset DEF SmallSets
    <3> QED
      BY <3>1, FS_CardinalityType, FS_EmptySet DEF SmallSets
  <2> QED
    BY <2>1
<1>2. ASSUME NEW n \in Nat, n \in T
      PROVE  n + 1 \in T
  <2> SUFFICES ASSUME NEW s \in SmallSets(D, n + 1)
               PROVE  s \in G
    OBVIOUS
  <2>1. s \in SUBSET D
    BY DEF SmallSets
  <2>2. \A x \in s : s \ {x} \in SmallSets(D, n)
    BY <2>1, OneLess DEF SmallSets
  <2> QED
    BY <1>2, <2>1, <2>2
<1> HIDE DEF T
<1>3. Nat \subseteq T
  BY <1>1, <1>2, InductionOn
<1>4. SmallSets(D, Cardinality(D)) = SUBSET D
  BY FS_CardinalityType, FS_Subset DEF SmallSets
<1> QED
  BY <1>3, <1>4, FS_CardinalityType DEF T

(* A sum of integers is an integer.                                          *)
LEMMA SumOverIsInt ==
    ASSUME NEW D, IsFiniteSet(D), NEW w \in [D -> Int]
    PROVE  \A s \in SUBSET D : SumOver(w, s) \in Int
<1> DEFINE G == {s \in SUBSET D : SumOver(w, s) \in Int}
<1>1. {} \in G
  BY SumOverIs
<1>2. ASSUME NEW s \in SUBSET D, s # {}, \A x \in s : s \ {x} \in G
      PROVE  s \in G
  <2> DEFINE x == CHOOSE x \in s : TRUE
  <2>1. x \in s
    BY <1>2
  <2>2. SumOver(w, s) = w[x] + SumOver(w, s \ {x})
    BY <1>2, SumOverIs
  <2> HIDE DEF x
  <2>3. w[x] \in Int /\ SumOver(w, s \ {x}) \in Int
    BY <1>2, <2>1
  <2> QED
    BY <2>2, <2>3
<1> HIDE DEF G
<1>3. SUBSET D \subseteq G
  BY <1>1, <1>2, SizeInduction
<1> QED
  BY <1>3 DEF G

(* Any index may be the first.                                               *)
LEMMA SumOverStep ==
    ASSUME NEW D, IsFiniteSet(D), NEW w \in [D -> Int]
    PROVE  \A s \in SUBSET D : \A x \in s : SumOver(w, s) = w[x] + SumOver(w, s \ {x})
<1> DEFINE G == {s \in SUBSET D : \A x \in s : SumOver(w, s) = w[x] + SumOver(w, s \ {x})}
<1>1. {} \in G
  OBVIOUS
<1>2. ASSUME NEW s \in SUBSET D, s # {}, \A x \in s : s \ {x} \in G
      PROVE  s \in G
  <2> DEFINE c == CHOOSE c \in s : TRUE
  <2>1. c \in s
    BY <1>2
  <2>2. SumOver(w, s) = w[c] + SumOver(w, s \ {c})
    BY <1>2, SumOverIs
  <2> HIDE DEF c
  <2>3. ASSUME NEW x \in s, x # c
        PROVE  SumOver(w, s) = w[x] + SumOver(w, s \ {x})
    <3>1. SumOver(w, s \ {c}) = w[x] + SumOver(w, (s \ {c}) \ {x})
      BY <1>2, <2>1, <2>3
    <3>2. SumOver(w, s \ {x}) = w[c] + SumOver(w, (s \ {x}) \ {c})
      BY <1>2, <2>1, <2>3
    <3>3. (s \ {c}) \ {x} = (s \ {x}) \ {c}
      OBVIOUS
    <3>4. w[x] \in Int /\ w[c] \in Int /\ SumOver(w, (s \ {c}) \ {x}) \in Int
      <4>1. (s \ {c}) \ {x} \in SUBSET D
        OBVIOUS
      <4> QED
        BY <2>1, <4>1, SumOverIsInt
    <3> DEFINE rest == SumOver(w, (s \ {c}) \ {x})
    <3>5. SumOver(w, s \ {x}) = w[c] + rest /\ SumOver(w, s \ {c}) = w[x] + rest
      BY <3>1, <3>2, <3>3
    <3>6. rest \in Int
      BY <3>4
    <3> HIDE DEF rest
    <3> QED
      BY <2>2, <3>4, <3>5, <3>6
  <2> QED
    BY <2>2, <2>3
<1> HIDE DEF G
<1>3. SUBSET D \subseteq G
  BY <1>1, <1>2, SizeInduction
<1> QED
  BY <1>3 DEF G

(* Sums over corresponding sets are the same.                                *)
LEMMA SumOverAgrees ==
    ASSUME NEW D, IsFiniteSet(D), NEW w \in [D -> Int],
           NEW E, IsFiniteSet(E), NEW v \in [E -> Int], NEW p,
           \A s \in SUBSET D : {p[x] : x \in s} \in SUBSET E,
           \A x, y \in D : p[x] = p[y] => x = y,
           \A x \in D : v[p[x]] = w[x]
    PROVE  \A s \in SUBSET D : SumOver(w, s) = SumOver(v, {p[x] : x \in s})
<1> DEFINE Image(s) == {p[x] : x \in s}
           G == {s \in SUBSET D : SumOver(w, s) = SumOver(v, Image(s))}
<1>1. {} \in G
  <2>1. Image({}) = {}
    OBVIOUS
  <2>2. SumOver(w, {}) = 0 /\ SumOver(v, {}) = 0
    BY SumOverIs
  <2> QED
    BY <2>1, <2>2
<1>2. ASSUME NEW s \in SUBSET D, s # {}, \A x \in s : s \ {x} \in G
      PROVE  s \in G
  <2>1. PICK x \in s : TRUE
    BY <1>2
  <2>2. SumOver(w, s) = w[x] + SumOver(w, s \ {x})
    BY <2>1, SumOverStep
  <2>3. Image(s) \in SUBSET E /\ p[x] \in Image(s)
    BY <2>1
  <2>4. SumOver(v, Image(s)) = v[p[x]] + SumOver(v, Image(s) \ {p[x]})
    BY <2>3, SumOverStep
  <2>5. Image(s) \ {p[x]} = Image(s \ {x})
    BY <2>1
  <2>6. SumOver(w, s \ {x}) = SumOver(v, Image(s \ {x})) /\ v[p[x]] = w[x]
    BY <1>2, <2>1
  <2> QED
    BY <2>2, <2>4, <2>5, <2>6
<1> HIDE DEF G
<1>3. SUBSET D \subseteq G
  BY <1>1, <1>2, SizeInduction
<1> QED
  BY <1>3 DEF G

(* A sum does not depend on the names of the indices.                        *)
LEMMA SumReindexed ==
    ASSUME NEW D, IsFiniteSet(D), NEW w \in [D -> Int],
           NEW E, IsFiniteSet(E), NEW v \in [E -> Int], NEW p \in [D -> E],
           \A x, y \in D : p[x] = p[y] => x = y,
           \A x \in D : v[p[x]] = w[x]
    PROVE  SumFunction(w) = SumOver(v, {p[x] : x \in D})
<1>1. \A s \in SUBSET D : {p[x] : x \in s} \in SUBSET E
  OBVIOUS
<1>2. \A s \in SUBSET D : SumOver(w, s) = SumOver(v, {p[x] : x \in s})
  BY <1>1, SumOverAgrees
<1>3. SumFunction(w) = SumOver(w, D)
  BY SumIsSumOver
<1> QED
  BY <1>2, <1>3

(* A sum is over the indices of the function.                                *)
LEMMA SumRestricted ==
    ASSUME NEW D, IsFiniteSet(D), NEW w \in [D -> Int],
           NEW E, IsFiniteSet(E), NEW v \in [E -> Int], D \subseteq E,
           \A x \in D : v[x] = w[x]
    PROVE  SumFunction(w) = SumOver(v, D)
<1> DEFINE p == [x \in D |-> x]
<1>1. p \in [D -> E] /\ {p[x] : x \in D} = D /\ \A x \in D : p[x] = x
  OBVIOUS
<1> HIDE DEF p
<1>2. (\A x, y \in D : p[x] = p[y] => x = y) /\ \A x \in D : v[p[x]] = w[x]
  BY <1>1
<1> QED
  BY <1>1, <1>2, SumReindexed

(* The sum of no numbers.                                                    *)
LEMMA SumOfNone ==
    ASSUME NEW w, DOMAIN w = {}
    PROVE  SumFunction(w) = 0
BY SumIsSumOver, SumOverIs, FS_EmptySet

(* The sum of integers.                                                      *)
LEMMA SumIsInt ==
    ASSUME NEW D, IsFiniteSet(D), NEW w \in [D -> Int]
    PROVE  SumFunction(w) \in Int
BY SumIsSumOver, SumOverIsInt

(* One index taken out.                                                      *)
LEMMA SumWithout ==
    ASSUME NEW D, IsFiniteSet(D), NEW w \in [D -> Int], NEW x \in D,
           NEW v \in [D \ {x} -> Int], \A y \in D \ {x} : v[y] = w[y]
    PROVE  SumFunction(v) = SumFunction(w) - w[x]
<1>1. IsFiniteSet(D \ {x})
  BY FS_Subset
<1>2. SumFunction(v) = SumOver(w, D \ {x})
  <2> DEFINE E == D \ {x}
  <2>1. v \in [E -> Int] /\ IsFiniteSet(E) /\ E \subseteq D /\ \A y \in E : w[y] = v[y]
    BY <1>1
  <2> HIDE DEF E
  <2>2. SumFunction(v) = SumOver(w, E)
    BY <2>1, SumRestricted
  <2> QED
    BY <2>2 DEF E
<1>3. SumFunction(w) = SumOver(w, D)
  BY SumIsSumOver
<1>4. SumOver(w, D) = w[x] + SumOver(w, D \ {x})
  BY SumOverStep
<1>5. w[x] \in Int /\ SumOver(w, D \ {x}) \in Int
  BY SumOverIsInt
<1> DEFINE rest == SumOver(w, D \ {x})
           all == SumOver(w, D)
<1> HIDE DEF rest, all
<1>6. SumFunction(v) = rest /\ SumFunction(w) = all /\ all = w[x] + rest /\ rest \in Int
  BY <1>2, <1>3, <1>4, <1>5 DEF rest, all
<1> QED
  BY <1>5, <1>6

(* One term changed.                                                         *)
LEMMA SumChanged ==
    ASSUME NEW D, IsFiniteSet(D), NEW w \in [D -> Int], NEW v \in [D -> Int],
           NEW x \in D, \A y \in D \ {x} : v[y] = w[y]
    PROVE  SumFunction(v) = SumFunction(w) - w[x] + v[x]
<1> DEFINE u == [y \in D \ {x} |-> w[y]]
           sw == SumFunction(w)
           sv == SumFunction(v)
           su == SumFunction(u)
<1>1. u \in [D \ {x} -> Int] /\ \A y \in D \ {x} : u[y] = w[y] /\ u[y] = v[y]
  OBVIOUS
<1> HIDE DEF u
<1>2. su = sw - w[x]
  BY <1>1, SumWithout
<1>3. su = sv - v[x]
  BY <1>1, SumWithout
<1>4. sw \in Int /\ sv \in Int /\ w[x] \in Int /\ v[x] \in Int
  BY SumIsInt
<1> HIDE DEF sw, sv, su
<1>5. sv = sw - w[x] + v[x]
  BY <1>2, <1>3, <1>4
<1> QED
  BY <1>5 DEF sw, sv

(* A sum of naturals is at least each of them.                               *)
LEMMA SumIsNat ==
    ASSUME NEW D, IsFiniteSet(D), NEW w \in [D -> Nat]
    PROVE  /\ SumFunction(w) \in Nat
           /\ \A x \in D : w[x] <= SumFunction(w)
<1> DEFINE G == {s \in SUBSET D : SumOver(w, s) \in Nat}
<1>0. w \in [D -> Int]
  OBVIOUS
<1>1. {} \in G
  BY SumOverIs
<1>2. ASSUME NEW s \in SUBSET D, s # {}, \A x \in s : s \ {x} \in G
      PROVE  s \in G
  <2>1. PICK x \in s : TRUE
    BY <1>2
  <2>2. SumOver(w, s) = w[x] + SumOver(w, s \ {x})
    BY <1>0, <2>1, SumOverStep
  <2>3. w[x] \in Nat /\ SumOver(w, s \ {x}) \in Nat
    BY <1>2, <2>1
  <2> QED
    BY <2>2, <2>3
<1> HIDE DEF G
<1>3. SUBSET D \subseteq G
  BY <1>1, <1>2, SizeInduction
<1>4. \A s \in SUBSET D : SumOver(w, s) \in Nat
  BY <1>3 DEF G
<1>5. SumFunction(w) = SumOver(w, D)
  BY SumIsSumOver
<1>6. ASSUME NEW x \in D
      PROVE  w[x] <= SumOver(w, D)
  <2>1. SumOver(w, D) = w[x] + SumOver(w, D \ {x})
    BY <1>0, SumOverStep
  <2>2. SumOver(w, D \ {x}) \in Nat /\ w[x] \in Nat
    BY <1>4
  <2> QED
    BY <2>1, <2>2
<1> QED
  BY <1>4, <1>5, <1>6

(* The sum of zeros.                                                         *)
LEMMA SumOfZeros ==
    ASSUME NEW D, IsFiniteSet(D), NEW w \in [D -> Int], \A x \in D : w[x] = 0
    PROVE  SumFunction(w) = 0
<1> DEFINE G == {s \in SUBSET D : SumOver(w, s) = 0}
<1>1. {} \in G
  BY SumOverIs
<1>2. ASSUME NEW s \in SUBSET D, s # {}, \A x \in s : s \ {x} \in G
      PROVE  s \in G
  <2>1. PICK x \in s : TRUE
    BY <1>2
  <2>2. SumOver(w, s) = w[x] + SumOver(w, s \ {x})
    BY <2>1, SumOverStep
  <2>3. w[x] = 0 /\ SumOver(w, s \ {x}) = 0
    BY <1>2, <2>1
  <2> QED
    BY <2>2, <2>3
<1> HIDE DEF G
<1>3. SUBSET D \subseteq G
  BY <1>1, <1>2, SizeInduction
<1>4. SumFunction(w) = SumOver(w, D)
  BY SumIsSumOver
<1> QED
  BY <1>3, <1>4 DEF G

(* The positions of a sequence of n elements.                                *)
UpTo(D, n) == n \in Nat /\ D = 1..n

(* A sequence of weights with one more at the end.                           *)
LEMMA SumAppended ==
    ASSUME NEW n, NEW C, UpTo(C, n), NEW D, UpTo(D, n + 1),
           NEW w \in [C -> Int], NEW v \in [D -> Int],
           \A i \in C : v[i] = w[i]
    PROVE  SumFunction(v) = SumFunction(w) + v[n + 1]
<1> DEFINE x == n + 1
           sv == SumFunction(v)
           sw == SumFunction(w)
<1>1. IsFiniteSet(D) /\ x \in D
  BY FS_Interval DEF UpTo
<1>2. D \ {x} = C
  BY DEF UpTo
<1> HIDE DEF x
<1>3. /\ v \in [D -> Int] /\ w \in [D \ {x} -> Int]
      /\ \A i \in D \ {x} : w[i] = v[i]
  BY <1>2
<1>4. sv \in Int /\ v[x] \in Int
  BY <1>1, SumIsInt
<1>5. sw = sv - v[x]
  BY ONLY <1>1, <1>3, SumWithout
<1> HIDE DEF sv, sw
<1>6. sv = sw + v[x]
  BY <1>4, <1>5
<1> QED
  BY <1>6 DEF sv, sw, x

(* A sequence of weights without the one at i.                               *)
LEMMA SumRemoved ==
    ASSUME NEW n, NEW E, UpTo(E, n), NEW i, i \in E, NEW D, UpTo(D, n - 1),
           NEW w \in [E -> Int], NEW v \in [D -> Int],
           \A k \in D : v[k] = IF k < i THEN w[k] ELSE w[k + 1]
    PROVE  SumFunction(v) = SumFunction(w) - w[i]
<1> DEFINE p == [k \in D |-> IF k < i THEN k ELSE k + 1]
           rest == SumOver(w, E \ {i})
           all == SumOver(w, E)
<1>1. IsFiniteSet(D) /\ IsFiniteSet(E) /\ i \in E
  BY FS_Interval DEF UpTo
<1>2. p \in [D -> E]
  BY DEF UpTo
<1>3. \A k, l \in D : p[k] = p[l] => k = l
  BY DEF UpTo
<1>4. \A k \in D : w[p[k]] = v[k]
  BY <1>2 DEF UpTo
<1>5. {p[k] : k \in D} = E \ {i}
  <2>1. \A k \in D : p[k] \in E /\ p[k] # i
    BY DEF UpTo
  <2>2. ASSUME NEW e \in E \ {i}
        PROVE  \E k \in D : p[k] = e
    <3>1. CASE e < i
      <4>1. e \in D /\ p[e] = e
        BY <3>1 DEF UpTo
      <4> QED
        BY <4>1
    <3>2. CASE e > i
      <4>1. e - 1 \in D /\ p[e - 1] = e
        BY <3>2 DEF UpTo
      <4> QED
        BY <4>1
    <3> QED
      BY <3>1, <3>2 DEF UpTo
  <2> HIDE DEF p
  <2> QED
    BY ONLY <2>1, <2>2
<1> HIDE DEF p
<1>0. w \in [E -> Int] /\ v \in [D -> Int]
  OBVIOUS
<1>6. SumFunction(v) = SumOver(w, {p[k] : k \in D})
  BY ONLY <1>0, <1>1, <1>2, <1>3, <1>4, SumReindexed
<1>7. SumFunction(v) = rest
  BY <1>5, <1>6
<1>8. SumFunction(w) = all
  BY SumIsSumOver
<1>9. all = w[i] + rest
  BY ONLY <1>0, <1>1, SumOverStep
<1>10. w[i] \in Int /\ rest \in Int
  BY <1>1, SumOverIsInt
<1> HIDE DEF rest, all
<1> QED
  BY <1>7, <1>8, <1>9, <1>10

(* A sum over D is the sum over a part E of D and the sum of the rest, given *)
(* through any numbering p of it by the elements of F.                       *)
LEMMA SumParted ==
    ASSUME NEW D, IsFiniteSet(D), NEW w \in [D -> Int],
           NEW E, E \subseteq D, NEW u \in [E -> Int], \A x \in E : u[x] = w[x],
           NEW F, IsFiniteSet(F), NEW v \in [F -> Int], NEW p \in [F -> D],
           \A x, y \in F : p[x] = p[y] => x = y,
           \A x \in F : w[p[x]] = v[x],
           {p[x] : x \in F} = D \ E
    PROVE  SumFunction(w) = SumFunction(u) + SumFunction(v)
<1> DEFINE R == D \ E
           G == {s \in SUBSET E : SumOver(w, R \cup s) = SumOver(w, R) + SumOver(w, s)}
<1>1. IsFiniteSet(E)
  BY FS_Subset
<1>2. \A s \in SUBSET D : SumOver(w, s) \in Int
  BY SumOverIsInt
<1>3. {} \in G
  <2>1. SumOver(w, {}) = 0
    BY SumOverIs
  <2>2. R \cup {} = R /\ SumOver(w, R) \in Int
    BY <1>2
  <2> QED
    BY <2>1, <2>2
<1>4. ASSUME NEW s \in SUBSET E, s # {}, \A x \in s : s \ {x} \in G
      PROVE  s \in G
  <2>1. PICK x \in s : TRUE
    BY <1>4
  <2> DEFINE t == s \ {x}
             a == SumOver(w, R \cup s)
             b == SumOver(w, R \cup t)
             c == SumOver(w, s)
             d == SumOver(w, t)
             e == SumOver(w, R)
  <2>2. b = e + d
    BY <1>4, <2>1
  <2>3. (R \cup s) \ {x} = R \cup t /\ R \cup s \in SUBSET D /\ s \in SUBSET D
    OBVIOUS
  <2>4. a = w[x] + b /\ c = w[x] + d
    BY <2>1, <2>3, SumOverStep
  <2>5. d \in Int /\ e \in Int /\ w[x] \in Int
    BY <1>2, <2>1
  <2> HIDE DEF a, b, c, d, e
  <2>6. a = e + c
    BY <2>2, <2>4, <2>5
  <2> QED
    BY <2>6 DEF a, c, e
<1>5. E \in G
  <2> HIDE DEF G
  <2>1. SUBSET E \subseteq G
    BY <1>1, <1>3, <1>4, SizeInduction
  <2> QED
    BY <2>1
<1>6. R \cup E = D
  OBVIOUS
<1>7. SumOver(w, D) = SumOver(w, R) + SumOver(w, E)
  BY <1>5, <1>6
<1>8. SumFunction(u) = SumOver(w, E)
  BY <1>1, SumRestricted
<1>9. SumFunction(v) = SumOver(w, R)
  BY SumReindexed
<1>10. SumFunction(w) = SumOver(w, D)
  BY SumIsSumOver
<1>11. SumOver(w, R) \in Int /\ SumOver(w, E) \in Int
  BY <1>2
<1> QED
  BY <1>7, <1>8, <1>9, <1>10, <1>11

(* The weights w over a part E of their indices, u, and over the rest, v.    *)
SplitAt(w, D, E, u, v) ==
    /\ IsFiniteSet(D) /\ E \subseteq D
    /\ w \in [D -> Int] /\ u \in [E -> Int] /\ v \in [D \ E -> Int]
    /\ \A x \in E : u[x] = w[x]
    /\ \A x \in D \ E : v[x] = w[x]

(* Their sum is the sum of both.                                             *)
LEMMA SumSplit ==
    ASSUME NEW w, NEW D, NEW E, NEW u, NEW v, SplitAt(w, D, E, u, v)
    PROVE  SumFunction(w) = SumFunction(u) + SumFunction(v)
<1> DEFINE F == D \ E
           p == [x \in F |-> x]
<1>1. /\ p \in [F -> D] /\ {p[x] : x \in F} = D \ E
      /\ \A x \in F : p[x] = x
  OBVIOUS
<1>2. IsFiniteSet(F) /\ v \in [F -> Int]
  BY FS_Subset DEF SplitAt
<1> HIDE DEF p, F
<1>3. /\ \A x, y \in F : p[x] = p[y] => x = y
      /\ \A x \in F : w[p[x]] = v[x]
  BY <1>1 DEF F, SplitAt
<1>4. /\ IsFiniteSet(D) /\ E \subseteq D
      /\ w \in [D -> Int] /\ u \in [E -> Int] /\ \A x \in E : u[x] = w[x]
  BY DEF SplitAt
<1> QED
  BY ONLY <1>1, <1>2, <1>3, <1>4, SumParted

(* The weights w of two sequences, of m and n elements with the weights u    *)
(* and v, one after the other.                                               *)
Concatenated(w, D, u, E, m, v, F, n) ==
    /\ m \in Nat /\ n \in Nat
    /\ E = 1..m /\ F = 1..n /\ D = 1..(m + n)
    /\ u \in [E -> Int] /\ v \in [F -> Int] /\ w \in [D -> Int]
    /\ \A i \in E : w[i] = u[i]
    /\ \A i \in F : w[m + i] = v[i]

(* Their sum is the sum of both.                                             *)
LEMMA SumConcat ==
    ASSUME NEW w, NEW D, NEW u, NEW E, NEW m, NEW v, NEW F, NEW n,
           Concatenated(w, D, u, E, m, v, F, n)
    PROVE  SumFunction(w) = SumFunction(u) + SumFunction(v)
<1> DEFINE p == [i \in F |-> m + i]
<1>1. m \in Nat /\ n \in Nat /\ E = 1..m /\ F = 1..n /\ D = 1..(m + n)
  BY DEF Concatenated
<1>2. IsFiniteSet(D) /\ IsFiniteSet(F) /\ E \subseteq D
  BY <1>1, FS_Interval
<1>3. p \in [F -> D] /\ \A i \in F : p[i] = m + i
  BY <1>1
<1> HIDE DEF p
<1>4. {p[i] : i \in F} = D \ E
  <2>1. ASSUME NEW k \in D \ E
        PROVE  \E i \in F : k = p[i]
    <3>1. k - m \in F /\ k = m + (k - m)
      BY <1>1
    <3> QED
      BY <1>3, <3>1
  <2>2. \A i \in F : p[i] \in D \ E
    BY <1>1, <1>3
  <2> QED
    BY <2>1, <2>2
<1>5. \A i, k \in F : p[i] = p[k] => i = k
  BY <1>1, <1>3
<1>6. \A i \in F : w[p[i]] = v[i]
  BY <1>3 DEF Concatenated
<1>7. /\ u \in [E -> Int] /\ v \in [F -> Int] /\ w \in [D -> Int]
      /\ \A i \in E : u[i] = w[i]
  BY DEF Concatenated
<1> QED
  BY ONLY <1>2, <1>3, <1>4, <1>5, <1>6, <1>7, SumParted

-----------------------------------------------------------------------------
(* Sequences in pieces.                                                      *)

(* A sequence cut in two after its first n elements.                         *)
Cut(s, n, a, b) ==
    n \in 0..Len(s) /\ a = SubSeq(s, 1, n) /\ b = SubSeq(s, n + 1, Len(s))

(* The two pieces and how they make up the whole.                            *)
LEMMA CutIs ==
    ASSUME NEW S, NEW s \in Seq(S), NEW n, NEW a, NEW b, Cut(s, n, a, b)
    PROVE  /\ a \in Seq(S) /\ Len(a) = n
           /\ \A i \in 1..n : a[i] = s[i]
           /\ b \in Seq(S) /\ Len(b) = Len(s) - n
           /\ \A i \in 1..(Len(s) - n) : b[i] = s[n + i]
           /\ s = a \o b
<1>1. /\ Len(s) \in Nat /\ n \in Nat /\ n <= Len(s)
      /\ a = SubSeq(s, 1, n) /\ b = SubSeq(s, n + 1, Len(s))
  BY LenProperties DEF Cut
<1>2. \A i \in 1..Len(s) : s[i] \in S
  BY ElementOfSeq
<1> DEFINE l == Len(s)
<1>0. l \in Nat /\ n \in Nat /\ n <= l /\ \A i \in 1..l : s[i] \in S
  BY <1>1, <1>2
<1>3. /\ a \in Seq(S) /\ Len(a) = n /\ \A i \in 1..n : a[i] = s[i]
  <2>1. \A i \in 1..n : s[i] \in S
    BY <1>1, <1>2
  <2>2. /\ a \in Seq(S) /\ Len(a) = IF 1 <= n THEN n - 1 + 1 ELSE 0
        /\ \A i \in 1..(n - 1 + 1) : a[i] = s[1 + i - 1]
    BY <1>1, <2>1, SubSeqProperties
  <2>3. n - 1 + 1 = n /\ \A i \in 1..n : 1 + i - 1 = i
    BY <1>1
  <2> QED
    BY <1>1, <2>2, <2>3
<1>4. /\ b \in Seq(S) /\ Len(b) = l - n /\ \A i \in 1..(l - n) : b[i] = s[n + i]
  <2>1. \A i \in (n + 1)..l : s[i] \in S
    BY <1>1, <1>2
  <2>2. /\ b \in Seq(S) /\ Len(b) = IF n + 1 <= l THEN l - (n + 1) + 1 ELSE 0
        /\ \A i \in 1..(l - (n + 1) + 1) : b[i] = s[n + 1 + i - 1]
    BY <1>1, <2>1, SubSeqProperties
  <2> HIDE DEF l
  <2>3. l - (n + 1) + 1 = l - n /\ \A i \in 1..(l - n) : n + 1 + i - 1 = n + i
    BY <1>0
  <2>4. Len(b) = l - n
    BY <1>0, <2>2
  <2>5. \A i \in 1..(l - n) : b[i] = s[n + i]
    BY <2>2, <2>3
  <2> QED
    BY <2>2, <2>4, <2>5
<1> DEFINE c == a \o b
<1>5. /\ c \in Seq(S) /\ Len(c) = Len(a) + Len(b)
      /\ \A i \in 1..(Len(a) + Len(b)) :
            c[i] = IF i <= Len(a) THEN a[i] ELSE b[i - Len(a)]
  <2>1. a \in Seq(S) /\ b \in Seq(S)
    BY <1>3, <1>4
  <2> QED
    BY ONLY <2>1, ConcatProperties
<1> DEFINE k == l - n
<1>10. k \in Nat /\ n + k = l
  BY <1>0
<1>9. /\ c \in Seq(S) /\ Len(c) = n + k
      /\ \A i \in 1..(n + k) : c[i] = IF i <= n THEN a[i] ELSE b[i - n]
  <2>1. Len(a) = n /\ Len(b) = k
    BY <1>3, <1>4
  <2> HIDE DEF c, k, l
  <2> QED
    BY ONLY <2>1, <1>5
<1> HIDE DEF c, l
<1>6. Len(c) = l
  BY <1>0, <1>3, <1>4, <1>5
<1>7. \A i \in 1..l : c[i] = s[i]
  <2> SUFFICES ASSUME NEW i \in 1..l PROVE c[i] = s[i]
    OBVIOUS
  <2>0. i \in Int /\ c[i] = IF i <= n THEN a[i] ELSE b[i - n]
    <3>1. i \in 1..(n + k)
      BY <1>10
    <3> HIDE DEF k
    <3> QED
      BY <1>9, <3>1
  <2>1. CASE i <= n
    <3>1. i \in 1..n
      BY <1>0, <2>1
    <3> QED
      BY <1>3, <2>0, <2>1, <3>1
  <2>2. CASE i > n
    <3>1. ~(i <= n)
      BY <1>0, <2>0, <2>2
    <3>3. c[i] = b[i - n]
      BY <2>0, <3>1
    <3>2. i - n \in 1..(l - n) /\ n + (i - n) = i
      BY <1>0, <2>2
    <3> QED
      BY <1>4, <3>3, <3>2
  <2> QED
    BY <1>0, <2>0, <2>1, <2>2
<1>8. c = s
  <2>1. /\ c \in Seq(S) /\ Len(c) = Len(s)
        /\ \A i \in 1..Len(c) : c[i] = s[i]
    BY <1>5, <1>6, <1>7 DEF l
  <2> QED
    BY <2>1, SeqEqual
<1> QED
  BY <1>3, <1>4, <1>8 DEF c

(* The rest s of one sequence is the beginning of another, t.                *)
LEMMA PrefixIs ==
    ASSUME NEW S, NEW s \in Seq(S), NEW t \in Seq(S), NEW k, k = Len(s),
           k <= Len(t), \A i \in 1..k : s[i] = t[i]
    PROVE  IsPrefix(s, t)
<1>1. k \in Nat /\ Len(t) \in Nat /\ k \in 0..Len(s) /\ k \in 0..Len(t)
  BY LenProperties
<1>2. PICK a, c : a = SubSeq(s, 1, k) /\ c = SubSeq(t, 1, k)
  OBVIOUS
<1>3. a \in Seq(S) /\ Len(a) = k /\ \A i \in 1..k : a[i] = s[i]
  <2>1. Cut(s, k, a, SubSeq(s, k + 1, Len(s)))
    BY <1>1, <1>2 DEF Cut
  <2> QED
    BY ONLY <2>1, s \in Seq(S), CutIs
<1>4. c \in Seq(S) /\ Len(c) = k /\ \A i \in 1..k : c[i] = t[i]
  <2>1. Cut(t, k, c, SubSeq(t, k + 1, Len(t)))
    BY <1>1, <1>2 DEF Cut
  <2> QED
    BY ONLY <2>1, t \in Seq(S), CutIs
<1>5. a = c
  <2>1. Len(a) = Len(c) /\ \A i \in 1..Len(a) : a[i] = c[i]
    BY <1>3, <1>4
  <2> QED
    BY <1>3, <1>4, <2>1, SeqEqual
<1> QED
  BY <1>2, <1>5 DEF IsPrefix
=============================================================================
