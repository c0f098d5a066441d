----------------------------- MODULE DataProofs -----------------------------
(***************************************************************************)
(* What the recursive definitions of Backoff and Selection compute, for     *)
(* every argument.                                                          *)
(*                                                                          *)
(* The library's induction theorems take an operator, but a set of naturals *)
(* that is not empty has a least member, which serves: a least              *)
(* counterexample has a predecessor that is none. That such a definition    *)
(* defines a function at all is proved in the same way, from functions that *)
(* are right up to some argument.                                           *)
(***************************************************************************)
EXTENDS Backoff, Selection, SequenceTheorems, WellFoundedInduction, TLAPS

(* Induction over the naturals, stated of a set. *)
LEMMA LeastMember ==
  ASSUME NEW T, T \subseteq Nat, T # {}
  PROVE  \E n \in T : \A m \in T : n <= m
<1> DEFINE R == OpToRel(<, Nat)
<1>1. IsWellFoundedOn(R, Nat)
  BY NatLessThanWellFounded
<1> HIDE DEF R
<1>2. PICK n \in T : \A m \in T : ~(<<m, n>> \in R)
  BY <1>1, WFMin
<1>3. \A m \in T : ~(m < n)
  BY <1>2 DEF R, OpToRel
<1>4. QED
  BY <1>3

-----------------------------------------------------------------------------
(* Backoff *)

(* The functions that give the powers of two up to the n-th. *)
Powers(n) ==
    {g \in [0..n -> Nat] : g[0] = 1 /\ \A k \in 1..n : g[k] = 2 * g[k - 1]}

(* There are such functions of every length. *)
LEMMA PowersExist == \A n \in Nat : Powers(n) # {}
<1> DEFINE T == {n \in Nat : Powers(n) = {}}
<1>1. SUFFICES ASSUME T # {} PROVE FALSE
  OBVIOUS
<1>2. PICK n \in T : \A m \in T : n <= m
  BY <1>1, LeastMember
<1>3. n \in Nat /\ Powers(n) = {}
  OBVIOUS
<1>4. CASE n = 0
  <2>1. [k \in 0..0 |-> 1] \in Powers(0)
    BY DEF Powers
  <2>2. QED
    BY <1>3, <1>4, <2>1
<1>5. CASE n # 0
  <2>1. n - 1 \in Nat /\ n - 1 \notin T
    BY <1>2, <1>3, <1>5
  <2>2. PICK g \in Powers(n - 1) : TRUE
    BY <2>1
  <2> DEFINE h == [k \in 0..n |-> IF k = n THEN 2 * g[n - 1] ELSE g[k]]
  <2>3. g \in [0..(n - 1) -> Nat] /\ g[0] = 1 /\ \A k \in 1..(n - 1) : g[k] = 2 * g[k - 1]
    BY <2>2 DEF Powers
  <2>4. h \in [0..n -> Nat]
    BY <1>3, <1>5, <2>3
  <2>5. h[0] = 1
    BY <1>3, <1>5, <2>3
  <2>6. \A k \in 1..n : h[k] = 2 * h[k - 1]
    BY <1>3, <1>5, <2>3
  <2>7. QED
    BY <1>3, <2>4, <2>5, <2>6 DEF Powers
<1>6. QED
  BY <1>4, <1>5

(* They agree where both are defined. *)
LEMMA PowersAgree ==
  ASSUME NEW n \in Nat, NEW m \in Nat, NEW g \in Powers(n), NEW h \in Powers(m), n <= m
  PROVE  g[n] = h[n]
<1> DEFINE T == {k \in 0..n : g[k] # h[k]}
<1>1. CASE T = {}
  BY <1>1
<1>2. CASE T # {}
  <2>1. T \subseteq Nat
    OBVIOUS
  <2> HIDE DEF T
  <2>2. PICK k \in T : \A j \in T : k <= j
    BY <1>2, <2>1, LeastMember
  <2>3. k \in 0..n /\ g[k] # h[k]
    BY DEF T
  <2>4. k # 0
    BY <2>3 DEF Powers
  <2>5. k - 1 \in 0..n /\ k - 1 \notin T
    BY <2>2, <2>3, <2>4
  <2>6. g[k - 1] = h[k - 1]
    BY <2>5 DEF T
  <2>7. g[k] = 2 * g[k - 1] /\ h[k] = 2 * h[k - 1]
    BY <2>3, <2>4 DEF Powers
  <2>8. QED
    BY <2>3, <2>6, <2>7
<1>3. QED
  BY <1>1, <1>2

(* The recursive definition defines what it says. *)
LEMMA DoublingsDefined ==
    Doublings = [n \in Nat |-> IF n = 0 THEN 1 ELSE 2 * Doublings[n - 1]]
<1> DEFINE P(n) == CHOOSE g \in Powers(n) : TRUE
           F == [n \in Nat |-> P(n)[n]]
<1>1. ASSUME NEW n \in Nat PROVE P(n) \in Powers(n)
  BY PowersExist
<1>2. ASSUME NEW n \in Nat PROVE F[n] = IF n = 0 THEN 1 ELSE 2 * F[n - 1]
  <2> HIDE DEF P
  <2>1. P(n) \in Powers(n)
    BY <1>1
  <2>2. CASE n = 0
    BY <2>1, <2>2 DEF Powers
  <2>3. CASE n # 0
    <3>1. n - 1 \in Nat /\ n - 1 <= n /\ n \in 1..n
      BY <2>3
    <3>2. P(n - 1) \in Powers(n - 1)
      BY <1>1, <3>1
    <3>3. P(n - 1)[n - 1] = P(n)[n - 1]
      BY <2>1, <3>1, <3>2, PowersAgree
    <3>4. P(n)[n] = 2 * P(n)[n - 1]
      BY <2>1, <3>1 DEF Powers
    <3>5. QED
      BY <2>3, <3>1, <3>3, <3>4
  <2>4. QED
    BY <2>2, <2>3
<1>3. F = [n \in Nat |-> IF n = 0 THEN 1 ELSE 2 * F[n - 1]]
  <2> HIDE DEF P
  <2>1. QED
    BY <1>2
<1> HIDE DEF F
<1>4. QED
  BY <1>3 DEF Doublings

(* It is positive, doubles at every step, and so never falls. *)
LEMMA DoublingsPositive == \A n \in Nat : Doublings[n] \in Nat \ {0}
<1> DEFINE T == {n \in Nat : Doublings[n] \notin Nat \ {0}}
<1>1. SUFFICES ASSUME T # {} PROVE FALSE
  OBVIOUS
<1>2. PICK n \in T : \A m \in T : n <= m
  BY <1>1, LeastMember
<1>3. Doublings[n] = IF n = 0 THEN 1 ELSE 2 * Doublings[n - 1]
  BY DoublingsDefined
<1>4. n # 0 /\ n - 1 \in Nat /\ n - 1 \notin T
  BY <1>2, <1>3
<1>5. Doublings[n - 1] \in Nat \ {0}
  BY <1>4
<1>6. QED
  BY <1>3, <1>4, <1>5

LEMMA DoublingsStep ==
    Doublings[0] = 1 /\ \A n \in Nat : Doublings[n + 1] = 2 * Doublings[n]
  BY DoublingsDefined

LEMMA DoublingsGrow ==
  ASSUME NEW n \in Nat, NEW m \in Nat, n <= m
  PROVE  Doublings[n] <= Doublings[m]
<1> DEFINE T == {k \in Nat : n <= k /\ ~(Doublings[n] <= Doublings[k])}
<1>1. SUFFICES ASSUME T # {} PROVE FALSE
  OBVIOUS
<1>2. PICK k \in T : \A j \in T : k <= j
  BY <1>1, LeastMember
<1>3. /\ k \in Nat /\ n <= k /\ ~(Doublings[n] <= Doublings[k])
      /\ Doublings[n] \in Nat /\ Doublings[k] \in Nat
  BY DoublingsPositive
<1>4. k # n
  BY <1>3
<1>5. k - 1 \in Nat /\ n <= k - 1 /\ k - 1 \notin T /\ k = (k - 1) + 1
  BY <1>2, <1>3, <1>4
<1>6. Doublings[n] <= Doublings[k - 1] /\ Doublings[k - 1] \in Nat
  BY <1>5, DoublingsPositive
<1>7. Doublings[k] = 2 * Doublings[k - 1]
  BY <1>5, DoublingsStep
<1>8. QED
  BY <1>3, <1>6, <1>7

-----------------------------------------------------------------------------

(* The first delay is the initial one; the next is twice the last, up to the *)
(* maximum; and a maximum that was reached is never left again.              *)
LEMMA DelayStarts ==
  ASSUME NEW initial \in Nat, NEW max \in Nat, initial <= max
  PROVE  DelayAfter(initial, max, 0) = initial
<1>1. initial * Doublings[0] = initial
  BY DoublingsStep
<1>2. QED
  BY <1>1 DEF DelayAfter, AtMost

LEMMA DelayNat ==
  ASSUME NEW initial \in Nat, NEW max \in Nat, NEW n \in Nat
  PROVE  DelayAfter(initial, max, n) \in Nat
<1>1. initial * Doublings[n] \in Nat
  BY DoublingsPositive
<1>2. QED
  BY <1>1 DEF DelayAfter, AtMost

LEMMA DelayDoubles ==
  ASSUME NEW initial \in Nat, NEW max \in Nat, NEW n \in Nat
  PROVE  DelayAfter(initial, max, n + 1) = AtMost(max, DelayAfter(initial, max, n) * 2)
<1> DEFINE x == initial * Doublings[n]
<1>1. x \in Nat /\ initial * Doublings[n + 1] = x * 2
  BY DoublingsPositive, DoublingsStep
<1> HIDE DEF x
<1>2. AtMost(max, x * 2) = AtMost(max, AtMost(max, x) * 2)
  BY <1>1 DEF AtMost
<1>3. QED
  BY <1>1, <1>2 DEF DelayAfter, x

LEMMA DelaySaturates ==
  ASSUME NEW initial \in Nat, NEW max \in Nat, NEW n \in Nat, NEW m \in Nat, n <= m,
         initial * Doublings[n] >= max
  PROVE  DelayAfter(initial, max, m) = max
<1>1. Doublings[n] \in Nat /\ Doublings[m] \in Nat /\ Doublings[n] <= Doublings[m]
  BY DoublingsPositive, DoublingsGrow
<1> DEFINE p == Doublings[n]
           q == Doublings[m]
<1>2. ASSUME NEW a \in Nat, NEW b \in Nat, a <= b
      PROVE  initial * a <= initial * b /\ initial * a \in Nat /\ initial * b \in Nat
  BY <1>2
<1>3. initial * p <= initial * q /\ initial * p \in Nat /\ initial * q \in Nat
  BY <1>1, <1>2
<1>4. QED
  BY <1>3 DEF DelayAfter, AtMost

-----------------------------------------------------------------------------
(* Selection *)

(* What Chosen has collected of the first n items, for every n up to some. *)
Collected(s, S, A, n) ==
    {g \in [0..n -> Seq(A \cap S)] :
        /\ g[0] = <<>>
        /\ \A i \in 1..n : g[i] = IF s[i] \in S THEN Append(g[i - 1], s[i]) ELSE g[i - 1]}

(* It can go on collecting up to the end. *)
LEMMA CollectedExists ==
  ASSUME NEW A, NEW s \in Seq(A), NEW S, NEW n \in 0..Len(s)
  PROVE  Collected(s, S, A, n) # {}
<1> DEFINE T == {k \in 0..Len(s) : Collected(s, S, A, k) = {}}
<1>1. SUFFICES ASSUME T # {} PROVE FALSE
  OBVIOUS
<1>2. T \subseteq Nat /\ Len(s) \in Nat
  BY LenProperties
<1> HIDE DEF T
<1>3. PICK k \in T : \A m \in T : k <= m
  BY <1>1, <1>2, LeastMember
<1>4. k \in 0..Len(s) /\ Collected(s, S, A, k) = {} /\ k \in Nat
  BY <1>2 DEF T
<1>5. CASE k = 0
  <2> DEFINE g == [i \in 0..k |-> <<>>]
  <2>1. <<>> \in Seq(A \cap S)
    BY EmptySeq
  <2>2. g \in [0..k -> Seq(A \cap S)] /\ g[0] = <<>> /\ 1..k = {}
    BY <1>5, <2>1
  <2> HIDE DEF g
  <2>3. g \in Collected(s, S, A, k)
    BY <2>2 DEF Collected
  <2>4. QED
    BY <1>4, <2>3
<1>6. CASE k # 0
  <2>1. k - 1 \in 0..Len(s) /\ k - 1 \notin T /\ k - 1 \in Nat
    BY <1>2, <1>3, <1>4, <1>6
  <2>2. PICK g \in Collected(s, S, A, k - 1) : TRUE
    BY <2>1 DEF T
  <2>3. /\ g \in [0..(k - 1) -> Seq(A \cap S)] /\ g[0] = <<>>
        /\ \A i \in 1..(k - 1) : g[i] = IF s[i] \in S THEN Append(g[i - 1], s[i]) ELSE g[i - 1]
    BY <2>2 DEF Collected
  <2> DEFINE last == IF s[k] \in S THEN Append(g[k - 1], s[k]) ELSE g[k - 1]
             h == [i \in 0..k |-> IF i = k THEN last ELSE g[i]]
  <2>4. s[k] \in A /\ g[k - 1] \in Seq(A \cap S)
    BY <1>4, <1>6, <2>1, <2>3, ElementOfSeq
  <2>5. last \in Seq(A \cap S)
    BY <2>4, AppendProperties
  <2> HIDE DEF last
  <2>6. h \in [0..k -> Seq(A \cap S)] /\ h[0] = <<>> /\ h[k] = last /\ \A i \in 0..(k - 1) : h[i] = g[i]
    <3>1. /\ k \in Nat /\ k # 0 /\ k \in 0..k /\ 0 \in 0..k
          /\ \A i \in 0..k : i = k \/ i \in 0..(k - 1)
          /\ \A i \in 0..(k - 1) : i # k /\ i \in 0..k
      BY <1>4, <1>6
    <3>2. h \in [0..k -> Seq(A \cap S)]
      BY <2>3, <2>5, <3>1
    <3>3. QED
      BY <2>3, <3>1, <3>2
  <2> HIDE DEF h
  <2>7. \A i \in 1..k : h[i] = IF s[i] \in S THEN Append(h[i - 1], s[i]) ELSE h[i - 1]
    <3>1. ASSUME NEW i \in 1..(k - 1)
          PROVE  h[i] = IF s[i] \in S THEN Append(h[i - 1], s[i]) ELSE h[i - 1]
      <4>1. i \in 0..(k - 1) /\ i - 1 \in 0..(k - 1)
        BY <1>4
      <4>2. h[i] = g[i] /\ h[i - 1] = g[i - 1]
        BY <2>6, <4>1
      <4>3. QED
        BY <2>3, <4>2
    <3>2. h[k] = IF s[k] \in S THEN Append(h[k - 1], s[k]) ELSE h[k - 1]
      BY <2>1, <2>6 DEF last
    <3>3. \A i \in 1..k : i \in 1..(k - 1) \/ i = k
      BY <1>4
    <3>4. QED
      BY <3>1, <3>2, <3>3
  <2>8. h \in Collected(s, S, A, k)
    BY <2>6, <2>7 DEF Collected
  <2>9. QED
    BY <1>4, <2>8
<1>7. QED
  BY <1>5, <1>6

(* What it has collected at the end is what the definition chooses. *)
LEMMA ChosenIsCollected ==
  ASSUME NEW A, NEW s \in Seq(A), NEW S, NEW g \in Collected(s, S, A, Len(s))
  PROVE  Chosen(s, S) = g[Len(s)]
<1> DEFINE upTo == CHOOSE f : f = [i \in 0..Len(s) |->
                      IF i = 0 THEN <<>>
                      ELSE IF s[i] \in S THEN Append(f[i - 1], s[i]) ELSE f[i - 1]]
<1>1. Len(s) \in Nat
  BY LenProperties
<1>2. /\ g \in [0..Len(s) -> Seq(A \cap S)] /\ g[0] = <<>>
      /\ \A i \in 1..Len(s) : g[i] = IF s[i] \in S THEN Append(g[i - 1], s[i]) ELSE g[i - 1]
  BY DEF Collected
<1>3. g = [i \in 0..Len(s) |->
                      IF i = 0 THEN <<>>
                      ELSE IF s[i] \in S THEN Append(g[i - 1], s[i]) ELSE g[i - 1]]
  <2>1. \A i \in 0..Len(s) : i = 0 \/ i \in 1..Len(s)
    BY <1>1
  <2>2. \A i \in 0..Len(s) : g[i] = IF i = 0 THEN <<>>
                      ELSE IF s[i] \in S THEN Append(g[i - 1], s[i]) ELSE g[i - 1]
    BY <1>1, <1>2, <2>1
  <2>3. g = [i \in 0..Len(s) |-> g[i]]
    BY <1>2
  <2>4. QED
    BY <2>2, <2>3
<1>4. upTo = [i \in 0..Len(s) |->
                      IF i = 0 THEN <<>>
                      ELSE IF s[i] \in S THEN Append(upTo[i - 1], s[i]) ELSE upTo[i - 1]]
  BY <1>3
<1>5. Chosen(s, S) = upTo[Len(s)]
  BY DEF Chosen
<1> HIDE DEF upTo
<1> DEFINE T == {i \in 0..Len(s) : upTo[i] # g[i]}
<1>6. CASE T = {}
  BY <1>1, <1>5, <1>6
<1>7. CASE T # {}
  <2>1. T \subseteq Nat
    BY <1>1
  <2> HIDE DEF T
  <2>2. PICK k \in T : \A m \in T : k <= m
    BY <1>7, <2>1, LeastMember
  <2>3. k \in 0..Len(s) /\ upTo[k] # g[k]
    BY DEF T
  <2>4. k # 0
    BY <1>1, <1>2, <1>4, <2>3
  <2>5. k \in 1..Len(s) /\ k - 1 \in 0..Len(s) /\ k - 1 \notin T
    BY <1>1, <2>2, <2>3, <2>4
  <2>6. upTo[k - 1] = g[k - 1]
    BY <2>5 DEF T
  <2>7. upTo[k] = IF s[k] \in S THEN Append(upTo[k - 1], s[k]) ELSE upTo[k - 1]
    BY <1>4, <2>3, <2>4
  <2>8. QED
    BY <1>2, <2>3, <2>5, <2>6, <2>7
<1>8. QED
  BY <1>6, <1>7

LEMMA ChosenType ==
  ASSUME NEW A, NEW s \in Seq(A), NEW S
  PROVE  Chosen(s, S) \in Seq(A \cap S)
<1>1. Len(s) \in Nat /\ Len(s) \in 0..Len(s)
  BY LenProperties
<1>2. PICK g \in Collected(s, S, A, Len(s)) : TRUE
  BY <1>1, CollectedExists
<1>3. g \in [0..Len(s) -> Seq(A \cap S)]
  BY <1>2 DEF Collected
<1>4. Chosen(s, S) = g[Len(s)]
  BY <1>2, ChosenIsCollected
<1>5. QED
  BY <1>1, <1>3, <1>4

LEMMA ChosenOfNone ==
  ASSUME NEW S
  PROVE  Chosen(<<>>, S) = <<>>
<1> DEFINE s == <<>>
<1>1. s \in Seq({}) /\ Len(s) = 0 /\ Len(s) \in 0..Len(s)
  BY EmptySeq
<1> HIDE DEF s
<1>2. PICK g \in Collected(s, S, {}, Len(s)) : TRUE
  BY <1>1, CollectedExists
<1>3. g[0] = <<>>
  BY <1>2 DEF Collected
<1>4. Chosen(s, S) = g[Len(s)]
  BY <1>1, <1>2, ChosenIsCollected
<1>5. QED
  BY <1>1, <1>3, <1>4 DEF s

LEMMA ChosenAppend ==
  ASSUME NEW A, NEW s \in Seq(A), NEW x \in A, NEW S
  PROVE  /\ x \in S => Chosen(Append(s, x), S) = Append(Chosen(s, S), x)
         /\ x \notin S => Chosen(Append(s, x), S) = Chosen(s, S)
<1> DEFINE n == Len(s)
           t == Append(s, x)
<1>1. /\ n \in Nat /\ n \in 0..n /\ t \in Seq(A) /\ Len(t) = n + 1 /\ t[n + 1] = x
      /\ \A i \in 1..n : t[i] = s[i]
  BY LenProperties, AppendProperties
<1>2. PICK g \in Collected(s, S, A, n) : TRUE
  BY <1>1, CollectedExists
<1>3. /\ g \in [0..n -> Seq(A \cap S)] /\ g[0] = <<>>
      /\ \A i \in 1..n : g[i] = IF s[i] \in S THEN Append(g[i - 1], s[i]) ELSE g[i - 1]
  BY <1>2 DEF Collected
<1>4. Chosen(s, S) = g[n]
  BY <1>2, ChosenIsCollected
<1> DEFINE last == IF x \in S THEN Append(g[n], x) ELSE g[n]
           h == [i \in 0..(n + 1) |-> IF i = n + 1 THEN last ELSE g[i]]
<1> HIDE DEF t, n
<1>5. last \in Seq(A \cap S)
  BY <1>1, <1>3, AppendProperties
<1> HIDE DEF last
<1>6. /\ h \in [0..(n + 1) -> Seq(A \cap S)] /\ h[0] = <<>> /\ h[n + 1] = last
      /\ \A i \in 0..n : h[i] = g[i]
  BY <1>1, <1>3, <1>5
<1> HIDE DEF h
<1>7. \A i \in 1..(n + 1) : h[i] = IF t[i] \in S THEN Append(h[i - 1], t[i]) ELSE h[i - 1]
  <2>1. ASSUME NEW i \in 1..n
        PROVE  h[i] = IF t[i] \in S THEN Append(h[i - 1], t[i]) ELSE h[i - 1]
    <3>1. i \in 0..n /\ i - 1 \in 0..n
      BY <1>1
    <3>2. h[i] = g[i] /\ h[i - 1] = g[i - 1] /\ t[i] = s[i]
      BY <1>1, <1>6, <3>1
    <3>3. QED
      BY <1>3, <3>2
  <2>2. h[n + 1] = IF t[n + 1] \in S THEN Append(h[n], t[n + 1]) ELSE h[n]
    BY <1>1, <1>6 DEF last
  <2>3. ASSUME NEW i \in 1..(n + 1)
        PROVE  h[i] = IF t[i] \in S THEN Append(h[i - 1], t[i]) ELSE h[i - 1]
    <3>1. i \in 1..n \/ i = n + 1
      BY <1>1
    <3>2. CASE i \in 1..n
      BY <2>1, <3>2
    <3>3. CASE i = n + 1
      <4>1. i - 1 = n
        BY <1>1, <3>3
      <4>2. QED
        BY <2>2, <3>3, <4>1, Zenon
    <3>4. QED
      BY <3>1, <3>2, <3>3
  <2>4. QED
    BY <2>3
<1>8. h \in Collected(t, S, A, Len(t))
  BY <1>1, <1>6, <1>7 DEF Collected
<1>9. Chosen(t, S) = last
  BY <1>1, <1>6, <1>8, ChosenIsCollected
<1>10. QED
  BY <1>4, <1>9 DEF t, last

(* The same of numbers. *)
LEMMA ChosenAppendNat ==
  ASSUME NEW s \in Seq(Nat), NEW x \in Nat, NEW S
  PROVE  /\ x \in S => Chosen(Append(s, x), S) = Append(Chosen(s, S), x)
         /\ x \notin S => Chosen(Append(s, x), S) = Chosen(s, S)
<1> DEFINE N == Nat
<1>1. s \in Seq(N) /\ x \in N
  OBVIOUS
<1> HIDE DEF N
<1>2. QED
  BY <1>1, ChosenAppend

(* Only what the set says of the members of the sequence matters. *)
LEMMA ChosenSame ==
  ASSUME NEW A, NEW s \in Seq(A), NEW S, NEW R, \A x \in A : x \in S <=> x \in R
  PROVE  Chosen(s, S) = Chosen(s, R)
<1>1. Len(s) \in Nat /\ Len(s) \in 0..Len(s)
  BY LenProperties
<1>2. PICK g \in Collected(s, S, A, Len(s)) : TRUE
  BY <1>1, CollectedExists
<1>3. A \cap S = A \cap R /\ \A i \in 1..Len(s) : s[i] \in S <=> s[i] \in R
  BY ElementOfSeq
<1>4. g \in Collected(s, R, A, Len(s))
  BY <1>2, <1>3 DEF Collected
<1>5. QED
  BY <1>2, <1>4, ChosenIsCollected

(* Nothing is left out of a sequence all of whose members are in the set. *)
LEMMA ChosenOfAll ==
  ASSUME NEW S, NEW s \in Seq(S)
  PROVE  Chosen(s, S) = s
<1> DEFINE n == Len(s)
           g == [i \in 0..n |-> SubSeq(s, 1, i)]
<1>1. n \in Nat /\ n \in 0..n /\ \A i \in 1..n : s[i] \in S
  BY LenProperties, ElementOfSeq
<1>2. \A i \in 0..n : SubSeq(s, 1, i) \in Seq(S \cap S)
  <2>1. ASSUME NEW i \in 0..n PROVE SubSeq(s, 1, i) \in Seq(S)
    <3>1. i \in Int /\ 1 \in Int /\ \A j \in 1..i : s[j] \in S
      BY <1>1
    <3>2. QED
      BY <3>1, SubSeqProperties
  <2>2. S \cap S = S
    OBVIOUS
  <2>3. QED
    BY <2>1, <2>2
<1>3. SubSeq(s, 1, 0) = <<>>
  BY SubSeqEmpty
<1>4. ASSUME NEW i \in 1..n
      PROVE  SubSeq(s, 1, i) = Append(SubSeq(s, 1, i - 1), s[i])
  <2>1. 1 \in 1..Len(s) /\ i \in 1..Len(s) /\ i - 1 \in 0..n
    BY <1>1
  <2>2. SubSeq(s, 1, i) = SubSeq(s, 1, i - 1) \o <<s[i]>>
    BY <2>1, SubSeqRecursiveSecond
  <2>3. SubSeq(s, 1, i - 1) \in Seq(S) /\ s[i] \in S
    BY <1>1, <1>2, <2>1
  <2>4. QED
    BY <2>2, <2>3, AppendIsConcat
<1>5. SubSeq(s, 1, n) = s
  BY SubSeqFull
<1>6. g \in Collected(s, S, S, n)
  <2>1. g \in [0..n -> Seq(S \cap S)] /\ g[0] = <<>>
    BY <1>1, <1>2, <1>3
  <2>2. \A i \in 1..n : g[i] = SubSeq(s, 1, i) /\ g[i - 1] = SubSeq(s, 1, i - 1)
    BY <1>1
  <2> HIDE DEF g
  <2>3. \A i \in 1..n : g[i] = IF s[i] \in S THEN Append(g[i - 1], s[i]) ELSE g[i - 1]
    BY <1>1, <1>4, <2>2
  <2>4. QED
    BY <2>1, <2>3 DEF Collected
<1>7. g[n] = s
  BY <1>1, <1>5
<1> HIDE DEF g
<1>8. QED
  BY <1>6, <1>7, ChosenIsCollected

LEMMA ChosenLength ==
  ASSUME NEW A, NEW s \in Seq(A), NEW S
  PROVE  Len(Chosen(s, S)) \in 0..Len(s)
<1>1. Len(s) \in Nat /\ Len(s) \in 0..Len(s)
  BY LenProperties
<1>2. PICK g \in Collected(s, S, A, Len(s)) : TRUE
  BY <1>1, CollectedExists
<1>3. /\ g \in [0..Len(s) -> Seq(A \cap S)] /\ g[0] = <<>>
      /\ \A i \in 1..Len(s) : g[i] = IF s[i] \in S THEN Append(g[i - 1], s[i]) ELSE g[i - 1]
  BY <1>2 DEF Collected
<1> DEFINE T == {i \in 0..Len(s) : ~(Len(g[i]) <= i)}
<1>4. T = {}
  <2>1. SUFFICES ASSUME T # {} PROVE FALSE
    OBVIOUS
  <2>2. T \subseteq Nat
    BY <1>1
  <2> HIDE DEF T
  <2>3. PICK k \in T : \A m \in T : k <= m
    BY <2>1, <2>2, LeastMember
  <2>4. k \in 0..Len(s) /\ ~(Len(g[k]) <= k)
    BY DEF T
  <2>5. k # 0
    BY <1>3, <2>4
  <2>6. k \in 1..Len(s) /\ k - 1 \in 0..Len(s) /\ k - 1 \notin T
    BY <1>1, <2>3, <2>4, <2>5
  <2>7. Len(g[k - 1]) <= k - 1
    BY <2>6 DEF T
  <2>8. g[k - 1] \in Seq(A \cap S) /\ s[k] \in A
    BY <1>1, <1>3, <2>6, ElementOfSeq
  <2>9. Len(g[k - 1]) \in Nat
    BY <2>8, LenProperties
  <2>10. CASE s[k] \in S
    <3>1. g[k] = Append(g[k - 1], s[k])
      BY <1>3, <2>6, <2>10
    <3>2. Len(Append(g[k - 1], s[k])) = Len(g[k - 1]) + 1
      BY <2>8, <2>10, AppendProperties
    <3>3. QED
      BY <1>1, <2>4, <2>6, <2>7, <2>9, <3>1, <3>2
  <2>11. CASE s[k] \notin S
    <3>1. g[k] = g[k - 1]
      BY <1>3, <2>6, <2>11
    <3>2. QED
      BY <1>1, <2>4, <2>6, <2>7, <2>9, <3>1
  <2>12. QED
    BY <2>10, <2>11
<1>5. Len(g[Len(s)]) <= Len(s)
  BY <1>1, <1>4
<1>6. Len(g[Len(s)]) \in Nat
  BY <1>1, <1>3, LenProperties
<1>7. Chosen(s, S) = g[Len(s)]
  BY <1>2, ChosenIsCollected
<1>8. QED
  BY <1>1, <1>5, <1>6, <1>7

=============================================================================
