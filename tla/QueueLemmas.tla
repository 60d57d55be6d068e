---------------------------- MODULE QueueLemmas ----------------------------
(***************************************************************************)
(* What the proofs need to know of sequences and of sets of numbers.       *)
(***************************************************************************)
EXTENDS Integers, Sequences, FiniteSetsExt, WellFoundedInduction, TLAPS

(* What is left when the first element is taken.                           *)
LEMMA TailOf ==
  ASSUME NEW S, NEW q \in Seq(S), q # <<>>
  PROVE  /\ Tail(q) \in Seq(S) /\ Head(q) \in S
         /\ Len(q) \in Nat \ {0} /\ 1 \in DOMAIN q /\ Head(q) = q[1]
         /\ Len(Tail(q)) = Len(q) - 1
         /\ \A k \in DOMAIN Tail(q) : k + 1 \in DOMAIN q /\ Tail(q)[k] = q[k + 1]
         /\ \A k \in DOMAIN q : k # 1 => k - 1 \in DOMAIN Tail(q) /\ q[k] = Tail(q)[k - 1]
<1> QED OBVIOUS

(* What there is when an element is added.                                 *)
LEMMA AppendOf ==
  ASSUME NEW S, NEW q \in Seq(S), NEW x \in S
  PROVE  /\ Append(q, x) \in Seq(S) /\ Append(q, x) # <<>>
         /\ Len(Append(q, x)) = Len(q) + 1 /\ Append(q, x)[Len(q) + 1] = x
         /\ Len(q) \in Nat /\ Len(q) + 1 \in DOMAIN Append(q, x)
         /\ \A k \in DOMAIN q : k \in DOMAIN Append(q, x) /\ Append(q, x)[k] = q[k]
                                /\ k <= Len(q)
         /\ \A k \in DOMAIN Append(q, x) :
              k = Len(q) + 1 \/ (k \in DOMAIN q /\ Append(q, x)[k] = q[k])
<1> QED OBVIOUS

LEMMA EmptyOf ==
  ASSUME NEW S
  PROVE  <<>> \in Seq(S) /\ DOMAIN <<>> = {} /\ Len(<<>>) = 0
<1> QED OBVIOUS

(* Short sequences.                                                        *)
LEMMA FourOf ==
  ASSUME NEW S, NEW a \in S, NEW b \in S, NEW c \in S, NEW d \in S
  PROVE  <<a, b, c, d>> \in Seq(S)
<1> QED OBVIOUS

(* An element put before the others.                                       *)
LEMMA PushOf ==
  ASSUME NEW S, NEW q \in Seq(S), NEW x \in S
  PROVE  /\ <<x>> \o q \in Seq(S) /\ <<x>> \o q # <<>>
         /\ Head(<<x>> \o q) = x /\ Tail(<<x>> \o q) = q
         /\ \A k \in DOMAIN (<<x>> \o q) :
              \/ k = 1 /\ (<<x>> \o q)[k] = x
              \/ k - 1 \in DOMAIN q /\ (<<x>> \o q)[k] = q[k - 1]
<1>1. <<x>> \in Seq(S) /\ Len(<<x>>) = 1
  OBVIOUS
<1>2. <<x>> \o q \in Seq(S) /\ Len(<<x>> \o q) = 1 + Len(q)
  BY <1>1
<1>3. (<<x>> \o q)[1] = x
  BY <1>1
<1>4. \A k \in 1 .. Len(q) : (<<x>> \o q)[k + 1] = q[k]
  BY <1>1
<1>5. \A k \in DOMAIN (<<x>> \o q) :
        \/ k = 1 /\ (<<x>> \o q)[k] = x
        \/ k - 1 \in DOMAIN q /\ (<<x>> \o q)[k] = q[k - 1]
  <2>1. ASSUME NEW k \in DOMAIN (<<x>> \o q), k # 1
        PROVE  k - 1 \in DOMAIN q /\ (<<x>> \o q)[k] = q[k - 1]
    <3>1. k - 1 \in 1 .. Len(q) /\ (k - 1) + 1 = k
      BY <1>2, <2>1
    <3>2. (<<x>> \o q)[(k - 1) + 1] = q[k - 1]
      BY <1>4, <3>1
    <3> QED BY <3>1, <3>2
  <2> QED BY <1>3, <2>1
<1>6. Head(<<x>> \o q) = x
  BY <1>2, <1>3
<1>7. Tail(<<x>> \o q) = q
  <2>1. Tail(<<x>> \o q) \in Seq(S) /\ Len(Tail(<<x>> \o q)) = Len(q)
    BY <1>2
  <2>2. \A k \in 1 .. Len(q) : Tail(<<x>> \o q)[k] = q[k]
    BY <1>2, <1>4
  <2> QED BY <2>1, <2>2
<1> QED BY <1>2, <1>3, <1>5, <1>6, <1>7

(* Two sequences of two elements with the same elements are equal.         *)
LEMMA TwoOf ==
  ASSUME NEW S, NEW f \in Seq(S), NEW g \in Seq(S), Len(f) = 2, Len(g) = 2,
         f[1] = g[1], f[2] = g[2]
  PROVE  f = g
<1>1. DOMAIN f = 1 .. 2 /\ DOMAIN g = 1 .. 2
  OBVIOUS
<1>2. f = [i \in 1 .. 2 |-> f[i]] /\ g = [i \in 1 .. 2 |-> g[i]]
  BY <1>1
<1>3. \A i \in 1 .. 2 : i = 1 \/ i = 2
  OBVIOUS
<1>4. \A i \in 1 .. 2 : f[i] = g[i]
  BY <1>3
<1> QED BY <1>2, <1>4

(* Two queues one behind the other.                                        *)
LEMMA ConcatOf ==
  ASSUME NEW S, NEW f \in Seq(S), NEW g \in Seq(S)
  PROVE  /\ f \o g \in Seq(S) /\ Len(f \o g) = Len(f) + Len(g)
         /\ Len(f) \in Nat /\ Len(g) \in Nat
         /\ \A k \in DOMAIN f : k \in DOMAIN (f \o g) /\ (f \o g)[k] = f[k]
         /\ \A k \in DOMAIN g : Len(f) + k \in DOMAIN (f \o g) /\ (f \o g)[Len(f) + k] = g[k]
         /\ \A k \in DOMAIN (f \o g) :
              \/ k \in DOMAIN f /\ (f \o g)[k] = f[k]
              \/ k - Len(f) \in DOMAIN g /\ (f \o g)[k] = g[k - Len(f)] /\ k \in Nat
<1>1. /\ f \o g \in Seq(S) /\ Len(f \o g) = Len(f) + Len(g)
      /\ Len(f) \in Nat /\ Len(g) \in Nat
  OBVIOUS
<1>2. \A k \in DOMAIN f : k \in DOMAIN (f \o g) /\ (f \o g)[k] = f[k]
  OBVIOUS
<1>3. \A k \in DOMAIN g : Len(f) + k \in DOMAIN (f \o g) /\ (f \o g)[Len(f) + k] = g[k]
  OBVIOUS
<1>4. ASSUME NEW k \in DOMAIN (f \o g), k \notin DOMAIN f
      PROVE  k - Len(f) \in DOMAIN g /\ (f \o g)[k] = g[k - Len(f)] /\ k \in Nat
  <2>1. k \in Nat /\ k - Len(f) \in DOMAIN g /\ Len(f) + (k - Len(f)) = k
    BY <1>1, <1>4
  <2> QED BY <1>3, <2>1
<1> QED BY <1>1, <1>2, <1>3, <1>4

(* The first of the second queue goes to the end of the first queue.       *)
LEMMA PassOf ==
  ASSUME NEW S, NEW f \in Seq(S), NEW g \in Seq(S), g # <<>>
  PROVE  Append(f, Head(g)) \o Tail(g) = f \o g
<1> DEFINE a == Append(f, Head(g)) \o Tail(g)
           b == f \o g
<1>1. /\ Append(f, Head(g)) \in Seq(S) /\ Tail(g) \in Seq(S) /\ Len(g) \in Nat \ {0}
      /\ Len(f) \in Nat /\ Len(Append(f, Head(g))) = Len(f) + 1 /\ Len(Tail(g)) = Len(g) - 1
  OBVIOUS
<1>2. a \in Seq(S) /\ b \in Seq(S) /\ Len(a) = Len(b)
  BY <1>1
<1>3. ASSUME NEW k \in 1 .. Len(b) PROVE a[k] = b[k]
  <2>1. k \in Nat /\ Len(b) = Len(f) + Len(g)
    OBVIOUS
  <2>2. CASE k <= Len(f)
    BY <1>1, <2>1, <2>2
  <2>3. CASE k = Len(f) + 1
    BY <1>1, <2>1, <2>3
  <2>4. CASE k > Len(f) + 1
    <3>1. a[k] = Tail(g)[k - (Len(f) + 1)]
      BY <1>1, <2>1, <2>4
    <3>2. k - (Len(f) + 1) \in 1 .. Len(Tail(g))
      BY <1>1, <2>1, <2>4
    <3>3. Tail(g)[k - (Len(f) + 1)] = g[(k - (Len(f) + 1)) + 1]
      BY <1>1, <3>2
    <3>4. (k - (Len(f) + 1)) + 1 = k - Len(f) /\ k - Len(f) \in 1 .. Len(g)
      BY <1>1, <2>1, <2>4
    <3>5. b[k] = g[k - Len(f)]
      BY <1>1, <2>1, <2>4
    <3> QED BY <3>1, <3>3, <3>4, <3>5
  <2> QED BY <1>1, <2>1, <2>2, <2>3, <2>4
<1> HIDE DEF a, b
<1>4. a = b
  BY <1>2, <1>3
<1> QED BY <1>4 DEF a, b

(* The first of the first queue is taken.                                  *)
LEMMA LeaveOf ==
  ASSUME NEW S, NEW f \in Seq(S), NEW g \in Seq(S), f # <<>>
  PROVE  Tail(f) \o g = Tail(f \o g) /\ Head(f \o g) = Head(f) /\ f \o g # <<>>
<1> DEFINE a == Tail(f) \o g
           b == Tail(f \o g)
<1>1. /\ Tail(f) \in Seq(S) /\ Len(f) \in Nat \ {0} /\ Len(g) \in Nat
      /\ Len(Tail(f)) = Len(f) - 1 /\ f \o g \in Seq(S) /\ Len(f \o g) = Len(f) + Len(g)
  OBVIOUS
<1>2. f \o g # <<>>
  BY <1>1
<1>3. a \in Seq(S) /\ b \in Seq(S) /\ Len(a) = Len(f) + Len(g) - 1 /\ Len(b) = Len(f) + Len(g) - 1
  BY <1>1, <1>2
<1>4. ASSUME NEW k \in 1 .. Len(f) + Len(g) - 1 PROVE a[k] = b[k]
  <2>1. k \in Nat \ {0} /\ b[k] = (f \o g)[k + 1]
    BY <1>1, <1>2
  <2>2. CASE k <= Len(f) - 1
    BY <1>1, <2>1, <2>2
  <2>3. CASE k > Len(f) - 1
    <3>1. a[k] = g[k - (Len(f) - 1)]
      BY <1>1, <2>1, <2>3
    <3>2. (f \o g)[k + 1] = g[(k + 1) - Len(f)]
      BY <1>1, <2>1, <2>3
    <3>3. k - (Len(f) - 1) = (k + 1) - Len(f)
      BY <1>1, <2>1
    <3> QED BY <2>1, <3>1, <3>2, <3>3
  <2> QED BY <1>1, <2>1, <2>2, <2>3
<1> HIDE DEF a, b
<1>5. a = b
  BY <1>3, <1>4
<1>6. Head(f \o g) = Head(f)
  BY <1>1, <1>2
<1> QED BY <1>2, <1>5, <1>6 DEF a, b

LEMMA AloneOf ==
  ASSUME NEW S, NEW f \in Seq(S)
  PROVE  f \o <<>> = f /\ <<>> \o f = f
<1> QED OBVIOUS

(* The least number of a set of numbers is one of them.                    *)
LEMMA MinOf ==
  ASSUME NEW S, S \subseteq Nat, S # {}
  PROVE  Min(S) \in S /\ \A y \in S : Min(S) <= y
<1> DEFINE Less == {ss \in Nat \X Nat : ss[1] < ss[2]}
<1>1. Less = OpToRel(<, Nat)
  BY DEF OpToRel
<1> HIDE DEF Less
<1>2. \E x \in S : \A y \in S : <<y, x>> \notin Less
  BY <1>1, WFMin, NatLessThanWellFounded
<1>3. \E x \in S : \A y \in S : x <= y
  <2>1. PICK x \in S : \A y \in S : <<y, x>> \notin Less
    BY <1>2
  <2>2. ASSUME NEW y \in S PROVE x <= y
    <3>1. <<y, x>> \in Nat \X Nat /\ <<y, x>>[1] = y /\ <<y, x>>[2] = x
      OBVIOUS
    <3>2. ~ (<<y, x>>[1] < <<y, x>>[2])
      BY <3>1, <2>1 DEF Less
    <3> QED BY <3>1, <3>2
  <2> QED BY <2>2
<1> QED BY <1>3 DEF Min

(* A set of numbers with a bound has a greatest one.                       *)
LEMMA MaxOf ==
  ASSUME NEW n \in Nat, NEW S, S \subseteq 0 .. n, S # {}
  PROVE  Max(S) \in S /\ \A y \in S : Max(S) >= y
<1> DEFINE T == {n - y : y \in S}
<1>1. T \subseteq Nat /\ T # {}
  <2>1. \A y \in S : n - y \in Nat
    OBVIOUS
  <2>2. PICK y \in S : TRUE
    OBVIOUS
  <2>3. n - y \in T
    OBVIOUS
  <2> QED BY <2>1, <2>3
<1>2. Min(T) \in T /\ \A y \in T : Min(T) <= y
  BY <1>1, MinOf
<1>3. PICK x \in S : Min(T) = n - x
  BY <1>2
<1>4. \A y \in S : x >= y
  <2>1. ASSUME NEW y \in S PROVE x >= y
    <3>1. n - y \in T
      OBVIOUS
    <3>2. Min(T) <= n - y
      BY <1>2, <3>1
    <3> HIDE DEF T
    <3> QED BY <1>3, <3>2
  <2> QED BY <2>1
<1> HIDE DEF T
<1> QED BY <1>4 DEF Max
=============================================================================
