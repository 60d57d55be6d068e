---------------------------- MODULE ReportProofs ----------------------------
(***************************************************************************)
(* Proofs about Tree and Report: the walk over a tree goes forward, and    *)
(* the elements of the report are nested, for every tree.                  *)
(***************************************************************************)
EXTENDS Report, QueueLemmas, FiniteSetTheorems

(* The nodes of a tree, and the last of them, which is a case.             *)
LEMMA NodesOf ==
  ASSUME NEW t, IsTree(t)
  PROVE  /\ Len(t.up) \in Nat \ {0} /\ Node(t) = 1 .. Len(t.up) /\ Len(t.up) \in t.case
         /\ t.case \subseteq Node(t) \ {1} /\ t.up[1] = 0
         /\ \A i \in Node(t) \ {1} : t.up[i] \in 1 .. i - 1
         /\ \A i \in Node(t) : t.up[i] \in 0 .. Len(t.up)
<1>1. Len(t.up) \in Nat \ {0} /\ Node(t) = 1 .. Len(t.up)
  BY DEF IsTree, Node
<1>2. \A i \in Node(t) \ {1} : t.up[i] \in 1 .. i - 1
  BY DEF IsTree
<1>3. t.case \subseteq Node(t) /\ 1 \notin t.case /\ t.up[1] = 0
  BY DEF IsTree
<1>4. Children(t, Len(t.up)) = {}
  BY <1>1, <1>2, <1>3 DEF Children
<1>5. Len(t.up) \in t.case
  BY <1>1, <1>4 DEF IsTree
<1>6. \A i \in Node(t) : t.up[i] \in 0 .. Len(t.up)
  <2>1. ASSUME NEW i \in Node(t) PROVE t.up[i] \in 0 .. Len(t.up)
    <3>1. CASE i = 1
      BY <1>1, <1>3, <3>1
    <3>2. CASE i # 1
      BY <1>1, <1>2, <3>2
    <3> QED BY <3>1, <3>2
  <2> QED BY <2>1
<1> QED BY <1>1, <1>2, <1>3, <1>5, <1>6

(* The chain of the nodes above a node, one by one.                        *)
LEMMA AboveOf ==
  ASSUME NEW t, IsTree(t)
  PROVE  /\ Above(t, 1) = <<>>
         /\ \A i \in Node(t) \ {1} : Above(t, i) = <<t.up[i]>> \o Above(t, t.up[i])
<1> DEFINE N == Len(t.up)
           E(f, j) == IF j = 0 THEN <<>>
                      ELSE IF t.up[j] = 0 THEN <<>> ELSE <<t.up[j]>> \o f[t.up[j]]
           D(n, f) == f = [j \in 0 .. n |-> E(f, j)]
           T == {n \in 0 .. N : ~ \E f : D(n, f)}
<1>1. N \in Nat \ {0} /\ \A j \in 1 .. N : t.up[j] \in 0 .. j - 1
  <2>1. ASSUME NEW j \in 1 .. N PROVE t.up[j] \in 0 .. j - 1
    <3>1. CASE j = 1
      BY <3>1, NodesOf
    <3>2. CASE j # 1
      BY <3>2, NodesOf
    <3> QED BY <3>1, <3>2
  <2> QED BY <2>1, NodesOf
<1> HIDE DEF D
<1>a. \A n \in 0 .. N : n \notin T => \E f : D(n, f)
  OBVIOUS
<1>b. \A n \in T : n \in 0 .. N /\ ~ \E f : D(n, f)
  OBVIOUS
<1> HIDE DEF T
<1>2. T = {}
  <2> SUFFICES ASSUME T # {} PROVE FALSE
    OBVIOUS
  <2> DEFINE m == Min(T)
  <2>1. m \in T /\ \A y \in T : m <= y
    <3>1. T \subseteq Nat
      BY <1>1, <1>b
    <3> QED BY <3>1, MinOf
  <2> HIDE DEF m
  <2>2. m \in 0 .. N /\ ~ \E f : D(m, f)
    BY <2>1, <1>b
  <2>3. CASE m = 0
    <3> DEFINE f == [j \in 0 .. 0 |-> <<>>]
    <3>1. f = [j \in 0 .. 0 |-> E(f, j)]
      OBVIOUS
    <3> QED BY <2>2, <2>3, <3>1 DEF D
  <2>4. CASE m # 0
    <3>1. m - 1 \in 0 .. N /\ m - 1 \notin T
      <4>1. m - 1 \in 0 .. N /\ ~ (m <= m - 1)
        BY <1>1, <2>2, <2>4
      <4> QED BY <2>1, <4>1
    <3>2. PICK f : D(m - 1, f)
      BY <3>1, <1>a
    <3>f. \A j \in 0 .. m - 1 : f[j] = E(f, j)
      BY <3>2 DEF D
    <3> DEFINE g == [j \in 0 .. m |-> IF j = m THEN E(f, m) ELSE f[j]]
    <3>3. ASSUME NEW j \in 0 .. m PROVE g[j] = E(g, j)
      <4>1. CASE j = 0
        <5>1. 0 \in 0 .. m - 1 /\ 0 # m
          BY <2>2, <2>4
        <5>2. f[0] = <<>>
          BY <3>f, <5>1
        <5> QED BY <2>2, <4>1, <5>1, <5>2
      <4>2. CASE j # 0
        <5>1. t.up[j] \in 0 .. m - 1 /\ t.up[j] # m
          BY <1>1, <2>2, <4>2
        <5>2. g[t.up[j]] = f[t.up[j]]
          BY <2>2, <5>1
        <5>3. g[j] = E(f, j)
          <6>1. CASE j = m
            BY <6>1
          <6>2. CASE j # m
            <7>1. j \in 0 .. m - 1 /\ g[j] = f[j]
              BY <2>2, <6>2
            <7> QED BY <3>f, <7>1
          <6> QED BY <6>1, <6>2
        <5> QED BY <5>2, <5>3
      <4> QED BY <4>1, <4>2
    <3>4. D(m, g)
      BY <3>3 DEF D
    <3> QED BY <2>2, <3>4
  <2> QED BY <2>3, <2>4
<1>3. \E f : D(N, f)
  BY <1>1, <1>2, <1>a
<1> DEFINE chain[j \in 0 .. N] == IF j = 0 THEN <<>>
                  ELSE IF t.up[j] = 0 THEN <<>> ELSE <<t.up[j]>> \o chain[t.up[j]]
<1>4. D(N, chain)
  BY <1>3 DEF D
<1>5. \A i : Above(t, i) = chain[i]
  BY DEF Above
<1> HIDE DEF chain
<1>6. \A i \in 0 .. N : chain[i] = E(chain, i)
  BY <1>4 DEF D
<1>7. Above(t, 1) = <<>>
  <2>1. 1 \in 0 .. N /\ t.up[1] = 0
    BY <1>1, NodesOf
  <2>2. chain[1] = <<>>
    BY <1>6, <2>1
  <2> QED BY <1>5, <2>2
<1>8. ASSUME NEW i \in Node(t) \ {1}
      PROVE  Above(t, i) = <<t.up[i]>> \o Above(t, t.up[i])
  <2>1. i \in 0 .. N /\ i # 0 /\ t.up[i] # 0
    BY <1>1, NodesOf
  <2>2. chain[i] = <<t.up[i]>> \o chain[t.up[i]]
    BY <1>6, <2>1
  <2> QED BY <1>5, <2>2
<1> QED BY <1>7, <1>8
(* A node comes after those above it, of which the first is its parent and *)
(* the last is the head.                                                   *)
ChainAt(t, i) ==
  /\ Above(t, i) \in Seq(Node(t))
  /\ \A k \in DOMAIN Above(t, i) : Above(t, i)[k] < i
  /\ \A j, k \in DOMAIN Above(t, i) : j < k => Above(t, i)[k] < Above(t, i)[j]
  /\ i # 1 => 1 \in Range(Above(t, i))

LEMMA ParentOf ==
  ASSUME NEW t, IsTree(t), NEW i \in Node(t) \ {1}, ChainAt(t, t.up[i])
  PROVE  /\ ChainAt(t, i) /\ Above(t, i) # <<>>
         /\ Above(t, i)[1] = t.up[i] /\ 1 \in DOMAIN Above(t, i)
         /\ \A k \in DOMAIN Above(t, i) : k = 1 \/ /\ k - 1 \in DOMAIN Above(t, t.up[i])
                                                   /\ Above(t, i)[k] = Above(t, t.up[i])[k - 1]
         /\ \A k \in DOMAIN Above(t, t.up[i]) : /\ k + 1 \in DOMAIN Above(t, i)
                                                /\ Above(t, i)[k + 1] = Above(t, t.up[i])[k]
<1> DEFINE p == t.up[i]
           a == Above(t, p)
           b == Above(t, i)
<1>1. p \in 1 .. i - 1 /\ p \in Node(t) /\ i \in Nat
  BY NodesOf
<1>2. b = <<p>> \o a /\ a \in Seq(Node(t))
  BY AboveOf DEF ChainAt
<1>3. /\ b \in Seq(Node(t)) /\ b # <<>> /\ Head(b) = p /\ Tail(b) = a
      /\ \A k \in DOMAIN b : (k = 1 /\ b[k] = p) \/ (k - 1 \in DOMAIN a /\ b[k] = a[k - 1])
  <2> HIDE DEF p, a, b
  <2>1. /\ <<p>> \o a \in Seq(Node(t)) /\ <<p>> \o a # <<>>
        /\ Head(<<p>> \o a) = p /\ Tail(<<p>> \o a) = a
        /\ \A k \in DOMAIN (<<p>> \o a) :
              \/ k = 1 /\ (<<p>> \o a)[k] = p
              \/ k - 1 \in DOMAIN a /\ (<<p>> \o a)[k] = a[k - 1]
    BY <1>1, <1>2, PushOf
  <2> QED BY <1>2, <2>1
<1>4. /\ 1 \in DOMAIN b /\ b[1] = p /\ Len(b) = Len(a) + 1
      /\ \A k \in DOMAIN a : k + 1 \in DOMAIN b /\ b[k + 1] = a[k]
      /\ Len(a) \in Nat /\ DOMAIN a = 1 .. Len(a) /\ DOMAIN b = 1 .. Len(b)
  BY <1>2, <1>3, TailOf
<1>5. /\ \A k \in DOMAIN a : a[k] < p /\ a[k] \in Nat
      /\ \A j, k \in DOMAIN a : j < k => a[k] < a[j]
      /\ p # 1 => 1 \in Range(a)
  <2>1. ChainAt(t, p)
    OBVIOUS
  <2>2. \A x \in Node(t) : x \in Nat
    BY NodesOf
  <2> HIDE DEF p
  <2>3. \A k \in DOMAIN a : a[k] \in Node(t)
    BY <1>2
  <2> QED BY <2>1, <2>2, <2>3 DEF ChainAt
<1> HIDE DEF p, a, b
<1>6. ASSUME NEW k \in DOMAIN b PROVE b[k] < i
  <2>1. CASE k = 1
    BY <1>1, <1>4, <2>1
  <2>2. CASE k # 1
    <3>1. b[k] < p /\ b[k] \in Nat
      BY <1>3, <1>5, <2>2
    <3> QED BY <1>1, <3>1
  <2> QED BY <2>1, <2>2
<1>7. ASSUME NEW j \in DOMAIN b, NEW k \in DOMAIN b, j < k PROVE b[k] < b[j]
  <2>1. k # 1 /\ k \in Nat /\ j \in Nat /\ k - 1 \in DOMAIN a /\ b[k] = a[k - 1]
    BY <1>3, <1>4, <1>7
  <2>2. CASE j = 1
    BY <1>4, <1>5, <2>1, <2>2
  <2>3. CASE j # 1
    <3>1. j - 1 \in DOMAIN a /\ b[j] = a[j - 1] /\ j - 1 < k - 1
      BY <1>3, <1>7, <2>1, <2>3
    <3> QED BY <1>5, <2>1, <3>1
  <2> QED BY <2>2, <2>3
<1>8. 1 \in Range(b)
  <2>1. CASE p = 1
    BY <1>4, <2>1 DEF Range
  <2>2. CASE p # 1
    <3>1. PICK k \in DOMAIN a : a[k] = 1
      BY <1>5, <2>2 DEF Range
    <3> QED BY <1>4, <3>1 DEF Range
  <2> QED BY <2>1, <2>2
<1> QED BY <1>3, <1>4, <1>6, <1>7, <1>8 DEF ChainAt, p, a, b

LEMMA ChainOf ==
  ASSUME NEW t, IsTree(t)
  PROVE  \A i \in Node(t) : ChainAt(t, i)
<1> DEFINE T == {i \in Node(t) : ~ ChainAt(t, i)}
<1> SUFFICES ASSUME T # {} PROVE FALSE
  OBVIOUS
<1>1. PICK m \in T : \A y \in T : m <= y
  <2>1. T \subseteq Nat
    BY NodesOf
  <2> QED BY <2>1, MinOf
<1>2. CASE m = 1
  <2>1. Above(t, 1) = <<>>
    BY AboveOf
  <2>2. ChainAt(t, 1)
    <3>1. <<>> \in Seq(Node(t)) /\ DOMAIN <<>> = {}
      BY EmptyOf
    <3> QED BY <2>1, <3>1 DEF ChainAt
  <2> QED BY <1>1, <1>2, <2>2
<1>3. CASE m # 1
  <2>1. t.up[m] \in Node(t) /\ t.up[m] < m /\ t.up[m] \in Nat /\ m \in Nat
    BY <1>1, <1>3, NodesOf
  <2>2. ChainAt(t, t.up[m])
    BY <1>1, <2>1
  <2> QED BY <1>1, <1>3, <2>2, ParentOf
<1> QED BY <1>2, <1>3
(* Sequences read backwards, and their first elements.                     *)
LEMMA ReverseOf ==
  ASSUME NEW S, NEW q \in Seq(S), NEW x \in S
  PROVE  /\ Reverse(q) \in Seq(S) /\ Len(Reverse(q)) = Len(q)
         /\ Reverse(<<x>> \o q) = Append(Reverse(q), x)
         /\ Reverse(<<>>) = <<>>
<1>1. Len(q) \in Nat /\ \A k \in 1 .. Len(q) : q[k] \in S /\ Len(q) - k + 1 \in 1 .. Len(q)
  OBVIOUS
<1>2. Reverse(q) = [i \in 1 .. Len(q) |-> q[Len(q) - i + 1]]
  BY DEF Reverse
<1>3. Reverse(q) \in Seq(S) /\ Len(Reverse(q)) = Len(q)
  BY <1>1, <1>2
<1>4. Reverse(<<>>) = <<>>
  BY DEF Reverse
<1> DEFINE b == <<x>> \o q
           r == Append(Reverse(q), x)
<1>5. /\ b \in Seq(S) /\ Len(b) = Len(q) + 1 /\ b[1] = x
      /\ \A k \in 1 .. Len(q) : b[k + 1] = q[k]
  OBVIOUS
<1>6. /\ r \in Seq(S) /\ Len(r) = Len(q) + 1 /\ r[Len(q) + 1] = x
      /\ \A k \in 1 .. Len(q) : r[k] = Reverse(q)[k]
  BY <1>1, <1>3
<1> HIDE DEF b, r
<1>7. Reverse(b) = [i \in 1 .. Len(q) + 1 |-> b[(Len(q) + 1) - i + 1]]
  BY <1>5 DEF Reverse
<1>8. ASSUME NEW i \in 1 .. Len(q) + 1 PROVE b[(Len(q) + 1) - i + 1] = r[i]
  <2>1. CASE i = Len(q) + 1
    <3>1. (Len(q) + 1) - i + 1 = 1
      BY <1>1, <2>1
    <3> QED BY <1>5, <1>6, <2>1, <3>1
  <2>2. CASE i # Len(q) + 1
    <3>1. /\ i \in 1 .. Len(q) /\ Len(q) - i + 1 \in 1 .. Len(q)
          /\ (Len(q) + 1) - i + 1 = (Len(q) - i + 1) + 1
      BY <1>1, <2>2
    <3>2. b[(Len(q) + 1) - i + 1] = q[Len(q) - i + 1]
      BY <1>5, <3>1
    <3>3. r[i] = q[Len(q) - i + 1]
      BY <1>2, <1>6, <3>1
    <3> QED BY <3>2, <3>3
  <2> QED BY <2>1, <2>2
<1>9. r = [i \in 1 .. Len(q) + 1 |-> r[i]]
  BY <1>6
<1>10. Reverse(b) = r
  BY <1>7, <1>8, <1>9
<1> QED BY <1>3, <1>4, <1>10 DEF b, r

LEMMA FrontOf ==
  ASSUME NEW S, NEW q \in Seq(S), NEW x \in S, NEW k \in DOMAIN q
  PROVE  SubSeq(<<x>> \o q, 1, k) = <<x>> \o SubSeq(q, 1, k - 1)
<1> DEFINE b == <<x>> \o q
           l == SubSeq(b, 1, k)
           f == SubSeq(q, 1, k - 1)
           r == <<x>> \o f
<1>1. k \in 1 .. Len(q) /\ Len(q) \in Nat
  OBVIOUS
<1>2. /\ b \in Seq(S) /\ Len(b) = Len(q) + 1 /\ b[1] = x
      /\ \A j \in 1 .. Len(q) : b[j + 1] = q[j]
  OBVIOUS
<1>3. f \in Seq(S) /\ Len(f) = k - 1 /\ \A j \in 1 .. k - 1 : f[j] = q[j]
  BY <1>1
<1> HIDE DEF f
<1>4. r \in Seq(S) /\ Len(r) = k /\ r[1] = x /\ \A j \in 1 .. k - 1 : r[j + 1] = f[j]
  BY <1>1, <1>3
<1> HIDE DEF b, r
<1>5. l \in Seq(S) /\ Len(l) = k /\ \A j \in 1 .. k : l[j] = b[j]
  BY <1>1, <1>2
<1> HIDE DEF l
<1>6. ASSUME NEW j \in 1 .. k PROVE l[j] = r[j]
  <2>1. CASE j = 1
    BY <1>1, <1>2, <1>4, <1>5, <2>1
  <2>2. CASE j # 1
    <3>1. j - 1 \in 1 .. k - 1 /\ j - 1 \in 1 .. Len(q) /\ (j - 1) + 1 = j
      BY <1>1, <2>2
    <3>2. l[j] = q[j - 1]
      BY <1>2, <1>5, <3>1
    <3>3. r[j] = q[j - 1]
      BY <1>3, <1>4, <3>1
    <3> QED BY <3>2, <3>3
  <2> QED BY <2>1, <2>2
<1>7. l = r
  BY <1>4, <1>5, <1>6
<1> QED BY <1>7 DEF l, r, b, f

(* The elements of a node go on those of a node above it.                  *)
LEMMA LineOf ==
  ASSUME NEW t, IsTree(t)
  PROVE  /\ Line(t, 1) = <<1>>
         /\ \A i \in Node(t) : /\ Reverse(Above(t, i)) \in Seq(Node(t))
                               /\ Line(t, i) \in Seq(Node(t)) /\ Line(t, i) # <<>>
         /\ \A i \in Node(t) \ {1} : Line(t, i) = Append(Line(t, t.up[i]), i)
<1>1. Line(t, 1) = <<1>>
  <2>1. Reverse(<<>>) = <<>>
    BY DEF Reverse
  <2>2. Append(<<>>, 1) = <<1>>
    OBVIOUS
  <2>3. Above(t, 1) = <<>>
    BY AboveOf
  <2> QED BY <2>1, <2>2, <2>3 DEF Line
<1>2. \A i \in Node(t) : Reverse(Above(t, i)) \in Seq(Node(t))
  BY ChainOf, ReverseOf DEF ChainAt
<1>3. \A i \in Node(t) : Line(t, i) \in Seq(Node(t)) /\ Line(t, i) # <<>>
  BY <1>2, AppendOf DEF Line
<1>4. ASSUME NEW i \in Node(t) \ {1} PROVE Line(t, i) = Append(Line(t, t.up[i]), i)
  <2> DEFINE p == t.up[i]
             a == Above(t, p)
  <2>1. p \in Node(t)
    BY NodesOf
  <2>2. a \in Seq(Node(t))
    BY <2>1, ChainOf DEF ChainAt
  <2>3. Above(t, i) = <<p>> \o a
    BY AboveOf
  <2> HIDE DEF p, a
  <2>4. Reverse(<<p>> \o a) = Append(Reverse(a), p)
    BY <2>1, <2>2, ReverseOf
  <2> QED BY <2>3, <2>4 DEF Line, p, a
<1> QED BY <1>1, <1>2, <1>3, <1>4
(* The nodes above i before anc are those above its parent before anc, and *)
(* the parent.                                                             *)
LEMMA BelowOf ==
  ASSUME NEW t, IsTree(t), NEW i \in Node(t) \ {1}, NEW anc \in Range(Above(t, i))
  PROVE  IF anc = t.up[i] THEN Below(t, i, anc) = <<>>
         ELSE /\ anc \in Range(Above(t, t.up[i]))
              /\ Below(t, i, anc) = <<t.up[i]>> \o Below(t, t.up[i], anc)
<1> DEFINE p == t.up[i]
           a == Above(t, p)
           b == Above(t, i)
           n == CHOOSE k \in DOMAIN b : b[k] = anc
<1>1. p \in Node(t) /\ ChainAt(t, p) /\ ChainAt(t, i)
  BY NodesOf, ChainOf
<1>2. /\ 1 \in DOMAIN b /\ b[1] = p
      /\ \A k \in DOMAIN b : k = 1 \/ (k - 1 \in DOMAIN a /\ b[k] = a[k - 1])
      /\ \A k \in DOMAIN a : k + 1 \in DOMAIN b /\ b[k + 1] = a[k]
  BY <1>1, ParentOf
<1>3. a \in Seq(Node(t)) /\ b \in Seq(Node(t)) /\ b = <<p>> \o a
  BY <1>1, AboveOf DEF ChainAt
<1>4. n \in DOMAIN b /\ b[n] = anc /\ Below(t, i, anc) = SubSeq(b, 1, n - 1)
  <2>1. \E k \in DOMAIN b : b[k] = anc
    BY DEF Range
  <2> QED BY <2>1 DEF Below
<1>5. \A j, k \in DOMAIN b : b[j] = b[k] => j = k
  <2>1. \A j, k \in DOMAIN b : j < k => b[k] < b[j]
    BY <1>1 DEF ChainAt
  <2>2. \A k \in DOMAIN b : k \in Nat /\ b[k] \in Nat
    <3>1. \A x \in Node(t) : x \in Nat
      BY NodesOf
    <3> HIDE DEF b
    <3> QED BY <1>3, <3>1
  <2> HIDE DEF b
  <2> QED BY <2>1, <2>2
<1> HIDE DEF p, a, b, n
<1>6. CASE anc = p
  <2>1. n = 1
    BY <1>2, <1>4, <1>5, <1>6
  <2> QED BY <1>3, <1>4, <1>6, <2>1 DEF p
<1>7. CASE anc # p
  <2>1. n # 1 /\ n - 1 \in DOMAIN a /\ a[n - 1] = anc /\ n - 1 \in Nat
    BY <1>2, <1>3, <1>4, <1>7
  <2> DEFINE h == CHOOSE k \in DOMAIN a : a[k] = anc
  <2>2. h \in DOMAIN a /\ a[h] = anc /\ h \in Nat
    BY <1>3, <2>1
  <2> HIDE DEF h
  <2>3. n - 1 = h
    <3>1. h + 1 \in DOMAIN b /\ b[h + 1] = anc
      BY <1>2, <2>2
    <3>2. h + 1 = n
      BY <1>4, <1>5, <3>1
    <3> QED BY <2>2, <3>2
  <2>4. Below(t, p, anc) = SubSeq(a, 1, h - 1)
    BY DEF Below, h, a
  <2>5. SubSeq(<<p>> \o a, 1, h) = <<p>> \o SubSeq(a, 1, h - 1)
    BY <1>1, <1>3, <2>2, FrontOf
  <2>6. anc \in Range(a)
    BY <2>2 DEF Range
  <2> QED BY <1>3, <1>4, <1>7, <2>3, <2>4, <2>5, <2>6 DEF p, a
<1> QED BY <1>6, <1>7

LEMMA SplitOf ==
  ASSUME NEW t, IsTree(t)
  PROVE  \A i \in Node(t) : \A anc \in Range(Above(t, i)) :
           /\ anc \in Node(t) /\ Below(t, i, anc) \in Seq(Node(t))
           /\ Line(t, i) = Line(t, anc) \o Append(Reverse(Below(t, i, anc)), i)
<1> DEFINE Split(i, anc) ==
             /\ anc \in Node(t) /\ Below(t, i, anc) \in Seq(Node(t))
             /\ Line(t, i) = Line(t, anc) \o Append(Reverse(Below(t, i, anc)), i)
           T == {i \in Node(t) : ~ \A anc \in Range(Above(t, i)) : Split(i, anc)}
<1> SUFFICES ASSUME T # {} PROVE FALSE
  OBVIOUS
<1>1. PICK m \in T : \A y \in T : m <= y
  <2>1. T \subseteq Nat
    BY NodesOf
  <2> QED BY <2>1, MinOf
<1>2. PICK anc \in Range(Above(t, m)) : ~ Split(m, anc)
  BY <1>1
<1>3. m \in Node(t) \ {1}
  <2>1. Above(t, 1) = <<>>
    BY AboveOf
  <2>2. Range(<<>>) = {}
    BY EmptyOf DEF Range
  <2> QED BY <1>1, <1>2, <2>1, <2>2
<1> DEFINE p == t.up[m]
<1>4. p \in Node(t) /\ p < m /\ p \in Nat /\ m \in Nat
  <2>1. p \in 1 .. m - 1 /\ m \in 1 .. Len(t.up) /\ Node(t) = 1 .. Len(t.up) /\ Len(t.up) \in Nat
    BY <1>3, NodesOf
  <2> HIDE DEF p
  <2> QED BY <2>1
<1>5. \A x \in Range(Above(t, p)) : Split(p, x)
  <2>1. p \notin T
    <3> HIDE DEF T, p
    <3> QED BY <1>1, <1>4
  <2> QED BY <1>4, <2>1
<1>6. Line(t, m) = Append(Line(t, p), m) /\ Line(t, p) \in Seq(Node(t))
  BY <1>3, <1>4, LineOf
<1>7. CASE anc = p
  <2>1. Below(t, m, anc) = <<>>
    BY <1>3, <1>7, BelowOf
  <2>2. Append(Reverse(<<>>), m) = <<m>> /\ <<>> \in Seq(Node(t))
    BY DEF Reverse
  <2>3. Append(Line(t, p), m) = Line(t, p) \o <<m>>
    BY <1>3, <1>6
  <2> QED BY <1>2, <1>4, <1>6, <1>7, <2>1, <2>2, <2>3
<1>8. CASE anc # p
  <2> DEFINE w == Below(t, p, anc)
             z == Reverse(w)
  <2>1. anc \in Range(Above(t, p)) /\ Below(t, m, anc) = <<p>> \o w
    BY <1>3, <1>8, BelowOf
  <2>2. Split(p, anc)
    BY <1>5, <2>1
  <2>3. w \in Seq(Node(t)) /\ anc \in Node(t) /\ Line(t, p) = Line(t, anc) \o Append(z, p)
    BY <2>2
  <2>4. Line(t, anc) \in Seq(Node(t))
    BY <2>3, LineOf
  <2>5. z \in Seq(Node(t)) /\ Reverse(<<p>> \o w) = Append(z, p)
    BY <1>4, <2>3, ReverseOf
  <2> HIDE DEF w, z, p, Split
  <2>6. Append(Line(t, anc) \o Append(z, p), m) = Line(t, anc) \o Append(Append(z, p), m)
    <3>1. Append(z, p) \in Seq(Node(t))
      BY <1>4, <2>5
    <3>2. m \in Node(t)
      BY <1>3
    <3> DEFINE S == Node(t)
               f == Line(t, anc)
               g == Append(z, p)
    <3>3. f \in Seq(S) /\ g \in Seq(S) /\ m \in S
      BY <2>4, <3>1, <3>2
    <3> HIDE DEF S, f, g
    <3>4. Append(f \o g, m) = f \o Append(g, m)
      BY <3>3
    <3> QED BY <3>4 DEF f, g
  <2>7. Below(t, m, anc) \in Seq(Node(t))
    BY <1>4, <2>1, <2>3
  <2>8. Line(t, m) = Line(t, anc) \o Append(Reverse(Below(t, m, anc)), m)
    BY <1>6, <2>1, <2>3, <2>5, <2>6
  <2> QED BY <1>2, <2>3, <2>7, <2>8 DEF Split
<1> QED BY <1>7, <1>8
(* What follows a node: the walk goes forward.                             *)
LEMMA EndJumpOf ==
  ASSUME NEW t, IsTree(t)
  PROVE  /\ EndJump(t, 0) = 0 /\ EndJump(t, 1) = 0
         /\ \A i \in Node(t) \ {1} :
              EndJump(t, i) = IF NextSibling(t, i) # 0 THEN NextSibling(t, i)
                              ELSE EndJump(t, t.up[i])
<1> DEFINE N == Len(t.up)
           E(f, j) == IF j = 0 \/ (j > 0 /\ t.up[j] = 0) THEN 0
                      ELSE IF NextSibling(t, j) # 0 THEN NextSibling(t, j)
                      ELSE f[t.up[j]]
           D(n, f) == f = [j \in 0 .. n |-> E(f, j)]
           T == {n \in 0 .. N : ~ \E f : D(n, f)}
<1>1. N \in Nat \ {0} /\ \A j \in 1 .. N : t.up[j] \in 0 .. j - 1
  <2>1. ASSUME NEW j \in 1 .. N PROVE t.up[j] \in 0 .. j - 1
    <3>1. CASE j = 1
      BY <3>1, NodesOf
    <3>2. CASE j # 1
      BY <3>2, NodesOf
    <3> QED BY <3>1, <3>2
  <2> QED BY <2>1, NodesOf
<1> HIDE DEF D
<1>a. \A n \in 0 .. N : n \notin T => \E f : D(n, f)
  OBVIOUS
<1>b. \A n \in T : n \in 0 .. N /\ ~ \E f : D(n, f)
  OBVIOUS
<1> HIDE DEF T
<1>2. T = {}
  <2> SUFFICES ASSUME T # {} PROVE FALSE
    OBVIOUS
  <2> DEFINE m == Min(T)
  <2>1. m \in T /\ \A y \in T : m <= y
    <3>1. T \subseteq Nat
      BY <1>1, <1>b
    <3> QED BY <3>1, MinOf
  <2> HIDE DEF m
  <2>2. m \in 0 .. N /\ ~ \E f : D(m, f)
    BY <2>1, <1>b
  <2>3. CASE m = 0
    <3> DEFINE f == [j \in 0 .. 0 |-> 0]
    <3>1. f = [j \in 0 .. 0 |-> E(f, j)]
      OBVIOUS
    <3> QED BY <2>2, <2>3, <3>1 DEF D
  <2>4. CASE m # 0
    <3>1. m - 1 \in 0 .. N /\ m - 1 \notin T
      <4>1. m - 1 \in 0 .. N /\ ~ (m <= m - 1)
        BY <1>1, <2>2, <2>4
      <4> QED BY <2>1, <4>1
    <3>2. PICK f : D(m - 1, f)
      BY <3>1, <1>a
    <3>f. \A j \in 0 .. m - 1 : f[j] = E(f, j)
      BY <3>2 DEF D
    <3> DEFINE g == [j \in 0 .. m |-> IF j = m THEN E(f, m) ELSE f[j]]
    <3>3. ASSUME NEW j \in 0 .. m PROVE g[j] = E(g, j)
      <4>1. CASE j = 0
        <5>1. 0 \in 0 .. m - 1 /\ 0 # m
          BY <2>2, <2>4
        <5>2. f[0] = 0
          BY <3>f, <5>1
        <5> QED BY <2>2, <4>1, <5>1, <5>2
      <4>2. CASE j # 0
        <5>1. t.up[j] \in 0 .. m - 1 /\ t.up[j] # m
          BY <1>1, <2>2, <4>2
        <5>2. g[t.up[j]] = f[t.up[j]]
          BY <2>2, <5>1
        <5>3. g[j] = E(f, j)
          <6>1. CASE j = m
            BY <6>1
          <6>2. CASE j # m
            <7>1. j \in 0 .. m - 1 /\ g[j] = f[j]
              BY <2>2, <6>2
            <7> QED BY <3>f, <7>1
          <6> QED BY <6>1, <6>2
        <5> QED BY <5>2, <5>3
      <4> QED BY <4>1, <4>2
    <3>4. D(m, g)
      BY <3>3 DEF D
    <3> QED BY <2>2, <3>4
  <2> QED BY <2>3, <2>4
<1>3. \E f : D(N, f)
  BY <1>1, <1>2, <1>a
<1> DEFINE jump[j \in 0 .. N] == IF j = 0 \/ (j > 0 /\ t.up[j] = 0) THEN 0
                  ELSE IF NextSibling(t, j) # 0 THEN NextSibling(t, j)
                  ELSE jump[t.up[j]]
<1>4. D(N, jump)
  BY <1>3 DEF D
<1>5. \A i : EndJump(t, i) = jump[i]
  BY DEF EndJump
<1> HIDE DEF jump
<1>6. \A i \in 0 .. N : jump[i] = E(jump, i)
  BY <1>4 DEF D
<1>7. EndJump(t, 0) = 0 /\ EndJump(t, 1) = 0
  <2>1. 0 \in 0 .. N /\ 1 \in 0 .. N /\ t.up[1] = 0 /\ 1 > 0
    BY <1>1, NodesOf
  <2>2. jump[0] = 0 /\ jump[1] = 0
    BY <1>6, <2>1
  <2> QED BY <1>5, <2>2
<1>8. ASSUME NEW i \in Node(t) \ {1}
      PROVE  EndJump(t, i) = IF NextSibling(t, i) # 0 THEN NextSibling(t, i)
                             ELSE EndJump(t, t.up[i])
  <2>1. i \in 0 .. N /\ i # 0 /\ t.up[i] # 0
    BY <1>1, NodesOf
  <2>2. jump[i] = IF NextSibling(t, i) # 0 THEN NextSibling(t, i) ELSE jump[t.up[i]]
    BY <1>6, <2>1
  <2> QED BY <1>5, <2>2
<1> QED BY <1>7, <1>8

(* A node that comes after the parent of i and hangs above that parent     *)
(* comes after i: the nodes below a sequence follow it without a gap.      *)
LEMMA PassOver ==
  ASSUME NEW t, IsTree(t), NEW i \in Node(t) \ {1}, NEW e \in Node(t) \ {1},
         e > t.up[i], t.up[e] < t.up[i]
  PROVE  e > i
<1> DEFINE p == t.up[i]
           q == t.up[e]
<1>1. /\ p \in Nat /\ q \in Nat /\ e \in Nat /\ i \in Nat /\ p < i /\ e > p /\ q < p
      /\ p \in Node(t) /\ q \in Node(t)
  BY NodesOf
<1>2. e # i
  BY <1>1
<1>3. CASE e < i
  <2>1. e \in p + 1 .. i - 1
    <3> HIDE DEF p, q
    <3> QED BY <1>1, <1>3
  <2>2. p \in Range(Above(t, e))
    BY <2>1 DEF IsTree, Inside
  <2>3. PICK k \in DOMAIN Above(t, e) : Above(t, e)[k] = p
    BY <2>2 DEF Range
  <2>4. ChainAt(t, e) /\ ChainAt(t, q)
    BY <1>1, ChainOf
  <2>5. 1 \in DOMAIN Above(t, e) /\ Above(t, e)[1] = q
    BY <2>4, ParentOf
  <2>6. k = 1 \/ 1 < k
    <3>1. Above(t, e) \in Seq(Node(t))
      BY <2>4 DEF ChainAt
    <3> QED BY <3>1
  <2>7. CASE k = 1
    BY <1>1, <2>3, <2>5, <2>7
  <2>8. CASE 1 < k
    <3>1. Above(t, e)[k] < Above(t, e)[1]
      BY <2>4, <2>5, <2>8 DEF ChainAt
    <3> HIDE DEF p, q
    <3> QED BY <1>1, <2>3, <2>5, <3>1
  <2> QED BY <2>6, <2>7, <2>8
<1> HIDE DEF p, q
<1> QED BY <1>1, <1>2, <1>3

LEMMA SiblingOf ==
  ASSUME NEW t, IsTree(t), NEW i \in Node(t)
  PROVE  LET e == NextSibling(t, i)
         IN  e = 0 \/ (e \in Node(t) /\ e > i /\ t.up[e] = t.up[i])
<1> DEFINE later == {j \in Children(t, t.up[i]) : j > i}
<1>1. CASE later = {}
  BY <1>1 DEF NextSibling
<1>2. CASE later # {}
  <2>1. later \subseteq Nat
    BY NodesOf DEF Children
  <2>2. Min(later) \in later
    BY <1>2, <2>1, MinOf
  <2>3. NextSibling(t, i) = Min(later)
    BY <1>2 DEF NextSibling
  <2> QED BY <2>2, <2>3 DEF Children
<1> QED BY <1>1, <1>2

Beyond(t, i, e) == e = 0 \/ (e \in Node(t) \ {1} /\ e > i /\ t.up[e] < i)
LEMMA JumpOf ==
  ASSUME NEW t, IsTree(t)
  PROVE  \A i \in Node(t) : Beyond(t, i, EndJump(t, i))
<1> DEFINE T == {i \in Node(t) : ~ Beyond(t, i, EndJump(t, i))}
<1> SUFFICES ASSUME T # {} PROVE FALSE
  OBVIOUS
<1>1. PICK m \in T : \A y \in T : m <= y
  <2>1. T \subseteq Nat
    BY NodesOf
  <2> QED BY <2>1, MinOf
<1>2. CASE m = 1
  BY <1>1, <1>2, EndJumpOf DEF Beyond
<1>3. CASE m # 1
  <2> DEFINE p == t.up[m]
             e == EndJump(t, m)
  <2>1. p \in Node(t) /\ p < m /\ p \in Nat /\ m \in Nat /\ m \in Node(t) \ {1} /\ m > 1
    <3>1. m \in 1 .. Len(t.up) /\ Len(t.up) \in Nat /\ Node(t) = 1 .. Len(t.up)
      BY <1>1, NodesOf
    <3>2. p \in 1 .. m - 1
      BY <1>1, <1>3, NodesOf
    <3> HIDE DEF p, T
    <3> QED BY <1>3, <3>1, <3>2
  <2>2. Beyond(t, p, EndJump(t, p))
    <3> HIDE DEF p
    <3> QED BY <1>1, <2>1
  <2>3. CASE NextSibling(t, m) # 0
    <3>1. e = NextSibling(t, m)
      BY <2>1, <2>3, EndJumpOf
    <3>2. e \in Node(t) /\ e > m /\ t.up[e] = p
      BY <2>1, <2>3, <3>1, SiblingOf
    <3>3. e \in Nat /\ e # 1
      <4>1. e \in Nat
        BY <3>2, NodesOf
      <4> HIDE DEF e
      <4> QED BY <2>1, <3>2, <4>1
    <3> QED BY <1>1, <2>1, <3>2, <3>3 DEF Beyond
  <2>4. CASE NextSibling(t, m) = 0
    <3>1. e = EndJump(t, p)
      BY <2>1, <2>4, EndJumpOf
    <3>2. CASE e = 0
      BY <1>1, <3>2 DEF Beyond
    <3>3. CASE e # 0
      <4>1. e \in Node(t) \ {1} /\ e > p /\ t.up[e] < p
        BY <2>2, <3>1, <3>3 DEF Beyond
      <4>2. e > m
        BY <2>1, <4>1, PassOver
      <4>3. t.up[e] < m
        <5>1. t.up[e] \in Nat
          BY <4>1, NodesOf
        <5> HIDE DEF e, p
        <5> QED BY <2>1, <4>1, <5>1
      <4> QED BY <1>1, <4>1, <4>2, <4>3 DEF Beyond
    <3> QED BY <3>2, <3>3
  <2> QED BY <2>3, <2>4
<1> QED BY <1>2, <1>3

LEMMA FirstCaseOf ==
  ASSUME NEW t, IsTree(t), NEW i \in Node(t)
  PROVE  FirstCase(t, i) \in t.case /\ FirstCase(t, i) >= i
<1> DEFINE C == {c \in t.case : c >= i}
<1>1. C \subseteq Nat /\ i # 0
  BY NodesOf
<1>2. Len(t.up) \in C
  BY NodesOf
<1>3. Min(C) \in C
  <2> HIDE DEF C
  <2> QED BY <1>1, <1>2, MinOf
<1> QED BY <1>1, <1>3 DEF FirstCase

(* The walk goes forward over the cases.                                   *)
LEMMA NextCaseOf ==
  ASSUME NEW t, IsTree(t), NEW c \in t.case, NEW v
  PROVE  NextCase(t, c, v) = 0 \/ (NextCase(t, c, v) \in t.case /\ NextCase(t, c, v) > c)
<1> DEFINE p == t.up[c]
           Ahead(e) == e = 0 \/ (e \in Node(t) /\ e > c)
<1>1. c \in Node(t) \ {1} /\ p \in Node(t)
  BY NodesOf
<1>2. Ahead(EndJump(t, c))
  BY <1>1, JumpOf DEF Beyond
<1>3. Ahead(BreakJump(t, c))
  <2> DEFINE e == EndJump(t, p)
  <2>1. Beyond(t, p, e)
    BY <1>1, JumpOf
  <2>2. e = 0 \/ (e \in Node(t) \ {1} /\ e > c)
    BY <1>1, <2>1, PassOver DEF Beyond
  <2> QED BY <2>2 DEF BreakJump
<1>4. \A e : Ahead(e) => FirstCase(t, e) = 0 \/ (FirstCase(t, e) \in t.case /\ FirstCase(t, e) > c)
  <2>1. ASSUME NEW e \in Node(t), e > c
        PROVE  FirstCase(t, e) \in t.case /\ FirstCase(t, e) > c
    <3>1. FirstCase(t, e) \in t.case /\ FirstCase(t, e) >= e
      BY FirstCaseOf
    <3>2. \A x \in Node(t) : x \in Nat
      BY NodesOf
    <3>3. FirstCase(t, e) \in Nat /\ e \in Nat /\ c \in Nat
      BY <1>1, <3>1, <3>2, NodesOf
    <3> QED BY <2>1, <3>1, <3>3
  <2>2. FirstCase(t, 0) = 0
    BY DEF FirstCase
  <2> QED BY <2>1, <2>2
<1>5. \E e : Ahead(e) /\ NextCase(t, c, v) = FirstCase(t, e)
  <2>1. Ahead(0)
    OBVIOUS
  <2> HIDE DEF Ahead
  <2> QED BY <1>2, <1>3, <2>1 DEF NextCase
<1> HIDE DEF Ahead
<1> QED BY <1>4, <1>5
(* The node where the elements of two cases part is above both.            *)
LEMMA AncestorOf ==
  ASSUME NEW t, IsTree(t), NEW i \in t.case \cup {0}, NEW j \in t.case
  PROVE  /\ CommonAncestor(t, i, j) \in Range(Above(t, j))
         /\ i = 0 => CommonAncestor(t, i, j) = 1
         /\ i # 0 => CommonAncestor(t, i, j) \in Range(Above(t, i))
<1> DEFINE both == Range(Above(t, i)) \cap Range(Above(t, j))
<1>1. \A c \in t.case : /\ 1 \in Range(Above(t, c))
                        /\ Range(Above(t, c)) \subseteq 0 .. Len(t.up)
  <2>1. ASSUME NEW c \in t.case
        PROVE  1 \in Range(Above(t, c)) /\ Range(Above(t, c)) \subseteq 0 .. Len(t.up)
    <3>1. c \in Node(t) /\ c # 1 /\ Node(t) \subseteq 0 .. Len(t.up)
      <4>1. Node(t) = 1 .. Len(t.up) /\ Len(t.up) \in Nat /\ t.case \subseteq Node(t) \ {1}
        BY NodesOf
      <4> QED BY <4>1
    <3>2. ChainAt(t, c)
      BY <3>1, ChainOf
    <3>3. Above(t, c) \in Seq(Node(t))
      BY <3>2 DEF ChainAt
    <3>4. Range(Above(t, c)) \subseteq Node(t)
      <4> DEFINE a == Above(t, c)
      <4>1. a \in Seq(Node(t))
        BY <3>3
      <4> HIDE DEF a
      <4>2. \A k \in DOMAIN a : a[k] \in Node(t)
        BY <4>1
      <4> QED BY <4>2 DEF Range, a
    <3> QED BY <3>1, <3>2, <3>4 DEF ChainAt
  <2> QED BY <2>1
<1>2. CASE i = 0
  BY <1>1, <1>2 DEF CommonAncestor
<1>3. CASE i # 0
  <2>1. i \in t.case
    BY <1>3
  <2>2. both # {} /\ both \subseteq 0 .. Len(t.up) /\ Len(t.up) \in Nat
    BY <1>1, <2>1, NodesOf
  <2>3. Max(both) \in both
    <3> HIDE DEF both
    <3> QED BY <2>2, MaxOf
  <2>4. CommonAncestor(t, i, j) = Max(both)
    BY <1>3, <2>2 DEF CommonAncestor
  <2> QED BY <1>3, <2>3, <2>4
<1> QED BY <1>2, <1>3

-----------------------------------------------------------------------------
(* The report: the types of its fields, and what the elements that are not *)
(* ended are: those of the current case and of the nodes above it, and the *)
(* output of its script.                                                   *)
RFields == {"open", "cur", "path", "broken", "xml", "logs", "exists", "mem", "case"}
Same(r, s, F) == DOMAIN s = RFields /\ \A f \in RFields \ F : s[f] = r[f]
Trunk(t, r) == IF r.cur = 0 THEN <<1>> ELSE Line(t, r.cur)
Written(t, r) ==
  /\ DOMAIN r = RFields
  /\ r.open \in BOOLEAN /\ r.exists \in BOOLEAN
  /\ r.cur \in t.case \cup {0} /\ r.case \in t.case \cup {0}
  /\ r.path \in Seq(Node(t) \cup {STDIO})
  /\ r.xml \in [t.case -> Seq(Verdict)] /\ r.mem \in [t.case -> Verdict \cup {ABSENT}]
  /\ r.logs \in Seq({"part", "all"})
Elements(t, r) ==
  IF r.open THEN r.path \in {Trunk(t, r), Append(Trunk(t, r), STDIO)}
  ELSE r.path = <<>> /\ r.cur = 0
Judged(t, r) ==
  \A c \in t.case : Len(r.xml[c]) <= 1 /\ (r.xml[c] # <<>> => r.mem[c] = r.xml[c][1])
LogsOnce(r) == \A k \in DOMAIN r.logs : r.logs[k] = "all" => k = Len(r.logs)
Nested(t, r) ==
  /\ ~ r.broken /\ (r.open => r.exists /\ r.case = r.cur)
  /\ Elements(t, r) /\ Judged(t, r) /\ LogsOnce(r)

(* The elements end one after the other, from the last one begun.          *)
LEMMA EndAllOf ==
  ASSUME NEW S, NEW r, DOMAIN r = RFields, r.path \in Seq(S),
         NEW nodes \in Seq(S \ {STDIO}), Len(nodes) <= Len(r.path),
         \A k \in 1 .. Len(nodes) : r.path[Len(r.path) - k + 1] = nodes[k]
  PROVE  /\ Same(r, EndAll(r, nodes), {"path"})
         /\ EndAll(r, nodes).path = SubSeq(r.path, 1, Len(r.path) - Len(nodes))
<1> DEFINE q == r.path
           L == Len(q)
           N == Len(nodes)
           g == [k \in 0 .. N |-> IF k = 0 THEN r
                                 ELSE [r EXCEPT !.path = SubSeq(q, 1, L - k)]]
           E(f, k) == IF k = 0 THEN r ELSE End(f[k - 1], nodes[k])
<1>1. N \in Nat /\ L \in Nat /\ N <= L /\ q \in Seq(S)
  OBVIOUS
<1>2. ASSUME NEW k \in 1 .. N
      PROVE  End(g[k - 1], nodes[k]) = g[k]
  <2> DEFINE a == g[k - 1]
             x == nodes[k]
             p == SubSeq(q, 1, L - (k - 1))
  <2>1. k - 1 \in 0 .. N /\ k \in 0 .. N /\ x \in S \ {STDIO} /\ q[L - k + 1] = x
    BY <1>1
  <2>2. IF k = 1 THEN a = r /\ p = q ELSE a = [r EXCEPT !.path = p]
    <3>1. CASE k = 1
      <4>1. SubSeq(q, 1, L - 0) = q
        BY <1>1
      <4> QED BY <1>1, <2>1, <3>1, <4>1
    <3>2. CASE k # 1
      <4>1. k - 1 # 0
        BY <3>2
      <4> QED BY <2>1, <3>2, <4>1
    <3> QED BY <3>1, <3>2
  <2>3. /\ p \in Seq(S) /\ p # <<>> /\ Len(p) = L - k + 1 /\ p[L - k + 1] = x
        /\ SubSeq(p, 1, Len(p) - 1) = SubSeq(q, 1, L - k)
    <3>1. p \in Seq(S) /\ Len(p) = L - k + 1
      BY <1>1
    <3>2. p[L - k + 1] = q[L - k + 1]
      BY <1>1
    <3>3. SubSeq(p, 1, Len(p) - 1) = SubSeq(q, 1, L - k)
      <4> DEFINE u == SubSeq(p, 1, Len(p) - 1)
                 w == SubSeq(q, 1, L - k)
      <4>1. u \in Seq(S) /\ Len(u) = L - k /\ \A j \in 1 .. L - k : u[j] = p[j]
        <5> HIDE DEF p, q, L
        <5> QED BY <1>1, <3>1
      <4>2. w \in Seq(S) /\ Len(w) = L - k /\ \A j \in 1 .. L - k : w[j] = q[j]
        <5> HIDE DEF q
        <5> QED BY <1>1
      <4>3. \A j \in 1 .. L - k : p[j] = q[j]
        <5> HIDE DEF q
        <5> QED BY <1>1
      <4> HIDE DEF u, w
      <4> QED BY <4>1, <4>2, <4>3
    <3>4. q[L - k + 1] = x
      BY <2>1
    <3>5. L - k + 1 > 0
      BY <1>1
    <3>6. L - k + 1 \in Nat
      BY <1>1
    <3> HIDE DEF p, q, L, x
    <3>7. p # <<>>
      BY <3>1, <3>5, <3>6
    <3> QED BY <3>1, <3>2, <3>3, <3>4, <3>7
  <2> HIDE DEF p
  <2>4. a.path = p /\ DOMAIN a = RFields
    BY <2>2 DEF RFields
  <2>5. Last(p) = x /\ Front(p) = SubSeq(q, 1, L - k)
    BY <2>3 DEF Last, Front
  <2>6. StdioClose(a) = a
    BY <2>1, <2>4, <2>5 DEF StdioClose
  <2>7. End(a, x) = [a EXCEPT !.path = Front(@)]
    BY <2>3, <2>4, <2>5, <2>6 DEF End
  <2>8. [a EXCEPT !.path = Front(@)] = [r EXCEPT !.path = SubSeq(q, 1, L - k)]
    <3> DEFINE w == SubSeq(q, 1, L - k)
    <3>1. [a EXCEPT !.path = Front(@)] = [a EXCEPT !.path = w]
      BY <2>4, <2>5
    <3> HIDE DEF a, w, q
    <3>2. [a EXCEPT !.path = w] = [r EXCEPT !.path = w]
      BY <2>2
    <3> QED BY <3>1, <3>2 DEF w
  <2>9. g[k] = [r EXCEPT !.path = SubSeq(q, 1, L - k)]
    BY <2>1
  <2> QED BY <2>7, <2>8, <2>9
<1>3. g[0] = r
  BY <1>1
<1> HIDE DEF g, E
<1>4. g = [k \in 0 .. N |-> E(g, k)]
  <2>1. \A k \in 0 .. N : g[k] = E(g, k)
    <3>1. ASSUME NEW k \in 0 .. N PROVE g[k] = E(g, k)
      <4>1. CASE k = 0
        BY <1>3, <4>1 DEF E
      <4>2. CASE k # 0
        <5>1. k \in 1 .. N
          BY <1>1, <4>2
        <5> QED BY <1>2, <4>2, <5>1 DEF E
      <4> QED BY <4>1, <4>2
    <3> QED BY <3>1
  <2> QED BY <2>1 DEF g
<1> DEFINE ended[k \in 0 .. N] == IF k = 0 THEN r ELSE End(ended[k - 1], nodes[k])
<1>5. ended = [k \in 0 .. N |-> E(ended, k)]
  BY <1>4 DEF E
<1>6. EndAll(r, nodes) = ended[N]
  BY DEF EndAll
<1> HIDE DEF ended
<1>7. \A k \in 0 .. N : ended[k] = g[k]
  <2> DEFINE T == {k \in 0 .. N : ended[k] # g[k]}
  <2> SUFFICES ASSUME T # {} PROVE FALSE
    OBVIOUS
  <2>1. PICK m \in T : \A y \in T : m <= y
    <3>1. T \subseteq Nat
      BY <1>1
    <3> QED BY <3>1, MinOf
  <2>2. CASE m = 0
    BY <1>3, <1>5, <2>1, <2>2 DEF E
  <2>3. CASE m # 0
    <3>1. m - 1 \in 0 .. N /\ m - 1 \notin T /\ m \in 1 .. N
      <4>1. m - 1 \in 0 .. N /\ ~ (m <= m - 1) /\ m \in 1 .. N
        BY <1>1, <2>1, <2>3
      <4> HIDE DEF T
      <4> QED BY <2>1, <4>1
    <3>2. ended[m - 1] = g[m - 1]
      BY <3>1
    <3>3. ended[m] = End(ended[m - 1], nodes[m])
      BY <1>5, <2>1, <2>3 DEF E
    <3> QED BY <1>2, <2>1, <3>1, <3>2, <3>3
  <2> QED BY <2>2, <2>3
<1>8. ended[N] = g[N]
  BY <1>1, <1>7
<1>9. Same(r, g[N], {"path"}) /\ g[N].path = SubSeq(q, 1, L - N)
  <2>1. CASE N = 0
    <3>1. SubSeq(q, 1, L - 0) = q
      BY <1>1
    <3> QED BY <1>3, <2>1, <3>1 DEF Same
  <2>2. CASE N # 0
    <3>1. g[N] = [r EXCEPT !.path = SubSeq(q, 1, L - N)]
      BY <1>1, <2>2 DEF g
    <3> QED BY <3>1 DEF Same, RFields
  <2> QED BY <2>1, <2>2
<1> QED BY <1>6, <1>8, <1>9
Holds(r, p, nodes) == r.path = p \o Reverse(nodes)
LEMMA EndedOf ==
  ASSUME NEW S, NEW r, DOMAIN r = RFields, NEW p \in Seq(S),
         NEW nodes \in Seq(S \ {STDIO}), Holds(r, p, nodes)
  PROVE  Same(r, EndAll(r, nodes), {"path"}) /\ EndAll(r, nodes).path = p
<1> DEFINE w == Reverse(nodes)
           q == r.path
<1>1. /\ Len(p) \in Nat /\ Len(nodes) \in Nat
      /\ \A k \in 1 .. Len(nodes) : nodes[k] \in S /\ Len(nodes) - k + 1 \in 1 .. Len(nodes)
  OBVIOUS
<1>2. w = [i \in 1 .. Len(nodes) |-> nodes[Len(nodes) - i + 1]]
  BY DEF Reverse
<1>3. /\ w \in Seq(S) /\ Len(w) = Len(nodes)
      /\ \A k \in 1 .. Len(nodes) : w[Len(nodes) - k + 1] = nodes[k]
  <2>1. w \in Seq(S) /\ Len(w) = Len(nodes)
    BY <1>1, <1>2
  <2>2. ASSUME NEW k \in 1 .. Len(nodes) PROVE w[Len(nodes) - k + 1] = nodes[k]
    <3>1. Len(nodes) - (Len(nodes) - k + 1) + 1 = k
      BY <1>1
    <3> HIDE DEF w
    <3> QED BY <1>1, <1>2, <3>1
  <2> QED BY <2>1, <2>2
<1> HIDE DEF w
<1>4. q = p \o w
  BY DEF w, Holds
<1>5. /\ q \in Seq(S) /\ Len(q) = Len(p) + Len(nodes)
      /\ \A k \in 1 .. Len(p) : q[k] = p[k]
      /\ \A k \in 1 .. Len(nodes) : q[Len(p) + k] = w[k]
  <2>1. /\ p \o w \in Seq(S) /\ Len(p \o w) = Len(p) + Len(w)
        /\ \A k \in DOMAIN p : (p \o w)[k] = p[k]
        /\ \A k \in DOMAIN w : (p \o w)[Len(p) + k] = w[k]
    <3>1. w \in Seq(S) /\ p \in Seq(S)
      BY <1>3
    <3>2. p \o w \in Seq(S) /\ Len(p \o w) = Len(p) + Len(w)
      BY <3>1
    <3>3. \A k \in DOMAIN p : (p \o w)[k] = p[k]
      BY <3>1
    <3>4. \A k \in DOMAIN w : (p \o w)[Len(p) + k] = w[k]
      BY <3>1
    <3> QED BY <3>2, <3>3, <3>4
  <2>2. DOMAIN p = 1 .. Len(p) /\ DOMAIN w = 1 .. Len(nodes)
    BY <1>3
  <2> HIDE DEF q
  <2> QED BY <1>3, <1>4, <2>1, <2>2
<1>6. ASSUME NEW k \in 1 .. Len(nodes)
      PROVE  q[Len(q) - k + 1] = nodes[k]
  <2>1. /\ Len(nodes) - k + 1 \in 1 .. Len(nodes)
        /\ Len(q) - k + 1 = Len(p) + (Len(nodes) - k + 1)
    BY <1>1, <1>5
  <2> HIDE DEF q
  <2> QED BY <1>3, <1>5, <2>1
<1>7. Len(nodes) <= Len(q)
  BY <1>1, <1>5
<1>8. /\ Same(r, EndAll(r, nodes), {"path"})
      /\ EndAll(r, nodes).path = SubSeq(q, 1, Len(q) - Len(nodes))
  <2>1. r.path \in Seq(S) /\ Len(nodes) <= Len(r.path)
    BY <1>5, <1>7
  <2>2. \A k \in 1 .. Len(nodes) : r.path[Len(r.path) - k + 1] = nodes[k]
    BY <1>6
  <2> QED BY <2>1, <2>2, EndAllOf
<1>9. SubSeq(q, 1, Len(q) - Len(nodes)) = p
  <2> DEFINE u == SubSeq(q, 1, Len(q) - Len(nodes))
  <2> HIDE DEF q
  <2>1. u \in Seq(S) /\ Len(u) = Len(p) /\ \A j \in 1 .. Len(p) : u[j] = p[j]
    BY <1>1, <1>5
  <2> HIDE DEF u
  <2>2. u = p
    BY <2>1
  <2> QED BY <2>2 DEF u
<1> QED BY <1>8, <1>9

LEMMA TrunkOf ==
  ASSUME NEW t, IsTree(t), NEW r, r.cur \in t.case \cup {0}
  PROVE  /\ Trunk(t, r) \in Seq(Node(t)) /\ Trunk(t, r) # <<>>
         /\ Last(Trunk(t, r)) \in Node(t) /\ Last(Trunk(t, r)) # STDIO
         /\ r.cur # 0 => Last(Trunk(t, r)) = r.cur
<1>1. 1 \in Node(t) /\ t.case \subseteq Node(t) /\ 0 \notin Node(t)
  BY NodesOf
<1>2. CASE r.cur = 0
  <2>1. Trunk(t, r) = <<1>>
    BY <1>2 DEF Trunk
  <2>2. <<1>> \in Seq(Node(t)) /\ <<1>> # <<>> /\ Last(<<1>>) = 1
    BY <1>1 DEF Last
  <2> QED BY <1>1, <1>2, <2>1, <2>2 DEF STDIO
<1>3. CASE r.cur # 0
  <2> DEFINE c == r.cur
             a == Reverse(Above(t, c))
             l == Append(a, c)
  <2>1. c \in Node(t) /\ a \in Seq(Node(t))
    BY <1>1, <1>3, LineOf
  <2>2. Trunk(t, r) = l
    BY <1>3 DEF Trunk, Line
  <2> HIDE DEF a, c
  <2>3. l \in Seq(Node(t)) /\ l # <<>> /\ l[Len(l)] = c
    BY <2>1, AppendOf
  <2> HIDE DEF l
  <2>4. Last(l) = c
    BY <2>3 DEF Last
  <2> QED BY <1>1, <2>1, <2>2, <2>3, <2>4 DEF STDIO, c
<1> QED BY <1>2, <1>3

(* The output of a script is ended before anything else is.                *)
LEMMA CloseOf ==
  ASSUME NEW t, IsTree(t), NEW r, Written(t, r), Elements(t, r), r.open
  PROVE  Same(r, StdioClose(r), {"path"}) /\ StdioClose(r).path = Trunk(t, r)
<1> DEFINE k == Trunk(t, r)
<1>1. r.cur \in t.case \cup {0} /\ DOMAIN r = RFields
  BY DEF Written
<1>2. /\ k \in Seq(Node(t)) /\ k # <<>> /\ Last(k) \in Node(t) /\ Last(k) # STDIO
  BY <1>1, TrunkOf
<1>3. r.path \in {k, Append(k, STDIO)}
  BY DEF Elements
<1> HIDE DEF k
<1>4. CASE r.path = k
  <2>1. StdioClose(r) = r
    BY <1>2, <1>4 DEF StdioClose
  <2> QED BY <1>1, <1>4, <2>1 DEF Same, k
<1>5. CASE r.path = Append(k, STDIO)
  <2> DEFINE S == Node(t) \cup {STDIO}
             a == Append(k, STDIO)
  <2>1. k \in Seq(S) /\ STDIO \in S
    BY <1>2
  <2> HIDE DEF S
  <2>2. a # <<>> /\ a \in Seq(S) /\ a[Len(a)] = STDIO /\ SubSeq(a, 1, Len(a) - 1) = k
    BY <2>1
  <2> HIDE DEF a
  <2>3. Last(a) = STDIO /\ Front(a) = k
    BY <2>2 DEF Last, Front
  <2>4. r.path = a
    BY <1>5 DEF a
  <2>5. StdioClose(r) = [r EXCEPT !.path = Front(@)]
    BY <2>2, <2>3, <2>4 DEF StdioClose
  <2> QED BY <1>1, <2>3, <2>4, <2>5 DEF Same, RFields, k
<1> QED BY <1>3, <1>4, <1>5

LEMMA XmlCaseOf ==
  ASSUME NEW t, IsTree(t), NEW r, Written(t, r), Elements(t, r), r.open, NEW c \in t.case
  PROVE  LET e == XmlCase(t, r, c)
         IN  /\ Same(r, e, {"path", "cur", "xml"})
             /\ e.path = Line(t, c) /\ e.cur = c /\ e.xml = [r.xml EXCEPT ![c] = <<>>]
<1> DEFINE i == r.cur
           anc == CommonAncestor(t, i, c)
           s == StdioClose(r)
           low == Below(t, i, anc)
           up == Reverse(Below(t, c, anc))
           a == IF i = 0 THEN s ELSE EndAll(s, <<i>> \o low)
           b == BeginAll(a, up)
           e == XmlCase(t, r, c)
<1>1. i \in t.case \cup {0} /\ c \in Node(t) /\ t.case \subseteq Node(t) \ {1} /\ 0 \notin Node(t)
  <2>1. c \in Node(t) /\ t.case \subseteq Node(t) \ {1} /\ 0 \notin Node(t)
    BY NodesOf
  <2>2. i \in t.case \cup {0}
    BY DEF Written
  <2> QED BY <2>1, <2>2
<1>2. Same(r, s, {"path"}) /\ s.path = Trunk(t, r)
  BY CloseOf
<1>3. /\ anc \in Range(Above(t, c)) /\ (i = 0 => anc = 1)
      /\ (i # 0 => anc \in Range(Above(t, i)))
  BY <1>1, AncestorOf
<1>4. /\ anc \in Node(t) /\ Below(t, c, anc) \in Seq(Node(t))
      /\ Line(t, c) = Line(t, anc) \o Append(up, c)
  BY <1>1, <1>3, SplitOf
<1>5. up \in Seq(Node(t)) /\ Line(t, anc) \in Seq(Node(t))
  BY <1>1, <1>4, ReverseOf, LineOf
<1>6. Same(r, a, {"path"}) /\ a.path = Line(t, anc)
  <2>1. CASE i = 0
    <3>1. Line(t, 1) = <<1>>
      BY LineOf
    <3> QED BY <1>2, <1>3, <2>1, <3>1 DEF Trunk
  <2>2. CASE i # 0
    <3>1. i \in Node(t)
      BY <1>1, <2>2
    <3>2. /\ low \in Seq(Node(t))
          /\ Line(t, i) = Line(t, anc) \o Append(Reverse(low), i)
      BY <1>3, <2>2, <3>1, SplitOf
    <3>3. Reverse(<<i>> \o low) = Append(Reverse(low), i)
      BY <3>1, <3>2, ReverseOf
    <3>4. s.path = Line(t, anc) \o Reverse(<<i>> \o low)
      BY <1>2, <2>2, <3>2, <3>3 DEF Trunk
    <3> DEFINE nodes == <<i>> \o low
    <3>5. nodes \in Seq(Node(t)) /\ Node(t) \ {STDIO} = Node(t)
      <4>1. nodes \in Seq(Node(t))
        <5> HIDE DEF i, low
        <5> QED BY <3>1, <3>2, PushOf
      <4> QED BY <1>1, <4>1 DEF STDIO
    <3>6. DOMAIN s = RFields
      BY <1>2 DEF Same
    <3>7. Same(s, EndAll(s, nodes), {"path"}) /\ EndAll(s, nodes).path = Line(t, anc)
      <4> DEFINE S == Node(t)
                 p == Line(t, anc)
      <4> HIDE DEF nodes, s, anc
      <4>1. nodes \in Seq(S \ {STDIO})
        BY <3>5
      <4>2. Holds(s, p, nodes)
        BY <3>4 DEF nodes, Holds
      <4>3. p \in Seq(S)
        BY <1>5
      <4> HIDE DEF S, p
      <4>4. Same(s, EndAll(s, nodes), {"path"}) /\ EndAll(s, nodes).path = p
        BY <3>6, <4>1, <4>2, <4>3, EndedOf
      <4> QED BY <4>4 DEF p
    <3>8. a = EndAll(s, nodes)
      BY <2>2
    <3> QED BY <1>2, <3>7, <3>8 DEF Same
  <2> QED BY <2>1, <2>2
<1>7. e = [Begin(b, c) EXCEPT !.cur = c, !.xml[c] = <<>>]
  BY DEF XmlCase
<1> HIDE DEF anc, s, low, up, a, e
<1>8. /\ Same(r, b, {"path"}) /\ b.path = Line(t, anc) \o up
  BY <1>6 DEF BeginAll, Same, RFields
<1>9. Append(Line(t, anc) \o up, c) = Line(t, anc) \o Append(up, c)
  <2> DEFINE S == Node(t)
             f == Line(t, anc)
  <2>1. f \in Seq(S) /\ up \in Seq(S) /\ c \in S
    BY <1>1, <1>5
  <2> HIDE DEF S, f
  <2>2. Append(f \o up, c) = f \o Append(up, c)
    BY <2>1
  <2> QED BY <2>2 DEF f
<1> HIDE DEF b
<1>10. /\ Same(r, Begin(b, c), {"path"}) /\ Begin(b, c).path = Line(t, c)
  BY <1>4, <1>8, <1>9 DEF Begin, Same, RFields
<1>11. /\ Same(r, e, {"path", "cur", "xml"})
       /\ e.path = Line(t, c) /\ e.cur = c /\ e.xml = [r.xml EXCEPT ![c] = <<>>]
  BY <1>7, <1>10 DEF Same, RFields
<1> QED BY <1>11 DEF e

-----------------------------------------------------------------------------
(* The operations of the output manager leave the elements nested, each    *)
(* verdict inside the element of its case and each log merged whole once.  *)
Sound(t, r) == Written(t, r) /\ Nested(t, r)

LEMMA NewReportOf ==
  ASSUME NEW t, IsTree(t)
  PROVE  /\ Sound(t, NewReport(t)) /\ ~ NewReport(t).open
         /\ NewReport(t).case = 0
<1>1. <<>> \in Seq(Verdict) /\ <<>> \in Seq({"part", "all"}) /\ <<>> \in Seq(Node(t) \cup {STDIO})
  BY EmptyOf
<1>2. DOMAIN NewReport(t) = RFields
  BY DEF NewReport, RFields
<1>3. Written(t, NewReport(t))
  BY <1>1, <1>2 DEF NewReport, Written, ABSENT
<1>4. Nested(t, NewReport(t))
  BY EmptyOf DEF NewReport, Nested, Elements, Judged, LogsOnce
<1> QED BY <1>3, <1>4 DEF Sound, NewReport

LEMMA WriteOpenOf ==
  ASSUME NEW t, IsTree(t)
  PROVE  Sound(t, WriteOpen(t)) /\ WriteOpen(t).open
<1> DEFINE r == NewReport(t)
           e == WriteOpen(t)
<1>1. Written(t, r) /\ Nested(t, r) /\ r.cur = 0 /\ r.case = 0
  BY NewReportOf DEF Sound, NewReport
<1>2. e = [r EXCEPT !.open = TRUE, !.exists = TRUE, !.path = <<1>>]
  BY DEF WriteOpen
<1>3. <<1>> \in Seq(Node(t) \cup {STDIO})
  BY NodesOf
<1> HIDE DEF r, e
<1>4. /\ Same(r, e, {"open", "exists", "path"}) /\ e.open = TRUE /\ e.exists = TRUE
      /\ e.path = <<1>>
  BY <1>1, <1>2 DEF Written, Same, RFields
<1>5. Written(t, e)
  BY <1>1, <1>3, <1>4 DEF Written, Same, RFields
<1>6. Elements(t, e)
  BY <1>1, <1>4 DEF Elements, Trunk, Same, RFields
<1>7. Nested(t, e)
  BY <1>1, <1>4, <1>6 DEF Nested, Judged, LogsOnce, Same, RFields
<1> QED BY <1>4, <1>5, <1>7 DEF Sound, e

LEMMA WriteStdioOf ==
  ASSUME NEW t, IsTree(t), NEW r, Sound(t, r)
  PROVE  Sound(t, WriteStdio(r)) /\ Same(r, WriteStdio(r), {"path"})
<1> DEFINE e == WriteStdio(r)
           k == Trunk(t, r)
<1>1. Written(t, r) /\ Nested(t, r)
  BY DEF Sound
<1>2. CASE e = r
  BY <1>1, <1>2 DEF Same, Written, Sound
<1>3. CASE e # r
  <2>1. /\ r.open /\ (r.path = <<>> \/ Last(r.path) # STDIO)
        /\ e = [r EXCEPT !.path = Append(@, STDIO)]
    BY <1>3 DEF WriteStdio, Begin
  <2>2. r.path \in {k, Append(k, STDIO)}
    BY <1>1, <2>1 DEF Nested, Elements
  <2>3. r.path = k
    <3>1. k \in Seq(Node(t))
      BY <1>1, TrunkOf DEF Written
    <3> DEFINE a == Append(k, STDIO)
               S == Node(t) \cup {STDIO}
    <3>2. a # <<>> /\ a[Len(a)] = STDIO
      <4>1. k \in Seq(S) /\ STDIO \in S
        BY <3>1
      <4> HIDE DEF S, k
      <4> QED BY <4>1
    <3> HIDE DEF a
    <3>3. Last(a) = STDIO
      BY <3>2 DEF Last
    <3>4. r.path # a
      BY <2>1, <3>2, <3>3
    <3> QED BY <2>2, <3>4 DEF a
  <2> HIDE DEF e
  <2>4. /\ Same(r, e, {"path"}) /\ e.path = Append(k, STDIO)
    BY <1>1, <2>1, <2>3 DEF Written, Same, RFields
  <2>5. Trunk(t, e) = k
    BY <2>4 DEF Trunk, Same, RFields
  <2>6. Append(k, STDIO) \in Seq(Node(t) \cup {STDIO})
    <3>1. k \in Seq(Node(t))
      BY <1>1, TrunkOf DEF Written
    <3> HIDE DEF k
    <3> QED BY <3>1
  <2> HIDE DEF k
  <2>7. Written(t, e)
    BY <1>1, <2>4, <2>6 DEF Written, Same, RFields
  <2>8. e.open = r.open /\ e.cur = r.cur
    BY <2>4 DEF Same, RFields
  <2>9. Elements(t, e)
    BY <2>1, <2>4, <2>5, <2>8 DEF Elements
  <2>10. Nested(t, e)
    BY <1>1, <2>4, <2>9 DEF Nested, Judged, LogsOnce, Same, RFields
  <2> QED BY <2>4, <2>7, <2>10 DEF Sound, e
<1> QED BY <1>2, <1>3

LEMMA MergeOf ==
  ASSUME NEW t, IsTree(t), NEW r, Sound(t, r), NEW log \in {"none", "part", "all"}
  PROVE  Sound(t, Merge(r, log)) /\ Same(r, Merge(r, log), {"logs"})
<1> DEFINE e == Merge(r, log)
           l == r.logs
<1>1. Written(t, r) /\ Nested(t, r)
  BY DEF Sound
<1>2. CASE e = r
  BY <1>1, <1>2 DEF Same, Written, Sound
<1>3. CASE e # r
  <2>1. /\ log \in {"part", "all"} /\ (l # <<>> => Last(l) \notin {"all", log})
        /\ e = [r EXCEPT !.logs = Append(@, log)]
    BY <1>3 DEF Merge
  <2>2. l \in Seq({"part", "all"}) /\ \A k \in DOMAIN l : l[k] = "all" => k = Len(l)
    BY <1>1 DEF Written, Nested, LogsOnce
  <2> HIDE DEF e
  <2>3. /\ Same(r, e, {"logs"}) /\ e.logs = Append(l, log)
    BY <1>1, <2>1 DEF Written, Same, RFields
  <2> HIDE DEF l
  <2>4. \A k \in DOMAIN l : l[k] # "all"
    <3>1. ASSUME NEW k \in DOMAIN l, l[k] = "all" PROVE FALSE
      <4>1. k = Len(l) /\ l # <<>>
        BY <2>2, <3>1
      <4> QED BY <2>1, <3>1, <4>1 DEF Last
    <3> QED BY <3>1
  <2>5. Append(l, log) \in Seq({"part", "all"})
    BY <2>1, <2>2
  <2>6. \A k \in DOMAIN Append(l, log) : Append(l, log)[k] = "all" => k = Len(Append(l, log))
    BY <2>1, <2>2, <2>4, AppendOf
  <2>7. Written(t, e)
    BY <1>1, <2>3, <2>5 DEF Written, Same, RFields
  <2>8. Nested(t, e)
    <3>1. Elements(t, e) /\ Judged(t, e) /\ e.broken = r.broken /\ e.open = r.open
      BY <1>1, <2>3 DEF Nested, Elements, Trunk, Judged, Same, RFields
    <3>2. LogsOnce(e)
      BY <2>3, <2>6 DEF LogsOnce
    <3> QED BY <1>1, <2>3, <3>1, <3>2 DEF Nested, Same, RFields
  <2> QED BY <2>3, <2>7, <2>8 DEF Sound, e
<1> QED BY <1>2, <1>3

LEMMA WriteCaseOf ==
  ASSUME NEW t, IsTree(t), NEW r, Sound(t, r), r.open, NEW c \in t.case
  PROVE  LET e == WriteCase(t, r, c)
         IN  /\ Sound(t, e) /\ Same(r, e, {"path", "cur", "xml", "mem", "case"})
             /\ e.open /\ e.cur = c /\ e.case = c
             /\ e.xml = [r.xml EXCEPT ![c] = <<>>]
             /\ e.mem = [r.mem EXCEPT ![c] = UNEXECUTED]
<1> DEFINE b == [r EXCEPT !.mem[c] = UNEXECUTED, !.case = c]
           e == XmlCase(t, b, c)
<1>1. Written(t, r) /\ Nested(t, r) /\ DOMAIN r = RFields
  BY DEF Sound, Written
<1>2. /\ Same(r, b, {"mem", "case"}) /\ b.case = c
      /\ b.mem = [r.mem EXCEPT ![c] = UNEXECUTED]
  BY <1>1 DEF Same, RFields
<1> HIDE DEF b
<1>3. b.mem \in [t.case -> Verdict \cup {ABSENT}]
  <2>1. r.mem \in [t.case -> Verdict \cup {ABSENT}] /\ UNEXECUTED \in Verdict
    BY <1>1 DEF Written, Verdict, UNEXECUTED, EXECUTED
  <2> QED BY <1>2, <2>1
<1>4. Written(t, b)
  BY <1>1, <1>2, <1>3 DEF Written, Same, RFields
<1>5. Elements(t, b) /\ b.open
  BY <1>1, <1>2 DEF Nested, Elements, Trunk, Same, RFields
<1>6. /\ Same(b, e, {"path", "cur", "xml"})
      /\ e.path = Line(t, c) /\ e.cur = c /\ e.xml = [b.xml EXCEPT ![c] = <<>>]
  BY <1>4, <1>5, XmlCaseOf
<1>7. WriteCase(t, r, c) = e
  BY DEF WriteCase, b
<1> HIDE DEF e
<1>8. /\ Same(r, e, {"path", "cur", "xml", "mem", "case"})
      /\ e.open /\ e.cur = c /\ e.case = c /\ e.path = Line(t, c)
      /\ e.xml = [r.xml EXCEPT ![c] = <<>>] /\ e.mem = [r.mem EXCEPT ![c] = UNEXECUTED]
  BY <1>2, <1>5, <1>6 DEF Same, RFields
<1>9. c \in Node(t) /\ c # 0 /\ Line(t, c) \in Seq(Node(t) \cup {STDIO})
  <2>1. c \in Node(t) /\ c # 0
    BY NodesOf
  <2>2. Line(t, c) \in Seq(Node(t))
    BY <2>1, LineOf
  <2> QED BY <2>1, <2>2
<1>10. r.xml \in [t.case -> Seq(Verdict)] /\ <<>> \in Seq(Verdict) /\ e.mem = b.mem
  BY <1>1, <1>2, <1>8, EmptyOf DEF Written
<1>11. Written(t, e)
  <2>1. e.xml \in [t.case -> Seq(Verdict)]
    BY <1>8, <1>10
  <2> QED BY <1>1, <1>3, <1>8, <1>9, <1>10, <2>1 DEF Written, Same, RFields
<1>12. Judged(t, e)
  <2> SUFFICES ASSUME NEW d \in t.case
               PROVE  Len(e.xml[d]) <= 1 /\ (e.xml[d] # <<>> => e.mem[d] = e.xml[d][1])
    BY DEF Judged
  <2>1. CASE d = c
    <3>1. e.xml[d] = <<>>
      BY <1>8, <1>10, <2>1
    <3> QED BY <3>1
  <2>2. CASE d # c
    <3>1. e.xml[d] = r.xml[d]
      BY <1>8, <1>10, <2>2
    <3>2. e.mem[d] = r.mem[d]
      BY <1>1, <1>8, <2>2 DEF Written
    <3> QED BY <1>1, <3>1, <3>2 DEF Nested, Judged
  <2> QED BY <2>1, <2>2
<1>13. Elements(t, e)
  BY <1>8, <1>9 DEF Elements, Trunk
<1>14. Nested(t, e)
  BY <1>1, <1>8, <1>12, <1>13 DEF Nested, LogsOnce, Same, RFields
<1> QED BY <1>7, <1>8, <1>11, <1>14 DEF Sound

LEMMA WriteVerdictOf ==
  ASSUME NEW t, IsTree(t), NEW r, Sound(t, r), NEW v \in Verdict, r.case # 0,
         r.xml[r.case] = <<>>
  PROVE  LET e == WriteVerdict(r, v)
         IN  /\ Sound(t, e) /\ Same(r, e, {"path", "xml", "mem"})
             /\ e.mem = [r.mem EXCEPT ![r.case] = v]
             /\ \A d \in t.case \ {r.case} : e.xml[d] = r.xml[d]
<1> DEFINE c == r.case
           b == [r EXCEPT !.mem[c] = v]
           e == XmlVerdict(b, v)
           s == StdioClose(b)
<1>1. Written(t, r) /\ Nested(t, r) /\ DOMAIN r = RFields /\ c \in t.case
  BY DEF Sound, Written
<1>2. WriteVerdict(r, v) = e
  BY DEF WriteVerdict
<1>3. Same(r, b, {"mem"}) /\ b.mem = [r.mem EXCEPT ![c] = v]
  BY <1>1 DEF Same, RFields
<1> HIDE DEF b
<1>4. b.mem \in [t.case -> Verdict \cup {ABSENT}] /\ b.case = c /\ b.xml = r.xml
  <2>1. r.mem \in [t.case -> Verdict \cup {ABSENT}]
    BY <1>1 DEF Written
  <2> QED BY <1>3, <2>1 DEF Same, RFields
<1>5. Written(t, b)
  BY <1>1, <1>3, <1>4 DEF Written, Same, RFields
<1>6. Elements(t, b) /\ b.open = r.open /\ b.cur = r.cur /\ DOMAIN b = RFields
  BY <1>1, <1>3 DEF Nested, Elements, Trunk, Same, RFields
<1>7. CASE ~ r.open
  <2>1. e = b
    BY <1>6, <1>7 DEF XmlVerdict
  <2>2. Judged(t, b)
    <3> SUFFICES ASSUME NEW d \in t.case
                 PROVE  Len(b.xml[d]) <= 1 /\ (b.xml[d] # <<>> => b.mem[d] = b.xml[d][1])
      BY DEF Judged
    <3>1. d # c => b.mem[d] = r.mem[d]
      BY <1>1, <1>3 DEF Written
    <3> QED BY <1>1, <1>4, <3>1 DEF Nested, Judged
  <2>3. Nested(t, b)
    BY <1>1, <1>3, <1>6, <2>2 DEF Nested, LogsOnce, Same, RFields
  <2> QED BY <1>2, <1>3, <1>4, <1>5, <2>1, <2>3 DEF Sound, Same, RFields
<1>8. CASE r.open
  <2>1. c = r.cur /\ b.cur = c /\ c # 0
    BY <1>1, <1>6, <1>8 DEF Nested
  <2>2. Same(b, s, {"path"}) /\ s.path = Trunk(t, b)
    BY <1>5, <1>6, <1>8, CloseOf
  <2>3. Trunk(t, b) \in Seq(Node(t)) /\ Trunk(t, b) # <<>> /\ Last(Trunk(t, b)) = c
    BY <1>5, <2>1, TrunkOf DEF Written
  <2>4. s.cur = c /\ s.xml = r.xml /\ DOMAIN s = RFields
    BY <1>4, <2>1, <2>2 DEF Same, RFields
  <2>5. e = [s EXCEPT !.xml[s.cur] = Append(@, v)]
    BY <1>6, <1>8, <2>1, <2>2, <2>3, <2>4 DEF XmlVerdict
  <2> HIDE DEF e, s
  <2>6. r.xml \in [t.case -> Seq(Verdict)] /\ Append(<<>>, v) = <<v>> /\ <<v>> \in Seq(Verdict)
    BY <1>1 DEF Written
  <2>7. /\ Same(s, e, {"xml"}) /\ e.xml = [r.xml EXCEPT ![c] = <<v>>]
    BY <1>1, <2>4, <2>5, <2>6 DEF Same, RFields
  <2>8. /\ Same(r, e, {"path", "xml", "mem"}) /\ e.path = Trunk(t, b) /\ e.cur = c
        /\ e.mem = b.mem
    BY <1>3, <1>6, <2>1, <2>2, <2>4, <2>7 DEF Same, RFields
  <2>9. Trunk(t, e) = Trunk(t, b)
    BY <2>1, <2>8 DEF Trunk
  <2>10. Written(t, e)
    <3>1. e.xml \in [t.case -> Seq(Verdict)]
      BY <1>1, <2>6, <2>7
    <3>2. e.path \in Seq(Node(t) \cup {STDIO})
      BY <2>3, <2>8
    <3> QED BY <1>1, <1>4, <2>8, <3>1, <3>2 DEF Written, Same, RFields
  <2>11. Judged(t, e)
    <3> SUFFICES ASSUME NEW d \in t.case
                 PROVE  Len(e.xml[d]) <= 1 /\ (e.xml[d] # <<>> => e.mem[d] = e.xml[d][1])
      BY DEF Judged
    <3>1. CASE d = c
      <4>1. e.xml[d] = <<v>> /\ e.mem[d] = v
        BY <1>1, <1>3, <2>6, <2>7, <2>8, <3>1 DEF Written
      <4> QED BY <4>1
    <3>2. CASE d # c
      <4>1. e.xml[d] = r.xml[d]
        BY <2>6, <2>7, <3>2
      <4>2. e.mem[d] = r.mem[d]
        BY <1>1, <1>3, <2>8, <3>2 DEF Written
      <4> QED BY <1>1, <4>1, <4>2 DEF Nested, Judged
    <3> QED BY <3>1, <3>2
  <2>12. e.open = r.open /\ Elements(t, e)
    BY <1>8, <2>8, <2>9 DEF Elements, Same, RFields
  <2>13. Nested(t, e)
    BY <1>1, <2>8, <2>11, <2>12 DEF Nested, LogsOnce, Same, RFields
  <2>14. \A d \in t.case \ {c} : e.xml[d] = r.xml[d]
    BY <2>6, <2>7
  <2> QED BY <1>2, <1>3, <2>8, <2>10, <2>13, <2>14 DEF Sound, e
<1> QED BY <1>7, <1>8

LEMMA WriteCloseOf ==
  ASSUME NEW t, IsTree(t), NEW r, Sound(t, r)
  PROVE  LET e == WriteClose(t, r)
         IN  Sound(t, e) /\ Same(r, e, {"open", "cur", "path"}) /\ ~ e.open
<1>1. Written(t, r) /\ Nested(t, r) /\ DOMAIN r = RFields
  BY DEF Sound, Written
<1>2. CASE ~ r.open
  <2>1. WriteClose(t, r) = r
    BY <1>2 DEF WriteClose
  <2> QED BY <1>1, <1>2, <2>1 DEF Same, Sound
<1>3. CASE r.open
  <2> DEFINE i == r.cur
             s == StdioClose(r)
             nodes == IF i = 0 THEN <<1>> ELSE <<i>> \o Above(t, i)
             a == EndAll(s, nodes)
             e == [a EXCEPT !.open = FALSE, !.cur = 0]
             S == Node(t)
             p == <<>>
  <2>1. WriteClose(t, r) = e
    BY <1>3 DEF WriteClose
  <2>2. Same(r, s, {"path"}) /\ s.path = Trunk(t, r)
    BY <1>1, <1>3, CloseOf DEF Nested
  <2>3. i \in t.case \cup {0} /\ 0 \notin S /\ 1 \in S
    <3>1. 0 \notin S /\ 1 \in S
      BY NodesOf
    <3> QED BY <1>1, <3>1 DEF Written
  <2>4. nodes \in Seq(S) /\ Trunk(t, r) = Reverse(nodes)
    <3>1. CASE i = 0
      <4>1. Reverse(<<1>>) = <<1>>
        BY DEF Reverse
      <4>2. <<1>> \in Seq(S)
        BY <2>3
      <4> QED BY <3>1, <4>1, <4>2 DEF Trunk
    <3>2. CASE i # 0
      <4>1. i \in S
        BY <2>3, <3>2, NodesOf
      <4>2. Above(t, i) \in Seq(S)
        BY <4>1, ChainOf DEF ChainAt
      <4>3. Reverse(<<i>> \o Above(t, i)) = Append(Reverse(Above(t, i)), i)
        BY <4>1, <4>2, ReverseOf
      <4>4. <<i>> \o Above(t, i) \in Seq(S)
        BY <4>1, <4>2, PushOf
      <4> QED BY <3>2, <4>3, <4>4 DEF Trunk, Line
    <3> QED BY <3>1, <3>2
  <2>5. Trunk(t, r) \in Seq(S)
    BY <2>3, TrunkOf
  <2> HIDE DEF nodes, s, S
  <2>6. Holds(s, p, nodes)
    <3>1. p \o Trunk(t, r) = Trunk(t, r)
      BY <2>5, AloneOf
    <3> QED BY <2>2, <2>4, <3>1 DEF Holds
  <2>7. nodes \in Seq(S \ {STDIO}) /\ p \in Seq(S)
    <3>1. S \ {STDIO} = S
      BY <2>3 DEF STDIO
    <3> QED BY <2>4, <3>1
  <2>8. DOMAIN s = RFields
    BY <2>2 DEF Same
  <2>9. Same(s, a, {"path"}) /\ a.path = p
    <3> HIDE DEF p
    <3> QED BY <2>6, <2>7, <2>8, EndedOf
  <2> HIDE DEF a, p
  <2>10. /\ Same(r, e, {"open", "cur", "path"}) /\ e.open = FALSE /\ e.cur = 0
         /\ e.path = <<>>
    BY <2>2, <2>9 DEF Same, RFields, p
  <2> HIDE DEF e
  <2>11. <<>> \in Seq(Node(t) \cup {STDIO})
    BY EmptyOf
  <2>12. Written(t, e)
    BY <1>1, <2>10, <2>11 DEF Written, Same, RFields
  <2>13. Nested(t, e)
    BY <1>1, <2>10 DEF Nested, Elements, Judged, LogsOnce, Same, RFields
  <2> QED BY <2>1, <2>10, <2>12, <2>13 DEF Sound
<1> QED BY <1>2, <1>3
=============================================================================
