---------------------------- MODULE Runner_proofs ----------------------------
(***************************************************************************)
(* Proofs about Runner, for every set of documents that are well formed    *)
(* (ShapesAssumption), whatever their blocks add, inject, walk or throw.   *)
(***************************************************************************)
EXTENDS Runner, SequenceTheorems, WellFoundedInduction, TLAPS

-----------------------------------------------------------------------------
(* Induction: a set of naturals has a least element.                       *)
LEMMA LeastOf ==
    ASSUME NEW T \in SUBSET Nat, T # {}
    PROVE  \E m \in T : \A k \in T : m <= k
<1> DEFINE R == OpToRel(<, Nat)
<1>1. IsWellFoundedOn(R, Nat)
  BY NatLessThanWellFounded
<1>2. \E x \in T : \A y \in T : ~ (<<y, x>> \in R)
  <2> HIDE DEF R
  <2> QED BY <1>1, WFMin
<1>3. PICK x \in T : \A y \in T : ~ (<<y, x>> \in R)
  BY <1>2
<1>4. ASSUME NEW y \in T PROVE x <= y
  <2>1. ~ (<<y, x>> \in R)
    BY <1>3
  <2> QED BY <2>1 DEF OpToRel
<1> QED BY <1>4

(* A bounded set of naturals has a greatest one, which is its Max.         *)
LEMMA MaxOf ==
    ASSUME NEW n \in Nat, NEW T \in SUBSET (0..n), T # {}
    PROVE  Max(T) \in T
<1> DEFINE D == {n - i : i \in T}
<1>1. D \in SUBSET Nat /\ D # {}
  <2>1. ASSUME NEW i \in T PROVE n - i \in Nat
    <3>1. i \in 0..n
      OBVIOUS
    <3> QED BY <3>1
  <2> QED BY <2>1
<1>2. PICK m \in D : \A k \in D : m <= k
  BY <1>1, LeastOf
<1>3. PICK x \in T : m = n - x
  BY <1>2
<1>4. ASSUME NEW y \in T PROVE x >= y
  <2>1. n - y \in D /\ y \in 0..n /\ x \in 0..n
    OBVIOUS
  <2>2. n - x <= n - y
    BY <1>2, <1>3, <2>1
  <2> QED BY <2>1, <2>2
<1>5. \E a \in T : \A b \in T : a >= b
  BY <1>4
<1> QED BY <1>5 DEF Max

(* What Append does to a path.                                             *)
LEMMA Appended ==
    ASSUME NEW S, NEW s \in Seq(S), NEW e \in S
    PROVE  /\ Append(s, e) \in Seq(S) /\ Append(s, e) # <<>>
           /\ Len(Append(s, e)) = Len(s) + 1
           /\ Front(Append(s, e)) = s /\ Last(Append(s, e)) = e
           /\ \A i \in 0..Len(s) : SubSeq(Append(s, e), 1, i) = SubSeq(s, 1, i)
           /\ SubSeq(Append(s, e), 1, Len(s) + 1) = Append(s, e)
<1>1. /\ Append(s, e) \in Seq(S) /\ Append(s, e) # <<>> /\ Len(Append(s, e)) = Len(s) + 1
      /\ \A i \in 1..Len(s) : Append(s, e)[i] = s[i]
      /\ Append(s, e)[Len(s) + 1] = e
  BY AppendProperties
<1>2. ASSUME NEW i \in 0..Len(s) PROVE SubSeq(Append(s, e), 1, i) = SubSeq(s, 1, i)
  <2>1. SubSeq(Append(s, e), 1, i) \in Seq(S) /\ Len(SubSeq(Append(s, e), 1, i)) = i
        /\ \A j \in 1..i : SubSeq(Append(s, e), 1, i)[j] = Append(s, e)[j]
    BY <1>1
  <2>2. SubSeq(s, 1, i) \in Seq(S) /\ Len(SubSeq(s, 1, i)) = i
        /\ \A j \in 1..i : SubSeq(s, 1, i)[j] = s[j]
    OBVIOUS
  <2> QED BY <1>1, <2>1, <2>2, SeqEqual
<1>3. SubSeq(s, 1, Len(s)) = s
  BY SubSeqFull
<1>4. SubSeq(Append(s, e), 1, Len(s) + 1) = Append(s, e)
  BY <1>1, SubSeqFull
<1> QED BY <1>1, <1>2, <1>3, <1>4 DEF Front, Last

(* A sequence that is not empty is its front with its last put back.       *)
LEMMA Split ==
    ASSUME NEW S, NEW s \in Seq(S), s # <<>>
    PROVE  /\ Front(s) \in Seq(S) /\ Last(s) \in S
           /\ Append(Front(s), Last(s)) = s
           /\ Len(Front(s)) = Len(s) - 1 /\ Len(s) \in Nat \ {0}
<1>1. PICK f \in Seq(S), e \in S : s = Append(f, e)
  BY SequenceEmptyOrAppend
<1>2. Front(s) = f /\ Last(s) = e /\ Len(s) = Len(f) + 1
  BY <1>1, Appended
<1> QED BY <1>1, <1>2

-----------------------------------------------------------------------------
(* The tree.                                                               *)

\* u is the tree t after some calls of tr_get: nodes stay, child lists only grow.
Extends(t, u) ==
    /\ DOMAIN t \subseteq DOMAIN u
    /\ \A n \in DOMAIN t :
          /\ Len(t[n]) <= Len(u[n])
          /\ \A i \in 1..Len(t[n]) : u[n][i] = t[n][i]

LEMMA ExtendsItself ==
    ASSUME NEW K, NEW t, TreeOK(t, K)
    PROVE  Extends(t, t)
BY DEF Extends, TreeOK

LEMMA ExtendsTwice ==
    ASSUME NEW K, NEW t, TreeOK(t, K), NEW u, TreeOK(u, K), NEW v, TreeOK(v, K),
           Extends(t, u), Extends(u, v)
    PROVE  Extends(t, v)
<1>1. ASSUME NEW n \in DOMAIN t
      PROVE  n \in DOMAIN u /\ Len(t[n]) \in Nat /\ Len(u[n]) \in Nat /\ Len(v[n]) \in Nat
  BY DEF Extends, TreeOK
<1> QED BY <1>1 DEF Extends

(* tr_get keeps a tree a tree, extends it, and the child is there after it. *)
LEMMA GrownTree ==
    ASSUME NEW K, NEW t, TreeOK(t, K), NEW p \in DOMAIN t, NEW k \in K
    PROVE  /\ TreeOK(Grown(t, p, k), K)
           /\ Extends(t, Grown(t, p, k))
           /\ Append(p, k) \in DOMAIN Grown(t, p, k)
<1> DEFINE q == Append(p, k)
           g == Grown(t, p, k)
<1>1. CASE Contains(t[p], k)
  <2>1. g = t
    BY <1>1 DEF Grown
  <2>2. q \in DOMAIN t
    BY <1>1 DEF Contains, TreeOK
  <2> QED BY <2>1, <2>2, ExtendsItself
<1>2. CASE ~Contains(t[p], k)
  <2>1. g = [m \in DOMAIN t \cup {q} |-> CASE m = p -> Append(t[p], k)
                                           [] m = q -> <<>> [] OTHER -> t[m]]
    BY <1>2 DEF Grown
  <2>2. p \in Seq(K) /\ t[p] \in Seq(K)
    BY DEF TreeOK
  <2>3. /\ q \in Seq(K) /\ q # <<>> /\ Front(q) = p /\ Last(q) = k /\ Len(q) = Len(p) + 1
        /\ \A i \in 0..Len(p) : SubSeq(q, 1, i) = SubSeq(p, 1, i)
        /\ SubSeq(q, 1, Len(p) + 1) = q
    BY <2>2, Appended
  <2>4. q \notin DOMAIN t
    BY <1>2, <2>3 DEF TreeOK
  <2>5. /\ Append(t[p], k) \in Seq(K) /\ Len(Append(t[p], k)) = Len(t[p]) + 1
        /\ \A i \in 1..Len(t[p]) : Append(t[p], k)[i] = t[p][i]
        /\ Append(t[p], k)[Len(t[p]) + 1] = k
    BY <2>2, AppendProperties
  <2>6. \A i \in 1..Len(t[p]) : t[p][i] # k
    BY <1>2 DEF Contains
  <2> HIDE DEF q, g
  <2>7. /\ DOMAIN g = DOMAIN t \cup {q}
        /\ g[p] = Append(t[p], k) /\ g[q] = <<>>
        /\ \A m \in DOMAIN t \ {p} : g[m] = t[m]
    BY <2>1, <2>4
  <2>8. <<>> \in DOMAIN g /\ g = [n \in DOMAIN g |-> g[n]]
    BY <2>1, <2>7 DEF TreeOK
  <2>9. ASSUME NEW n \in DOMAIN g
        PROVE  /\ n \in Seq(K) /\ g[n] \in Seq(K)
               /\ \A i, j \in 1..Len(g[n]) : g[n][i] = g[n][j] => i = j
               /\ \A i \in 1..Len(g[n]) : Append(n, g[n][i]) \in DOMAIN g
               /\ \A i \in 0..Len(n) : SubSeq(n, 1, i) \in DOMAIN g
               /\ n # <<>> => Contains(g[Front(n)], Last(n))
    <3>1. CASE n = q
      <4>1. n \in Seq(K) /\ g[n] \in Seq(K) /\ Len(g[n]) = 0
        BY <2>3, <2>7, <3>1
      <4>2. ASSUME NEW i \in 0..Len(n) PROVE SubSeq(n, 1, i) \in DOMAIN g
        <5>1. CASE i \in 0..Len(p)
          BY <2>3, <2>7, <3>1, <5>1 DEF TreeOK
        <5>2. CASE i = Len(p) + 1
          BY <2>3, <2>7, <3>1, <5>2
        <5>3. i \in 0..Len(p) \/ i = Len(p) + 1
          BY <2>2, <2>3, <3>1
        <5> QED BY <5>1, <5>2, <5>3
      <4>3. Contains(g[Front(n)], Last(n))
        <5>1. Len(t[p]) + 1 \in 1..Len(g[p])
          BY <2>2, <2>5, <2>7
        <5> QED BY <2>3, <2>5, <2>7, <3>1, <5>1 DEF Contains
      <4> QED BY <4>1, <4>2, <4>3
    <3>2. CASE n = p
      <4>1. \A i, j \in 1..Len(g[n]) : g[n][i] = g[n][j] => i = j
        <5> SUFFICES ASSUME NEW i \in 1..Len(g[n]), NEW j \in 1..Len(g[n]), g[n][i] = g[n][j]
                     PROVE  i = j
          OBVIOUS
        <5>1. Len(t[p]) \in Nat
          BY <2>2
        <5>2. (i \in 1..Len(t[p]) \/ i = Len(t[p]) + 1) /\ (j \in 1..Len(t[p]) \/ j = Len(t[p]) + 1)
          BY <2>5, <2>7, <3>2, <5>1
        <5>3. CASE i \in 1..Len(t[p]) /\ j \in 1..Len(t[p])
          <6>1. t[p][i] = t[p][j]
            BY <2>5, <2>7, <3>2, <5>3
          <6>2. \A a, b \in 1..Len(t[p]) : t[p][a] = t[p][b] => a = b
            BY DEF TreeOK
          <6> QED BY <5>3, <6>1, <6>2
        <5> QED BY <2>5, <2>6, <2>7, <3>2, <5>2, <5>3
      <4>2. ASSUME NEW i \in 1..Len(g[n]) PROVE Append(n, g[n][i]) \in DOMAIN g
        <5>1. i \in 1..Len(t[p]) \/ i = Len(t[p]) + 1
          BY <2>2, <2>5, <2>7, <3>2
        <5>2. CASE i \in 1..Len(t[p])
          BY <2>5, <2>7, <3>2, <5>2 DEF TreeOK
        <5>3. CASE i = Len(t[p]) + 1
          BY <2>5, <2>7, <3>2, <5>3 DEF q
        <5> QED BY <5>1, <5>2, <5>3
      <4>3. \A i \in 0..Len(n) : SubSeq(n, 1, i) \in DOMAIN g
        BY <2>7, <3>2 DEF TreeOK
      <4>4. n # <<>> => Contains(g[Front(n)], Last(n))
        <5> SUFFICES ASSUME n # <<>> PROVE Contains(g[Front(n)], Last(n))
          OBVIOUS
        <5>1. Contains(t[Front(n)], Last(n)) /\ Len(Front(n)) = Len(n) - 1 /\ Len(n) \in Nat
          BY <2>2, <3>2, Split DEF TreeOK
        <5>2. Front(n) \in DOMAIN t
          <6>1. Len(n) - 1 \in 0..Len(n)
            BY <2>2, <3>2, Split
          <6> QED BY <3>2, <6>1 DEF TreeOK, Front
        <5>3. Front(n) # p
          BY <3>2, <5>1
        <5> QED BY <2>7, <5>1, <5>2, <5>3
      <4> QED BY <2>2, <2>5, <2>7, <3>2, <4>1, <4>2, <4>3, <4>4
    <3>3. CASE n \in DOMAIN t \ {p}
      <4>1. n # <<>> => Contains(g[Front(n)], Last(n))
        <5> SUFFICES ASSUME n # <<>> PROVE Contains(g[Front(n)], Last(n))
          OBVIOUS
        <5>1. Contains(t[Front(n)], Last(n)) /\ n \in Seq(K)
          BY <3>3 DEF TreeOK
        <5>2. Front(n) \in DOMAIN t
          <6>1. Len(n) - 1 \in 0..Len(n)
            BY <5>1, Split
          <6> QED BY <3>3, <6>1 DEF TreeOK, Front
        <5>3. CASE Front(n) # p
          BY <2>7, <5>1, <5>2, <5>3
        <5>4. CASE Front(n) = p
          <6>1. PICK i \in 1..Len(t[p]) : t[p][i] = Last(n)
            BY <5>1, <5>4 DEF Contains
          <6>2. i \in 1..Len(g[p]) /\ g[p][i] = Last(n)
            BY <2>2, <2>5, <2>7, <6>1
          <6> QED BY <5>4, <6>2 DEF Contains
        <5> QED BY <5>3, <5>4
      <4>2. g[n] = t[n]
        BY <2>7, <3>3
      <4>3. /\ n \in Seq(K) /\ g[n] \in Seq(K)
            /\ \A i, j \in 1..Len(g[n]) : g[n][i] = g[n][j] => i = j
            /\ \A i \in 1..Len(g[n]) : Append(n, g[n][i]) \in DOMAIN g
            /\ \A i \in 0..Len(n) : SubSeq(n, 1, i) \in DOMAIN g
        BY <2>7, <3>3, <4>2 DEF TreeOK
      <4> QED BY <4>1, <4>3
    <3> QED BY <2>7, <3>1, <3>2, <3>3
  <2>10. TreeOK(g, K)
    BY <2>8, <2>9 DEF TreeOK
  <2>11. Extends(t, g)
    <3>1. ASSUME NEW n \in DOMAIN t
          PROVE  Len(t[n]) <= Len(g[n]) /\ \A i \in 1..Len(t[n]) : g[n][i] = t[n][i]
      <4>1. Len(t[n]) \in Nat
        BY DEF TreeOK
      <4> QED BY <2>5, <2>7, <4>1
    <3> QED BY <2>7, <3>1 DEF Extends
  <2> QED BY <2>7, <2>10, <2>11 DEF g, q
<1> QED BY <1>1, <1>2

(* The nearest node of a type is a node.                                   *)
LEMMA NearestIsNode ==
    ASSUME NEW n \in Nodes, TreeOK(child_list, DOMAIN shape.block), NEW type
    PROVE  TypeFilterSearch(n, type) \in Nodes \cup {Null}
<1> DEFINE hit == {i \in 0..Len(n) : Block(SubSeq(n, 1, i)).type = type}
<1>1. Len(n) \in Nat
  BY DEF TreeOK, Nodes
<1>2. CASE hit # {}
  <2>1. Max(hit) \in hit
    BY <1>1, <1>2, MaxOf
  <2>2. SubSeq(n, 1, Max(hit)) \in Nodes
    BY <2>1 DEF TreeOK, Nodes
  <2> QED BY <1>2, <2>2 DEF TypeFilterSearch
<1> QED BY <1>2 DEF TypeFilterSearch

-----------------------------------------------------------------------------
(* The folder of a node.                                                   *)

\* f joins the folder segments of the first m keys of n.
Joins(s, n, f, m) ==
    f = [i \in 0..m |-> IF i = 0 THEN <<>>
                        ELSE f[i - 1] \o Segment(s, SubSeq(n, 1, i - 1), n[i])]

LEMMA JoinExists ==
    ASSUME NEW s, NEW n, NEW N \in Nat
    PROVE  \E f : Joins(s, n, f, N)
<1> DEFINE T == {m \in Nat : ~ \E f : Joins(s, n, f, m)}
<1>1. ASSUME T # {} PROVE FALSE
  <2>1. T \in SUBSET Nat
    OBVIOUS
  <2>2. PICK m \in T : \A k \in T : m <= k
    BY <1>1, <2>1, LeastOf
  <2>3. CASE m = 0
    <3> DEFINE f == [i \in 0..0 |-> <<>>]
    <3>1. Joins(s, n, f, 0)
      BY DEF Joins
    <3> QED BY <2>3, <3>1
  <2>4. CASE m # 0
    <3>1. m - 1 \in Nat /\ m - 1 \notin T
      BY <2>2, <2>4
    <3>2. PICK g : Joins(s, n, g, m - 1)
      BY <3>1
    <3> DEFINE f == [i \in 0..m |-> IF i = 0 THEN <<>>
                                 ELSE g[i - 1] \o Segment(s, SubSeq(n, 1, i - 1), n[i])]
    <3>3. ASSUME NEW i \in 0..(m - 1) PROVE f[i] = g[i]
      <4>1. i \in 0..m
        BY <3>1
      <4>2. f[i] = IF i = 0 THEN <<>> ELSE g[i - 1] \o Segment(s, SubSeq(n, 1, i - 1), n[i])
        BY <4>1
      <4>3. g[i] = IF i = 0 THEN <<>> ELSE g[i - 1] \o Segment(s, SubSeq(n, 1, i - 1), n[i])
        BY <3>2 DEF Joins
      <4> QED BY <4>2, <4>3
    <3>4. ASSUME NEW i \in 0..m, i # 0 PROVE f[i - 1] = g[i - 1]
      <4>1. i - 1 \in 0..(m - 1)
        BY <3>1, <3>4
      <4> QED BY <3>3, <4>1
    <3>5. Joins(s, n, f, m)
      <4>1. f = [i \in 0..m |-> IF i = 0 THEN <<>>
                             ELSE f[i - 1] \o Segment(s, SubSeq(n, 1, i - 1), n[i])]
        <5> HIDE DEF f
        <5>1. \A i \in 0..m : (IF i = 0 THEN <<>>
                               ELSE g[i - 1] \o Segment(s, SubSeq(n, 1, i - 1), n[i])) =
                              (IF i = 0 THEN <<>>
                               ELSE f[i - 1] \o Segment(s, SubSeq(n, 1, i - 1), n[i]))
          BY <3>4
        <5> QED BY <5>1 DEF f
      <4> QED BY <4>1 DEF Joins
    <3> QED BY <2>2, <3>5
  <2> QED BY <2>3, <2>4
<1> QED BY <1>1

LEMMA FolderJoins ==
    ASSUME NEW s, NEW n, Len(n) \in Nat
    PROVE  \E f : Joins(s, n, f, Len(n)) /\ FolderIn(s, n) = f[Len(n)]
<1>1. \E f : Joins(s, n, f, Len(n))
  BY JoinExists
<1> DEFINE f == CHOOSE g : Joins(s, n, g, Len(n))
<1>2. Joins(s, n, f, Len(n))
  BY <1>1
<1>3. FolderIn(s, n) = f[Len(n)]
  BY DEF FolderIn, Joins
<1> QED BY <1>2, <1>3

LEMMA SegmentType ==
    ASSUME NEW K, NEW s, s.top \in K, NEW n \in Seq(K), NEW i \in 1..Len(n)
    PROVE  Segment(s, SubSeq(n, 1, i - 1), n[i]) \in Seq(K)
<1> DEFINE p == SubSeq(n, 1, i - 1)
<1>1. p \in Seq(K) /\ n[i] \in K
  OBVIOUS
<1> HIDE DEF p
<1>2. KeyIn(s, p) \in K
  <2>1. CASE p = <<>>
    BY <2>1 DEF KeyIn, DocRoot
  <2>2. CASE p # <<>>
    BY <1>1, <2>2, Split DEF KeyIn, DocRoot
  <2> QED BY <2>1, <2>2
<1>3. <<>> \in Seq(K) /\ <<KeyIn(s, p)>> \in Seq(K) /\ <<n[i]>> \in Seq(K)
  BY <1>1, <1>2
<1>4. Segment(s, p, n[i]) \in Seq(K)
  BY <1>3 DEF Segment
<1> QED BY <1>4 DEF p

LEMMA JoinType ==
    ASSUME NEW K, NEW s, s.top \in K, NEW n \in Seq(K), NEW f, Joins(s, n, f, Len(n))
    PROVE  \A i \in 0..Len(n) : f[i] \in Seq(K)
<1> DEFINE T == {i \in 0..Len(n) : f[i] \notin Seq(K)}
<1>1. ASSUME T # {} PROVE FALSE
  <2>1. T \in SUBSET Nat
    OBVIOUS
  <2>2. PICK m \in T : \A k \in T : m <= k
    BY <1>1, <2>1, LeastOf
  <2>3. m \in 0..Len(n) /\ f[m] \notin Seq(K)
    BY <2>2
  <2>4. f[m] = IF m = 0 THEN <<>> ELSE f[m - 1] \o Segment(s, SubSeq(n, 1, m - 1), n[m])
    BY <2>3 DEF Joins
  <2>5. m # 0
    BY <2>3, <2>4
  <2>6. m - 1 \in 0..Len(n) /\ m - 1 \notin T /\ m \in 1..Len(n)
    <3>1. m - 1 \in 0..Len(n) /\ ~(m <= m - 1) /\ m \in 1..Len(n)
      BY <2>3, <2>5
    <3> QED BY <2>2, <3>1
  <2>7. f[m - 1] \in Seq(K)
    BY <2>6
  <2>8. Segment(s, SubSeq(n, 1, m - 1), n[m]) \in Seq(K)
    BY <2>6, SegmentType
  <2>9. f[m - 1] \o Segment(s, SubSeq(n, 1, m - 1), n[m]) \in Seq(K)
    BY <2>7, <2>8, ConcatProperties
  <2> QED BY <2>3, <2>4, <2>5, <2>9
<1> QED BY <1>1

(* A child is in the folder of its parent, or one below it.                *)
LEMMA FolderOfKid ==
    ASSUME NEW K, NEW s, s.top \in K, NEW n \in Seq(K), NEW k \in K
    PROVE  /\ FolderIn(s, n) \in Seq(K)
           /\ FolderIn(s, Append(n, k)) = FolderIn(s, n) \o Segment(s, n, k)
<1> DEFINE q == Append(n, k)
           N == Len(n)
<1>1. /\ q \in Seq(K) /\ Len(q) = N + 1 /\ N \in Nat
      /\ \A i \in 0..N : SubSeq(q, 1, i) = SubSeq(n, 1, i)
      /\ \A i \in 1..N : q[i] = n[i]
      /\ q[N + 1] = k
  BY Appended, AppendProperties
<1>2. SubSeq(n, 1, N) = n
  BY SubSeqFull
<1> HIDE DEF q
<1>3. PICK f : Joins(s, n, f, N) /\ FolderIn(s, n) = f[N]
  BY <1>1, FolderJoins
<1>4. PICK g : Joins(s, q, g, N + 1) /\ FolderIn(s, q) = g[N + 1]
  BY <1>1, FolderJoins
<1>5. \A i \in 0..N : f[i] = g[i]
  <2> DEFINE T == {i \in 0..N : f[i] # g[i]}
  <2>1. ASSUME T # {} PROVE FALSE
    <3>1. T \in SUBSET Nat
      OBVIOUS
    <3>2. PICK m \in T : \A j \in T : m <= j
      BY <2>1, <3>1, LeastOf
    <3>3. m \in 0..N /\ f[m] # g[m]
      BY <3>2
    <3>4. f[m] = IF m = 0 THEN <<>> ELSE f[m - 1] \o Segment(s, SubSeq(n, 1, m - 1), n[m])
      BY <1>3, <3>3 DEF Joins
    <3>5. g[m] = IF m = 0 THEN <<>> ELSE g[m - 1] \o Segment(s, SubSeq(q, 1, m - 1), q[m])
      <4>1. m \in 0..(N + 1)
        BY <1>1, <3>3
      <4> QED BY <1>4, <4>1 DEF Joins
    <3>6. m # 0
      BY <3>3, <3>4, <3>5
    <3>7. m - 1 \in 0..N /\ m \in 1..N /\ ~(m <= m - 1)
      BY <1>1, <3>3, <3>6
    <3>8. f[m - 1] = g[m - 1]
      BY <3>2, <3>7
    <3>9. SubSeq(q, 1, m - 1) = SubSeq(n, 1, m - 1) /\ q[m] = n[m]
      BY <1>1, <3>7
    <3> QED BY <3>3, <3>4, <3>5, <3>6, <3>8, <3>9
  <2> QED BY <2>1
<1>6. g[N + 1] = g[N] \o Segment(s, SubSeq(q, 1, N), q[N + 1])
  <2>1. N + 1 \in 0..(N + 1) /\ N + 1 # 0 /\ (N + 1) - 1 = N
    BY <1>1
  <2>2. g[N + 1] = IF N + 1 = 0 THEN <<>>
                   ELSE g[(N + 1) - 1] \o Segment(s, SubSeq(q, 1, (N + 1) - 1), q[N + 1])
    BY <1>4, <2>1 DEF Joins
  <2> QED BY <2>1, <2>2
<1>7. N \in 0..N
  BY <1>1
<1>8. f[N] \in Seq(K)
  BY <1>3, <1>7, JoinType
<1>9. SubSeq(q, 1, N) = n
  BY <1>1, <1>2, <1>7
<1>10. FolderIn(s, q) = FolderIn(s, n) \o Segment(s, n, k)
  BY <1>1, <1>3, <1>4, <1>5, <1>6, <1>7, <1>9
<1> QED BY <1>3, <1>8, <1>10 DEF q

-----------------------------------------------------------------------------
(* What a stack of frames says of the two other stacks.  Every frame that  *)
(* is between a root_push and its root_pop holds an entry of the root      *)
(* stack, every frame between a folder_push and its folder_pop one of the  *)
(* folder stack: the stacks with their current value on top are what the   *)
(* frames, from the bottom up, make of <<Null>> and of <<codegen_path>>.   *)

Ctx == [tree |-> child_list, shape |-> shape, phase |-> phase]

Keys(c)     == DOMAIN c.shape.block
Roots(c)    == DOMAIN c.tree \cup {Null}
Kinds       == {"walk", "only", "mono", "each", "fn"}
FrameSet(c) == [k : Kinds, n : DOMAIN c.tree, pc : Nat, mark : Nat]
Bottom      == Frame("go", <<>>, 0)
RootLogs(c)   == Seq(Roots(c)) \ {<<>>}
FolderLogs(c) == Seq(Seq(Keys(c))) \ {<<>>}
NewFolderLog  == << <<>> >>

\* The node walks its children in its handler, by the operation at LoopPc.
SelfWalks(c, n) == \/ TypeIn(c.shape, n) \in {"folder_wrap", "monorepo"}
                   \/ c.phase \in c.shape.block[KeyIn(c.shape, n)].walks
LoopPc(c, n)    == IF TypeIn(c.shape, n) = "folder_wrap" THEN 2 ELSE 1

FrameOK(c, f) ==
    /\ f \in FrameSet(c)
    /\ f.k = "only" => f.pc > 0 /\ TypeIn(c.shape, f.n) # "monorepo"
    /\ f.k = "mono" => f.mark \in {0, 1} /\ (f.pc = 0 => f.mark = 0)
    /\ f.k = "each" => /\ f.pc > 0 /\ TypeIn(c.shape, f.n) = "monorepo"
                       /\ f.mark <= Len(c.tree[f.n])
                       /\ c.phase # "nodegen" => f.mark = Len(c.tree[f.n])
    /\ f.k \in {"walk", "mono"} /\ f.pc > 0 /\ c.phase # "nodegen"
       /\ TypeIn(c.shape, f.n) \in {"folder_wrap", "monorepo"} => f.pc > Len(c.tree[f.n])

\* f is the frame of the child the loop of b started last.
KidFrame(c, b, f) == /\ b.pc - 1 \in 1..Len(c.tree[b.n])
                     /\ f.n = Append(b.n, c.tree[b.n][b.pc - 1])

\* f may stand on b.
Link(c, b, f) ==
    \/ b = Bottom /\ f.k = "walk" /\ f.n = <<>>
    \/ b.k \in {"walk", "mono"} /\ b.pc = 0 /\ f.k = "fn" /\ f.n = b.n
    \/ b.k = "fn" /\ f.k = "fn" /\ c.phase = "nodegen"
    \/ /\ b.k = "fn" /\ f.k \in {"only", "each"} /\ f.n = b.n
       /\ c.phase # "nodegen" => SelfWalks(c, b.n) /\ b.pc = LoopPc(c, b.n) + 1
    \/ b.k \in {"walk", "only"} /\ f.k = "walk" /\ KidFrame(c, b, f)
    \/ b.k \in {"mono", "each"} /\ f.k = "mono" /\ KidFrame(c, b, f)

RootHeld(c, b, f) ==
    \/ f.k = "only"
    \/ f.k = "walk" /\ f.pc > 0 /\ c.phase # "min_deps"
    \/ f.k = "mono" /\ f.mark = 1 /\ c.phase # "min_deps"
    \/ f.k = "fn" /\ b.k = "walk"
RootOn(c, b, f, r0, r) ==
    /\ r = IF RootHeld(c, b, f) THEN Append(r0, f.n) ELSE r0
    /\ c.phase = "nodegen" /\ ~(f.k = "walk" /\ f.pc = 0) => Last(r) \in DOMAIN c.tree

InWrap(c, f) == f.k = "fn" /\ TypeIn(c.shape, f.n) = "folder_wrap" /\ f.pc \in {2, 3}
FolderHeld(c, b, f) == (f.k = "mono" /\ b.k = "each") \/ InWrap(c, f)

\* Where a frame works: the folder of its node, or the one the node wraps.
Inside(s, n) == IF TypeIn(s, n) = "folder_wrap" THEN Append(FolderIn(s, n), KeyIn(s, n))
                ELSE FolderIn(s, n)
Place(c, f)  == IF f.k = "only" \/ InWrap(c, f) THEN Inside(c.shape, f.n)
                ELSE FolderIn(c.shape, f.n)
FolderOn(c, b, f, g0, g) ==
    /\ IF FolderHeld(c, b, f) THEN \E v \in Seq(Keys(c)) : g = Append(g0, v) ELSE g = g0
    /\ c.phase \in Emitting => Last(g) = Place(c, f)

On(c, b, f, r0, g0, r, g) ==
    FrameOK(c, f) /\ Link(c, b, f) /\ RootOn(c, b, f, r0, r) /\ FolderOn(c, b, f, g0, g)

BelowOf(s) == IF s = <<>> THEN Bottom ELSE Last(s)

Stacked(c, s, r, g) ==
    /\ s \in Seq(FrameSet(c))
    /\ \E hr \in [0..Len(s) -> RootLogs(c)], hf \in [0..Len(s) -> FolderLogs(c)] :
          /\ hr[0] = <<Null>> /\ hf[0] = NewFolderLog
          /\ hr[Len(s)] = r /\ hf[Len(s)] = g
          /\ \A d \in 1..Len(s) : On(c, IF d = 1 THEN Bottom ELSE s[d - 1], s[d],
                                     hr[d - 1], hf[d - 1], hr[d], hf[d])

LEMMA StackedEmpty ==
    ASSUME NEW c, NEW r, NEW g
    PROVE  Stacked(c, <<>>, r, g) <=> r = <<Null>> /\ g = NewFolderLog
<1>1. ASSUME r = <<Null>>, g = NewFolderLog PROVE Stacked(c, <<>>, r, g)
  <2> DEFINE hr == [i \in 0..0 |-> <<Null>>]
             hf == [i \in 0..0 |-> NewFolderLog]
  <2>1. <<Null>> \in RootLogs(c) /\ NewFolderLog \in FolderLogs(c)
    <3>1. <<Null>> \in Seq(Roots(c)) /\ <<Null>> # <<>>
      BY DEF Roots
    <3>2. <<>> \in Seq(Keys(c))
      OBVIOUS
    <3>3. NewFolderLog \in Seq(Seq(Keys(c))) /\ NewFolderLog # <<>>
      BY <3>2 DEF NewFolderLog
    <3> QED BY <3>1, <3>3 DEF RootLogs, FolderLogs
  <2>2. hr \in [0..0 -> RootLogs(c)] /\ hf \in [0..0 -> FolderLogs(c)]
    BY <2>1
  <2>3. Len(<<>>) = 0 /\ <<>> \in Seq(FrameSet(c)) /\ hr[0] = r /\ hf[0] = g
    BY <1>1
  <2> HIDE DEF hr, hf
  <2> QED BY <1>1, <2>2, <2>3 DEF Stacked
<1>2. ASSUME Stacked(c, <<>>, r, g) PROVE r = <<Null>> /\ g = NewFolderLog
  BY <1>2 DEF Stacked
<1> QED BY <1>1, <1>2

LEMMA StackedTypes ==
    ASSUME NEW c, NEW s, NEW r, NEW g, Stacked(c, s, r, g)
    PROVE  s \in Seq(FrameSet(c)) /\ r \in RootLogs(c) /\ g \in FolderLogs(c)
<1>1. Len(s) \in 0..Len(s)
  BY DEF Stacked
<1> QED BY <1>1 DEF Stacked

(* A frame more.                                                           *)
LEMMA StackedPush ==
    ASSUME NEW c, NEW s, NEW r0, NEW g0, Stacked(c, s, r0, g0),
           NEW f \in FrameSet(c), NEW r \in RootLogs(c), NEW g \in FolderLogs(c),
           On(c, BelowOf(s), f, r0, g0, r, g)
    PROVE  Stacked(c, Append(s, f), r, g)
<1> DEFINE t == Append(s, f)
           N == Len(s)
<1>1. PICK hr \in [0..N -> RootLogs(c)], hf \in [0..N -> FolderLogs(c)] :
          /\ hr[0] = <<Null>> /\ hf[0] = NewFolderLog
          /\ hr[N] = r0 /\ hf[N] = g0
          /\ \A d \in 1..N : On(c, IF d = 1 THEN Bottom ELSE s[d - 1], s[d],
                                hr[d - 1], hf[d - 1], hr[d], hf[d])
  BY DEF Stacked
<1>2. s \in Seq(FrameSet(c)) /\ N \in Nat
  BY DEF Stacked
<1>3. /\ t \in Seq(FrameSet(c)) /\ Len(t) = N + 1
      /\ \A i \in 1..N : t[i] = s[i]
      /\ t[N + 1] = f
  BY <1>2, AppendProperties
<1> DEFINE jr == [i \in 0..(N + 1) |-> IF i = N + 1 THEN r ELSE hr[i]]
           jf == [i \in 0..(N + 1) |-> IF i = N + 1 THEN g ELSE hf[i]]
<1>4. jr \in [0..(N + 1) -> RootLogs(c)] /\ jf \in [0..(N + 1) -> FolderLogs(c)]
  BY <1>1, <1>2
<1>5. /\ \A i \in 0..N : jr[i] = hr[i] /\ jf[i] = hf[i]
      /\ jr[N + 1] = r /\ jf[N + 1] = g
  BY <1>2
<1> HIDE DEF jr, jf, t
<1>6. ASSUME NEW d \in 1..(N + 1)
      PROVE  On(c, IF d = 1 THEN Bottom ELSE t[d - 1], t[d], jr[d - 1], jf[d - 1], jr[d], jf[d])
  <2>1. CASE d \in 1..N
    <3>1. d \in 0..N /\ d - 1 \in 0..N /\ (d # 1 => d - 1 \in 1..N)
      BY <1>2, <2>1
    <3> QED BY <1>1, <1>3, <1>5, <2>1, <3>1
  <2>2. CASE d = N + 1
    <3>1. (IF d = 1 THEN Bottom ELSE t[d - 1]) = BelowOf(s)
      <4>1. CASE s = <<>>
        BY <1>2, <2>2, <4>1 DEF BelowOf
      <4>2. CASE s # <<>>
        BY <1>2, <1>3, <2>2, <4>2 DEF BelowOf, Last
      <4> QED BY <4>1, <4>2
    <3>2. d - 1 = N /\ N \in 0..N
      BY <1>2, <2>2
    <3> QED BY <1>1, <1>3, <1>5, <2>2, <3>1, <3>2
  <2> QED BY <1>2, <2>1, <2>2
<1>7. 0 \in 0..N
  BY <1>2
<1>8. /\ jr \in [0..Len(t) -> RootLogs(c)] /\ jf \in [0..Len(t) -> FolderLogs(c)]
      /\ jr[0] = <<Null>> /\ jf[0] = NewFolderLog
      /\ jr[Len(t)] = r /\ jf[Len(t)] = g
      /\ \A d \in 1..Len(t) : On(c, IF d = 1 THEN Bottom ELSE t[d - 1], t[d],
                                 jr[d - 1], jf[d - 1], jr[d], jf[d])
  BY <1>1, <1>3, <1>4, <1>5, <1>6, <1>7
<1>9. Stacked(c, t, r, g)
  BY <1>3, <1>8 DEF Stacked
<1> QED BY <1>9 DEF t

(* The top frame set apart.                                                *)
LEMMA StackedOpen ==
    ASSUME NEW c, NEW s, NEW r, NEW g, Stacked(c, s, r, g), s # <<>>
    PROVE  /\ s = Append(Front(s), Last(s)) /\ Last(s) \in FrameSet(c)
           /\ \E r0 \in RootLogs(c), g0 \in FolderLogs(c) :
                 /\ Stacked(c, Front(s), r0, g0)
                 /\ On(c, BelowOf(Front(s)), Last(s), r0, g0, r, g)
<1> DEFINE t == Front(s)
           N == Len(s)
<1>1. PICK hr \in [0..N -> RootLogs(c)], hf \in [0..N -> FolderLogs(c)] :
          /\ hr[0] = <<Null>> /\ hf[0] = NewFolderLog
          /\ hr[N] = r /\ hf[N] = g
          /\ \A d \in 1..N : On(c, IF d = 1 THEN Bottom ELSE s[d - 1], s[d],
                                hr[d - 1], hf[d - 1], hr[d], hf[d])
  BY DEF Stacked
<1>2. s \in Seq(FrameSet(c))
  BY DEF Stacked
<1>3. /\ t \in Seq(FrameSet(c)) /\ Last(s) \in FrameSet(c) /\ Append(t, Last(s)) = s
      /\ Len(t) = N - 1 /\ N \in Nat \ {0}
  BY <1>2, Split
<1>4. \A i \in 1..(N - 1) : t[i] = s[i]
  BY <1>2, <1>3 DEF Front
<1> DEFINE jr == [i \in 0..(N - 1) |-> hr[i]]
           jf == [i \in 0..(N - 1) |-> hf[i]]
<1>5. jr \in [0..(N - 1) -> RootLogs(c)] /\ jf \in [0..(N - 1) -> FolderLogs(c)]
  BY <1>1, <1>3
<1>6. \A i \in 0..(N - 1) : jr[i] = hr[i] /\ jf[i] = hf[i]
  OBVIOUS
<1> HIDE DEF jr, jf, t
<1>7. ASSUME NEW d \in 1..(N - 1)
      PROVE  On(c, IF d = 1 THEN Bottom ELSE t[d - 1], t[d], jr[d - 1], jf[d - 1], jr[d], jf[d])
  <2>1. d \in 1..N /\ d \in 0..(N - 1) /\ d - 1 \in 0..(N - 1) /\ (d # 1 => d - 1 \in 1..(N - 1))
    BY <1>3
  <2> QED BY <1>1, <1>4, <1>6, <2>1
<1>8. Stacked(c, t, jr[N - 1], jf[N - 1])
  <2>1. 0 \in 0..(N - 1)
    BY <1>3
  <2>2. /\ jr \in [0..Len(t) -> RootLogs(c)] /\ jf \in [0..Len(t) -> FolderLogs(c)]
        /\ jr[0] = <<Null>> /\ jf[0] = NewFolderLog
        /\ jr[Len(t)] = jr[N - 1] /\ jf[Len(t)] = jf[N - 1]
        /\ \A d \in 1..Len(t) : On(c, IF d = 1 THEN Bottom ELSE t[d - 1], t[d],
                                   jr[d - 1], jf[d - 1], jr[d], jf[d])
    BY <1>1, <1>3, <1>5, <1>6, <1>7, <2>1
  <2> QED BY <1>3, <2>2 DEF Stacked
<1>9. On(c, BelowOf(t), Last(s), jr[N - 1], jf[N - 1], r, g)
  <2>1. (IF N = 1 THEN Bottom ELSE s[N - 1]) = BelowOf(t)
    <3>1. CASE N = 1
      BY <1>3, <3>1 DEF BelowOf
    <3>2. CASE N # 1
      <4>1. t # <<>> /\ N - 1 \in 1..(N - 1)
        BY <1>3, <3>2
      <4> QED BY <1>3, <1>4, <3>2, <4>1 DEF BelowOf, Last
    <3> QED BY <3>1, <3>2
  <2>2. N \in 1..N /\ N - 1 \in 0..(N - 1) /\ s[N] = Last(s)
    BY <1>3 DEF Last
  <2> QED BY <1>1, <1>6, <2>1, <2>2
<1>10. jr[N - 1] \in RootLogs(c) /\ jf[N - 1] \in FolderLogs(c)
  <2>1. N - 1 \in 0..(N - 1)
    BY <1>3
  <2> QED BY <1>5, <2>1
<1> QED BY <1>3, <1>8, <1>9, <1>10 DEF t

\* d is c after some calls of tr_get in nodegen.
Grows(c, d) ==
    /\ c.phase = "nodegen" /\ d.phase = "nodegen" /\ d.shape = c.shape
    /\ TreeOK(c.tree, Keys(c)) /\ TreeOK(d.tree, Keys(c)) /\ Extends(c.tree, d.tree)

(* In nodegen the frames stand as they stood when the tree grows.          *)
LEMMA OnGrows ==
    ASSUME NEW c, NEW d, Grows(c, d), NEW b \in FrameSet(c) \cup {Bottom},
           NEW f \in FrameSet(c), NEW r0, NEW g0, NEW r, NEW g,
           On(c, b, f, r0, g0, r, g)
    PROVE  On(d, b, f, r0, g0, r, g)
<1>1. /\ c.phase = "nodegen" /\ d.phase = "nodegen" /\ d.shape = c.shape
      /\ DOMAIN c.tree \subseteq DOMAIN d.tree
      /\ \A n \in DOMAIN c.tree : /\ Len(c.tree[n]) \in Nat /\ Len(d.tree[n]) \in Nat
                                  /\ Len(c.tree[n]) <= Len(d.tree[n])
                                  /\ \A i \in 1..Len(c.tree[n]) : d.tree[n][i] = c.tree[n][i]
  BY DEF Grows, Extends, TreeOK
<1>2. f \in FrameSet(d) /\ f.n \in DOMAIN c.tree /\ f.mark \in Nat /\ f.pc \in Nat
  BY <1>1 DEF FrameSet
<1>3. FrameOK(d, f)
  BY <1>1, <1>2 DEF On, FrameOK
<1>4. ASSUME b \in FrameSet(c), KidFrame(c, b, f) PROVE KidFrame(d, b, f)
  <2>1. b.n \in DOMAIN c.tree /\ b.pc - 1 \in 1..Len(c.tree[b.n])
    BY <1>4 DEF KidFrame, FrameSet
  <2>2. b.pc - 1 \in 1..Len(d.tree[b.n])
    BY <1>1, <2>1
  <2> QED BY <1>1, <1>4, <2>1, <2>2 DEF KidFrame
<1>5. Link(d, b, f)
  <2>1. CASE b = Bottom
    BY <2>1 DEF On, Link, Bottom, Frame
  <2>2. CASE b \in FrameSet(c)
    BY <1>1, <1>4, <2>2 DEF On, Link
  <2> QED BY <2>1, <2>2
<1>6. RootOn(d, b, f, r0, r)
  BY <1>1 DEF On, RootOn, RootHeld
<1>7. FolderOn(d, b, f, g0, g)
  BY <1>1 DEF On, FolderOn, FolderHeld, InWrap, Keys, Emitting
<1> QED BY <1>3, <1>5, <1>6, <1>7 DEF On

LEMMA StackedGrows ==
    ASSUME NEW c, NEW d, Grows(c, d), NEW s, NEW r, NEW g, Stacked(c, s, r, g)
    PROVE  Stacked(d, s, r, g)
<1>1. DOMAIN c.tree \subseteq DOMAIN d.tree /\ d.shape = c.shape
  BY DEF Grows, Extends
<1>2. s \in Seq(FrameSet(c))
  BY DEF Stacked
<1>3. FrameSet(c) \subseteq FrameSet(d)
  BY <1>1 DEF FrameSet
<1>4. Seq(Roots(c)) \subseteq Seq(Roots(d)) /\ Keys(d) = Keys(c)
  BY <1>1 DEF Roots, Keys
<1>5. s \in Seq(FrameSet(d)) /\ RootLogs(c) \subseteq RootLogs(d) /\ FolderLogs(c) = FolderLogs(d)
  BY <1>2, <1>3, <1>4 DEF RootLogs, FolderLogs
<1>6. PICK hr \in [0..Len(s) -> RootLogs(c)], hf \in [0..Len(s) -> FolderLogs(c)] :
          /\ hr[0] = <<Null>> /\ hf[0] = NewFolderLog
          /\ hr[Len(s)] = r /\ hf[Len(s)] = g
          /\ \A i \in 1..Len(s) : On(c, IF i = 1 THEN Bottom ELSE s[i - 1], s[i],
                                     hr[i - 1], hf[i - 1], hr[i], hf[i])
  BY DEF Stacked
<1>7. hr \in [0..Len(s) -> RootLogs(d)] /\ hf \in [0..Len(s) -> FolderLogs(d)]
  BY <1>5, <1>6
<1>8. ASSUME NEW i \in 1..Len(s)
      PROVE  On(d, IF i = 1 THEN Bottom ELSE s[i - 1], s[i], hr[i - 1], hf[i - 1], hr[i], hf[i])
  <2>1. i # 1 => i - 1 \in 1..Len(s)
    BY <1>2
  <2>2. s[i] \in FrameSet(c) /\ (IF i = 1 THEN Bottom ELSE s[i - 1]) \in FrameSet(c) \cup {Bottom}
    BY <1>2, <2>1
  <2> QED BY <1>6, <2>2, OnGrows
<1> QED BY <1>5, <1>6, <1>7, <1>8 DEF Stacked

LEMMA FolderOfRoot == ASSUME NEW s PROVE FolderIn(s, <<>>) = <<>>
<1>1. PICK f : Joins(s, <<>>, f, Len(<<>>)) /\ FolderIn(s, <<>>) = f[Len(<<>>)]
  BY FolderJoins
<1>2. f[0] = <<>>
  <2>1. f = [i \in 0..0 |-> IF i = 0 THEN <<>>
                           ELSE f[i - 1] \o Segment(s, SubSeq(<<>>, 1, i - 1), <<>>[i])]
    BY <1>1 DEF Joins
  <2>2. 0 \in 0..0
    OBVIOUS
  <2> QED BY <2>1, <2>2
<1> QED BY <1>1, <1>2

(* In an emit phase the current folder is that of the top frame.           *)
LEMMA PlaceOfTop ==
    ASSUME NEW c, NEW s, NEW r, NEW g, Stacked(c, s, r, g), s # <<>>, c.phase \in Emitting
    PROVE  Last(g) = Place(c, Last(s))
BY StackedOpen DEF On, FolderOn

-----------------------------------------------------------------------------
(* The inductive invariant.                                                *)

RootLog   == Append(root_stack_list, curr_root)
FolderLog == Append(folder_stack_list, curr_folder)

Logs == /\ root_stack_list \in Seq(Roots(Ctx)) /\ curr_root \in Roots(Ctx)
        /\ folder_stack_list \in Seq(Seq(Keys(Ctx))) /\ curr_folder \in Seq(Keys(Ctx))

\* A handler of an emit phase was last called in the folder of its node.
Recorded == phase \in Emitting =>
                /\ runs \in [Nodes -> Nat] /\ run_folder = [n \in Nodes |-> run_folder[n]]
                /\ \A n \in Nodes : runs[n] > 0 => run_folder[n] = FolderOf(n)

Going ==
    /\ TreeOK(child_list, Keys(Ctx))
    /\ pass \cup hydrated \subseteq Nodes
    /\ phase \in {"load", "check"} => stack = <<>>
    /\ Logs
    /\ Stacked(Ctx, stack, RootLog, FolderLog)
    /\ Recorded

IInv ==
    /\ shape \in Shapes
    /\ phase \in ToSet(PhaseList) \cup Final
    /\ found_count \in Nat
    /\ phase \notin Final => Going

(* The phases by name.                                                     *)
LEMMA PhaseNames ==
    ToSet(PhaseList) = {"load", "nodegen", "check", "validator", "codebub", "codegen", "min_deps"}
<1>1. ToSet(PhaseList) = {PhaseList[i] : i \in 1..7}
  BY DEF ToSet, PhaseList
<1>2. /\ PhaseList[1] = "load" /\ PhaseList[2] = "nodegen" /\ PhaseList[3] = "check"
      /\ PhaseList[4] = "validator" /\ PhaseList[5] = "codebub" /\ PhaseList[6] = "codegen"
      /\ PhaseList[7] = "min_deps"
  BY DEF PhaseList
<1>3. \A i \in 1..7 : i = 1 \/ i = 2 \/ i = 3 \/ i = 4 \/ i = 5 \/ i = 6 \/ i = 7
  OBVIOUS
<1>4. ToSet(PhaseList) \subseteq {PhaseList[1], PhaseList[2], PhaseList[3], PhaseList[4],
                                  PhaseList[5], PhaseList[6], PhaseList[7]}
  <2>1. ASSUME NEW i \in 1..7
        PROVE  PhaseList[i] \in {PhaseList[1], PhaseList[2], PhaseList[3], PhaseList[4],
                                 PhaseList[5], PhaseList[6], PhaseList[7]}
    BY <1>3
  <2> QED BY <1>1, <2>1
<1>5. \A i \in {1, 2, 3, 4, 5, 6, 7} : PhaseList[i] \in ToSet(PhaseList)
  <2>1. \A i \in {1, 2, 3, 4, 5, 6, 7} : i \in 1..7
    OBVIOUS
  <2> QED BY <1>1, <2>1
<1> QED BY <1>2, <1>4, <1>5

(* The four moves of the two logs.                                         *)
LEMMA RootPushed ==
    ASSUME Logs, NEW n \in Nodes, RootPush(n)
    PROVE  RootLog' = Append(RootLog, n) /\ root_stack_list' \in Seq(Roots(Ctx))
           /\ curr_root' \in Roots(Ctx)
BY DEF Logs, RootPush, RootLog, Roots, Ctx, Nodes

LEMMA RootPopped ==
    ASSUME NEW r0 \in RootLogs(Ctx), NEW x, RootLog = Append(r0, x), Logs, RootPop
    PROVE  RootLog' = r0 /\ root_stack_list' \in Seq(Roots(Ctx)) /\ curr_root' \in Roots(Ctx)
<1>1. r0 \in Seq(Roots(Ctx)) /\ r0 # <<>>
  BY DEF RootLogs
<1>2. root_stack_list = r0
  <2>1. root_stack_list \in Seq(Roots(Ctx)) /\ curr_root \in Roots(Ctx)
    BY DEF Logs
  <2>2. Front(RootLog) = root_stack_list
    BY <2>1, Appended DEF RootLog
  <2>3. Append(r0, x) \in Seq(Roots(Ctx) \cup {x}) /\ r0 \in Seq(Roots(Ctx) \cup {x})
    BY <1>1
  <2>4. Front(Append(r0, x)) = r0
    <3>1. x \in Roots(Ctx) \cup {x}
      OBVIOUS
    <3> QED BY <2>3, <3>1, Appended
  <2> QED BY <2>2, <2>4
<1> QED BY <1>1, <1>2, Split DEF RootPop, RootLog

LEMMA FolderPushed ==
    ASSUME Logs, NEW k \in Keys(Ctx), FolderPush(k)
    PROVE  /\ FolderLog' = Append(FolderLog, Append(curr_folder, k))
           /\ folder_stack_list' \in Seq(Seq(Keys(Ctx))) /\ curr_folder' \in Seq(Keys(Ctx))
BY DEF Logs, FolderPush, FolderLog

LEMMA FolderPopped ==
    ASSUME NEW g0 \in FolderLogs(Ctx), NEW x, FolderLog = Append(g0, x), Logs, FolderPop
    PROVE  /\ FolderLog' = g0
           /\ folder_stack_list' \in Seq(Seq(Keys(Ctx))) /\ curr_folder' \in Seq(Keys(Ctx))
<1> DEFINE S == Seq(Keys(Ctx))
<1>1. g0 \in Seq(S) /\ g0 # <<>>
  BY DEF FolderLogs
<1> HIDE DEF S
<1>2. folder_stack_list = g0
  <2>1. folder_stack_list \in Seq(S) /\ curr_folder \in S
    BY DEF Logs, S
  <2>2. Front(FolderLog) = folder_stack_list
    BY <2>1, Appended DEF FolderLog
  <2>3. Append(g0, x) \in Seq(S \cup {x}) /\ g0 \in Seq(S \cup {x})
    BY <1>1
  <2>4. Front(Append(g0, x)) = g0
    <3>1. x \in S \cup {x}
      OBVIOUS
    <3> QED BY <2>3, <3>1, Appended
  <2> QED BY <2>2, <2>4
<1>3. FolderLog' = g0 /\ folder_stack_list' \in Seq(S) /\ curr_folder' \in S
  BY <1>1, <1>2, Split DEF FolderPop, FolderLog
<1> QED BY <1>3 DEF S

(* The top frame and the logs it found.                                    *)
LEMMA Opened ==
    ASSUME Going, stack # <<>>
    PROVE  /\ Under \in Seq(FrameSet(Ctx)) /\ Top \in FrameSet(Ctx)
           /\ \E r0 \in RootLogs(Ctx), g0 \in FolderLogs(Ctx) :
                 /\ Stacked(Ctx, Under, r0, g0)
                 /\ On(Ctx, BelowOf(Under), Top, r0, g0, RootLog, FolderLog)
           /\ RootLog \in RootLogs(Ctx) /\ FolderLog \in FolderLogs(Ctx)
           /\ Last(RootLog) = curr_root /\ Last(FolderLog) = curr_folder
<1>1. Stacked(Ctx, stack, RootLog, FolderLog) /\ stack \in Seq(FrameSet(Ctx))
  BY DEF Going, Stacked
<1>2. Under \in Seq(FrameSet(Ctx)) /\ Top \in FrameSet(Ctx)
  BY <1>1, Split DEF Under, Top
<1>3. RootLog \in RootLogs(Ctx) /\ FolderLog \in FolderLogs(Ctx)
  BY <1>1, StackedTypes
<1>4. Last(RootLog) = curr_root
  BY Appended DEF Going, Logs, RootLog
<1>5. Last(FolderLog) = curr_folder
  <2> DEFINE S == Seq(Keys(Ctx))
  <2>1. folder_stack_list \in Seq(S) /\ curr_folder \in S
    BY DEF Going, Logs
  <2> HIDE DEF S
  <2> QED BY <2>1, Appended DEF FolderLog
<1>6. \E r0 \in RootLogs(Ctx), g0 \in FolderLogs(Ctx) :
                 /\ Stacked(Ctx, Under, r0, g0)
                 /\ On(Ctx, BelowOf(Under), Top, r0, g0, RootLog, FolderLog)
  BY <1>1, StackedOpen DEF Under, Top
<1> QED BY <1>2, <1>3, <1>4, <1>5, <1>6

-----------------------------------------------------------------------------
(* The programs of the handlers.                                           *)

LEMMA BlockOfNode ==
    ASSUME shape \in Shapes, TreeOK(child_list, Keys(Ctx)), NEW n \in Nodes
    PROVE  /\ n \in Seq(Keys(Ctx)) /\ KeyOf(n) \in Keys(Ctx) /\ BlockOK(Block(n), Keys(Ctx))
           /\ Block(n).type = TypeIn(shape, n) /\ shape.top \in Keys(Ctx)
<1>1. n \in Seq(Keys(Ctx))
  BY DEF TreeOK, Nodes
<1>2. /\ shape.top \in Keys(Ctx) /\ Keys(Ctx) = DOMAIN shape.block
      /\ \A k \in Keys(Ctx) : BlockOK(shape.block[k], Keys(Ctx))
  BY ShapesAssumption DEF Keys, Ctx
<1>3. KeyOf(n) \in Keys(Ctx)
  <2>1. CASE n = <<>>
    BY <1>2, <2>1 DEF KeyOf, KeyIn, DocRoot
  <2>2. CASE n # <<>>
    BY <1>1, <2>2, Split DEF KeyOf, KeyIn, DocRoot
  <2> QED BY <2>1, <2>2
<1>4. BlockOK(Block(n), Keys(Ctx))
  BY <1>2, <1>3 DEF Block
<1> QED BY <1>1, <1>2, <1>3, <1>4 DEF Block, TypeIn, KeyOf

Steered == {"folder_wrap", "monorepo"}
Makes   == {"make", "own", "wrap", "above", "run", "inject"}

LEMMA TopHandler ==
    ASSUME IInv, At("fn")
    PROVE  /\ Going /\ stack # <<>> /\ shape \in Shapes /\ phase \in {"nodegen"} \cup Emitting
           /\ Top \in FrameSet(Ctx) /\ Top.k = "fn" /\ Top.n \in Nodes /\ Top.pc \in Nat
           /\ TreeOK(child_list, Keys(Ctx)) /\ Top.mark \in Nat
<1>1. Going /\ stack # <<>> /\ shape \in Shapes /\ Top.k = "fn"
  BY DEF IInv, At
<1>2. phase \in {"nodegen"} \cup Emitting
  BY <1>1, PhaseNames DEF IInv, Going, At, Emitting
<1>3. Top \in FrameSet(Ctx)
  BY <1>1, Opened
<1>4. Top.n \in Nodes /\ Top.pc \in Nat /\ Top.mark \in Nat
  BY <1>3 DEF FrameSet, Ctx, Nodes
<1> QED BY <1>1, <1>2, <1>3, <1>4 DEF Going

LEMMA SteeredProgram ==
    ASSUME NEW o, AtOp(o), Block(Top.n).type \in Steered, Top.pc \in Nat
    PROVE  \/ Block(Top.n).type = "folder_wrap" /\ Top.pc = 1 /\ o = "enter"
           \/ Block(Top.n).type = "folder_wrap" /\ Top.pc = 2 /\ o = "only"
           \/ Block(Top.n).type = "folder_wrap" /\ Top.pc = 3 /\ o = "leave"
           \/ Block(Top.n).type = "monorepo" /\ Top.pc = 1 /\ o = "each"
<1>1. CASE Block(Top.n).type = "folder_wrap"
  <2>1. Program(Top.n) = FolderWrapProgram
    BY <1>1 DEF Program
  <2>2. /\ Len(FolderWrapProgram) = 3 /\ FolderWrapProgram[1].op = "enter"
        /\ FolderWrapProgram[2].op = "only" /\ FolderWrapProgram[3].op = "leave"
    BY DEF FolderWrapProgram
  <2>3. Top.pc = 1 \/ Top.pc = 2 \/ Top.pc = 3
    BY <2>1, <2>2 DEF AtOp
  <2> QED BY <1>1, <2>1, <2>2, <2>3 DEF AtOp
<1>2. CASE Block(Top.n).type = "monorepo"
  <2>1. Program(Top.n) = MonorepoProgram
    BY <1>2 DEF Program
  <2>2. Len(MonorepoProgram) = 1 /\ MonorepoProgram[1].op = "each"
    BY DEF MonorepoProgram
  <2>3. Top.pc = 1
    BY <2>1, <2>2 DEF AtOp
  <2> QED BY <1>2, <2>1, <2>2, <2>3 DEF AtOp
<1> QED BY <1>1, <1>2 DEF Steered

\* What another block's operations are; outside nodegen it only walks its children.
LEMMA OtherProgram ==
    ASSUME IInv, NEW o, AtOp(o), Block(Top.n).type \notin Steered
    PROVE  /\ phase = "nodegen" =>
                /\ o \in DOMAIN OpFields
                /\ "key" \in OpFields[o] => Op.key \in Keys(Ctx)
                /\ o = "wrap" => Op.in \in Keys(Ctx)
           /\ phase # "nodegen" => phase \in Block(Top.n).walks /\ Top.pc = 1 /\ o = "only"
<1>1. At("fn") /\ Top.pc \in 1..Len(Program(Top.n)) /\ Program(Top.n)[Top.pc].op = o
  BY DEF AtOp
<1>2. shape \in Shapes /\ TreeOK(child_list, Keys(Ctx)) /\ Top.n \in Nodes
  BY <1>1, TopHandler
<1>3. BlockOK(Block(Top.n), Keys(Ctx))
  BY <1>2, BlockOfNode
<1>4. CASE phase = "nodegen"
  <2>1. Program(Top.n) = Block(Top.n).nodegen
    BY <1>4 DEF Program, Steered
  <2>2. Op \in Range(Block(Top.n).nodegen)
    BY <1>1, <1>3, <2>1 DEF Op, BlockOK
  <2>3. Op.op = o
    BY <1>1 DEF Op
  <2> QED BY <1>3, <1>4, <2>2, <2>3 DEF BlockOK
<1>5. CASE phase # "nodegen"
  <2>1. Program(Top.n) = IF phase \in Block(Top.n).walks THEN <<[op |-> "only"]>> ELSE <<>>
    BY <1>5 DEF Program, Steered
  <2>2. /\ Len(<<>>) = 0 /\ Len(<<[op |-> "only"]>>) = 1 /\ <<[op |-> "only"]>>[1].op = "only"
    OBVIOUS
  <2>3. phase \in Block(Top.n).walks
    BY <1>1, <2>1, <2>2
  <2>4. Top.pc = 1
    BY <1>1, <2>1, <2>2, <2>3
  <2> QED BY <1>1, <1>5, <2>1, <2>2, <2>3, <2>4
<1> QED BY <1>4, <1>5

LEMMA MakesInNodegen ==
    ASSUME IInv, NEW o \in Makes \cup {"mark", "rest"}, AtOp(o)
    PROVE  /\ phase = "nodegen" /\ Block(Top.n).type \notin Steered
           /\ o \in Makes => Op.key \in Keys(Ctx)
           /\ o = "wrap" => Op.in \in Keys(Ctx)
<1>1. Top.pc \in Nat
  BY TopHandler DEF AtOp
<1>2. Block(Top.n).type \notin Steered
  BY <1>1, SteeredProgram DEF Makes
<1>3. phase = "nodegen"
  BY <1>2, OtherProgram DEF Makes
<1>4. o \in Makes => "key" \in OpFields[o]
  BY DEF Makes, OpFields
<1> QED BY <1>2, <1>3, <1>4, OtherProgram

-----------------------------------------------------------------------------
(* Handlers.                                                               *)

Stepped(f, p, m) == [f EXCEPT !.pc = p, !.mark = m]

LEMMA SteppedFrame ==
    ASSUME NEW c, NEW f \in FrameSet(c), NEW p \in Nat, NEW m \in Nat
    PROVE  /\ Stepped(f, p, m) \in FrameSet(c)
           /\ Stepped(f, p, m).k = f.k /\ Stepped(f, p, m).n = f.n
           /\ Stepped(f, p, m).pc = p /\ Stepped(f, p, m).mark = m
BY DEF Stepped, FrameSet

LEMMA SteppedOnce ==
    ASSUME NEW c, NEW f \in FrameSet(c), NEW p \in Nat
    PROVE  [f EXCEPT !.pc = p] = Stepped(f, p, f.mark)
BY DEF Stepped, FrameSet

\* A handler takes a step that does not carry it into or out of the folder it wraps.
LEMMA HandlerSteps ==
    ASSUME NEW c, NEW b, NEW f \in FrameSet(c), f.k = "fn", NEW p \in Nat, NEW m \in Nat,
           NEW r0, NEW g0, NEW r, NEW g, On(c, b, f, r0, g0, r, g),
           InWrap(c, Stepped(f, p, m)) <=> InWrap(c, f)
    PROVE  On(c, b, Stepped(f, p, m), r0, g0, r, g)
<1> DEFINE e == Stepped(f, p, m)
<1>1. e \in FrameSet(c) /\ e.k = "fn" /\ e.n = f.n /\ e.pc = p /\ e.mark = m
  BY SteppedFrame
<1> HIDE DEF e
<1>2. InWrap(c, e) <=> InWrap(c, f)
  BY DEF e
<1>3. FrameOK(c, e)
  BY <1>1 DEF FrameOK
<1>4. Link(c, b, e)
  BY <1>1 DEF On, Link
<1>5. RootOn(c, b, e, r0, r)
  BY <1>1 DEF On, RootOn, RootHeld
<1>6. FolderOn(c, b, e, g0, g)
  <2>1. Place(c, e) = Place(c, f) /\ (FolderHeld(c, b, e) <=> FolderHeld(c, b, f))
    BY <1>1, <1>2 DEF Place, FolderHeld
  <2> QED BY <2>1 DEF On, FolderOn
<1>7. On(c, b, e, r0, g0, r, g)
  BY <1>3, <1>4, <1>5, <1>6 DEF On
<1> QED BY <1>7 DEF e

LEMMA TopSteps ==
    ASSUME IInv, At("fn"), NEW m \in Nat, NEW p \in Nat,
           InWrap(Ctx, Stepped(Top, p, m)) <=> InWrap(Ctx, Top)
    PROVE  Stacked(Ctx, Append(Under, Stepped(Top, p, m)), RootLog, FolderLog)
<1>1. /\ Going /\ stack # <<>> /\ Top \in FrameSet(Ctx) /\ Top.k = "fn"
      /\ Stepped(Top, p, m) \in FrameSet(Ctx)
  BY TopHandler, SteppedFrame
<1>2. PICK r0 \in RootLogs(Ctx), g0 \in FolderLogs(Ctx) :
                 /\ Stacked(Ctx, Under, r0, g0)
                 /\ On(Ctx, BelowOf(Under), Top, r0, g0, RootLog, FolderLog)
  BY <1>1, Opened
<1>3. RootLog \in RootLogs(Ctx) /\ FolderLog \in FolderLogs(Ctx)
  BY <1>1, Opened
<1>4. On(Ctx, BelowOf(Under), Stepped(Top, p, m), r0, g0, RootLog, FolderLog)
  BY <1>1, <1>2, HandlerSteps
<1> QED BY <1>1, <1>2, <1>3, <1>4, StackedPush

\* Moved, for a handler: it took a step.
LEMMA HandlerMoved ==
    ASSUME IInv, At("fn")
    PROVE  /\ Moved = Append(Under, Stepped(Top, Top.pc + 1, Top.mark))
           /\ Stepped(Top, Top.pc + 1, Top.mark) \in FrameSet(Ctx)
           /\ Stepped(Top, Top.pc + 1, Top.mark).k = "fn"
           /\ Stepped(Top, Top.pc + 1, Top.mark).n = Top.n
           /\ Stepped(Top, Top.pc + 1, Top.mark).pc = Top.pc + 1
           /\ BelowOf(Moved) = Stepped(Top, Top.pc + 1, Top.mark)
           /\ (InWrap(Ctx, Stepped(Top, Top.pc + 1, Top.mark)) <=> InWrap(Ctx, Top))
              => Stacked(Ctx, Moved, RootLog, FolderLog)
<1>1. /\ Top \in FrameSet(Ctx) /\ Top.k = "fn" /\ Top.pc \in Nat /\ Top.mark \in Nat
      /\ Under \in Seq(FrameSet(Ctx)) /\ Top.pc + 1 \in Nat
  BY TopHandler, Opened
<1> DEFINE e == Stepped(Top, Top.pc + 1, Top.mark)
<1>2. e \in FrameSet(Ctx) /\ e.k = "fn" /\ e.n = Top.n /\ e.pc = Top.pc + 1
  <2> DEFINE p == Top.pc + 1
             m == Top.mark
  <2>1. p \in Nat /\ m \in Nat
    BY <1>1
  <2> HIDE DEF p, m
  <2>2. /\ Stepped(Top, p, m) \in FrameSet(Ctx) /\ Stepped(Top, p, m).k = Top.k
        /\ Stepped(Top, p, m).n = Top.n /\ Stepped(Top, p, m).pc = p
    <3>1. \A f \in FrameSet(Ctx) : /\ Stepped(f, p, m) \in FrameSet(Ctx)
             /\ Stepped(f, p, m).k = f.k /\ Stepped(f, p, m).n = f.n /\ Stepped(f, p, m).pc = p
      BY <2>1, SteppedFrame
    <3> QED BY <1>1, <3>1
  <2> QED BY <1>1, <2>2 DEF p, m
<1>3. Moved = Append(Under, e)
  BY <1>1, SteppedOnce DEF Moved
<1>4. (InWrap(Ctx, e) <=> InWrap(Ctx, Top)) => Stacked(Ctx, Moved, RootLog, FolderLog)
  BY <1>1, <1>3, TopSteps
<1> HIDE DEF e
<1>5. BelowOf(Moved) = e
  BY <1>1, <1>2, <1>3, Appended DEF BelowOf
<1> QED BY <1>2, <1>3, <1>4, <1>5 DEF e

\* What a node is does not change.
LEMMA NotWrapping ==
    ASSUME NEW f, TypeIn(shape, f.n) # "folder_wrap"
    PROVE  ~InWrap(Ctx, f)
BY DEF InWrap, Ctx

LEMMA CtxParts == Ctx.tree = child_list /\ Ctx.shape = shape /\ Ctx.phase = phase
BY DEF Ctx

(* In nodegen a handler works under a node.                                *)
LEMMA RootIsNode ==
    ASSUME IInv, At("fn"), phase = "nodegen"
    PROVE  curr_root \in Nodes
<1>1. Going /\ stack # <<>> /\ Top.k = "fn"
  BY TopHandler
<1>2. PICK r0 \in RootLogs(Ctx), g0 \in FolderLogs(Ctx) :
         On(Ctx, BelowOf(Under), Top, r0, g0, RootLog, FolderLog)
  BY <1>1, Opened
<1>3. Last(RootLog) \in DOMAIN child_list
  BY <1>1, <1>2 DEF On, RootOn, Ctx
<1> QED BY <1>1, <1>3, Opened DEF Nodes

\* A handler of nodegen adds nodes, and may call the handler of one.
LEMMA MakingKeeps ==
    ASSUME IInv, NEW o \in Makes, AtOp(o), MadeOnly,
           TreeOK(child_list', Keys(Ctx)), Extends(child_list, child_list'),
           stack' = Moved \/ \E n \in Nodes' : stack' = Append(Moved, Frame("fn", n, 0))
    PROVE  IInv'
<1>1. phase = "nodegen" /\ Block(Top.n).type \notin Steered /\ At("fn")
  BY MakesInNodegen DEF AtOp
<1>2. /\ Going /\ shape \in Shapes /\ Top.n \in Nodes /\ Top.pc \in Nat /\ Top.mark \in Nat
      /\ TreeOK(child_list, Keys(Ctx)) /\ Top \in FrameSet(Ctx) /\ stack # <<>>
  BY <1>1, TopHandler
<1>3. TypeIn(shape, Top.n) # "folder_wrap"
  BY <1>1, <1>2, BlockOfNode DEF Steered
<1>4. Stacked(Ctx, Moved, RootLog, FolderLog)
  BY <1>1, <1>3, HandlerMoved, NotWrapping
<1>5. /\ shape' = shape /\ phase' = phase /\ pass' = pass /\ hydrated' = hydrated
      /\ found_count' = found_count /\ RootLog' = RootLog /\ FolderLog' = FolderLog
      /\ root_stack_list' = root_stack_list /\ curr_root' = curr_root
      /\ folder_stack_list' = folder_stack_list /\ curr_folder' = curr_folder
  BY DEF MadeOnly, roots, folds, RootLog, FolderLog
<1>6. DOMAIN child_list \subseteq DOMAIN child_list'
  BY DEF Extends
<1>7. Keys(Ctx') = Keys(Ctx) /\ Roots(Ctx) \subseteq Roots(Ctx') /\ Nodes \subseteq Nodes'
  BY <1>5, <1>6 DEF Ctx, Keys, Roots, Nodes
<1>8. Grows(Ctx, Ctx')
  <2>1. Ctx'.tree = child_list' /\ Ctx'.shape = shape' /\ Ctx'.phase = phase'
    BY DEF Ctx
  <2> QED BY <1>1, <1>2, <1>5, <1>7, <2>1, CtxParts DEF Grows
<1>9. Stacked(Ctx', Moved, RootLog, FolderLog)
  BY <1>4, <1>8, StackedGrows
<1>10. Stacked(Ctx', stack', RootLog, FolderLog)
  <2>1. CASE stack' = Moved
    BY <1>9, <2>1
  <2>2. ASSUME NEW n \in Nodes', stack' = Append(Moved, Frame("fn", n, 0))
        PROVE  Stacked(Ctx', stack', RootLog, FolderLog)
    <3> DEFINE F == Frame("fn", n, 0)
    <3>1. F \in FrameSet(Ctx') /\ F.k = "fn" /\ F.n = n /\ F.pc = 0
      BY DEF Frame, FrameSet, Kinds, Ctx, Nodes
    <3> HIDE DEF F
    <3>2. BelowOf(Moved).k = "fn"
      BY <1>1, HandlerMoved
    <3>3. RootLog \in RootLogs(Ctx') /\ FolderLog \in FolderLogs(Ctx')
      BY <1>9, StackedTypes
    <3>4. Ctx'.phase = "nodegen" /\ DOMAIN Ctx'.tree = Nodes'
      BY <1>1, <1>5 DEF Ctx, Nodes
    <3>5. FrameOK(Ctx', F) /\ Link(Ctx', BelowOf(Moved), F)
      BY <3>1, <3>2, <3>4 DEF FrameOK, Link
    <3>6. Last(RootLog) \in Nodes'
      BY <1>1, <1>2, <1>7, RootIsNode, Opened
    <3>7. RootOn(Ctx', BelowOf(Moved), F, RootLog, RootLog)
      BY <3>1, <3>2, <3>4, <3>6 DEF RootOn, RootHeld
    <3>8. FolderOn(Ctx', BelowOf(Moved), F, FolderLog, FolderLog)
      BY <3>1, <3>4 DEF FolderOn, FolderHeld, InWrap, Emitting
    <3>9. On(Ctx', BelowOf(Moved), F, RootLog, FolderLog, RootLog, FolderLog)
      BY <3>5, <3>7, <3>8 DEF On
    <3>10. Stacked(Ctx', Append(Moved, F), RootLog, FolderLog)
      BY <1>9, <3>1, <3>3, <3>9, StackedPush
    <3> QED BY <2>2, <3>10 DEF F
  <2> QED BY <2>1, <2>2
<1>11. Logs'
  BY <1>2, <1>5, <1>7 DEF Going, Logs
<1>12. Going'
  BY <1>1, <1>2, <1>5, <1>7, <1>10, <1>11 DEF Going, Recorded, Emitting
<1> QED BY <1>5, <1>12 DEF IInv

LEMMA MakeHereKeeps == ASSUME IInv, MakeHere PROVE IInv'
<1>1. /\ AtOp("make") /\ TrGet(curr_root, Op.key) /\ stack' = Moved /\ MadeOnly
      /\ "make" \in Makes
  BY DEF MakeHere, Makes
<1>2. curr_root \in Nodes /\ Op.key \in Keys(Ctx) /\ TreeOK(child_list, Keys(Ctx))
  BY <1>1, MakesInNodegen, RootIsNode, TopHandler DEF AtOp
<1>3. TreeOK(child_list', Keys(Ctx)) /\ Extends(child_list, child_list')
  BY <1>1, <1>2, GrownTree DEF TrGet, Nodes
<1> QED BY <1>1, <1>3, MakingKeeps

LEMMA MakeWrappedKeeps == ASSUME IInv, MakeWrapped PROVE IInv'
<1>1. /\ AtOp("wrap") /\ stack' = Moved /\ MadeOnly /\ "wrap" \in Makes
  BY DEF MakeWrapped, Makes
<1>2. curr_root \in Nodes /\ Op.key \in Keys(Ctx) /\ Op.in \in Keys(Ctx)
      /\ TreeOK(child_list, Keys(Ctx))
  BY <1>1, MakesInNodegen, RootIsNode, TopHandler DEF AtOp
<1> DEFINE t == Grown(child_list, curr_root, Op.in)
<1>3. TreeOK(t, Keys(Ctx)) /\ Extends(child_list, t) /\ Append(curr_root, Op.in) \in DOMAIN t
  BY <1>2, GrownTree DEF Nodes
<1>4. child_list' = Grown(t, Append(curr_root, Op.in), Op.key)
  BY DEF MakeWrapped
<1> HIDE DEF t
<1>5. TreeOK(child_list', Keys(Ctx)) /\ Extends(t, child_list')
  BY <1>2, <1>3, <1>4, GrownTree
<1>6. Extends(child_list, child_list')
  BY <1>2, <1>3, <1>5, ExtendsTwice
<1> QED BY <1>1, <1>5, <1>6, MakingKeeps

LEMMA MakeOwnKeeps == ASSUME IInv, MakeOwn PROVE IInv'
<1>1. /\ AtOp("own") /\ TrGet(Top.n, Op.key) /\ stack' = Moved /\ MadeOnly
      /\ "own" \in Makes
  BY DEF MakeOwn, Makes
<1>2. Top.n \in Nodes /\ Op.key \in Keys(Ctx) /\ TreeOK(child_list, Keys(Ctx))
  BY <1>1, MakesInNodegen, TopHandler DEF AtOp
<1>3. TreeOK(child_list', Keys(Ctx)) /\ Extends(child_list, child_list')
  BY <1>1, <1>2, GrownTree DEF TrGet, Nodes
<1> QED BY <1>1, <1>3, MakingKeeps

LEMMA ThrowEnds == Throw => phase' \in Final
BY DEF Throw, Answer, Final

LEMMA ThrowKeeps == ASSUME IInv, Throw PROVE IInv'
<1>1. phase' \in Final /\ shape' = shape /\ found_count' = found_count
  BY DEF Throw, Answer, tree, Final
<1> QED BY <1>1 DEF IInv

LEMMA MakeAboveKeeps == ASSUME IInv, MakeAbove PROVE IInv'
<1> DEFINE p == TypeFilterSearch(curr_root, Op.type)
<1>1. AtOp("above") /\ "above" \in Makes
  BY DEF MakeAbove, Makes
<1>2. curr_root \in Nodes /\ Op.key \in Keys(Ctx) /\ TreeOK(child_list, Keys(Ctx))
  BY <1>1, MakesInNodegen, RootIsNode, TopHandler DEF AtOp
<1>3. p \in Nodes \cup {Null}
  BY <1>2, NearestIsNode DEF Keys, Ctx
<1>4. CASE p = Null
  BY <1>4, ThrowKeeps DEF MakeAbove
<1>5. CASE p # Null
  <2>1. TrGet(p, Op.key) /\ stack' = Moved /\ MadeOnly
    BY <1>5 DEF MakeAbove
  <2> HIDE DEF p
  <2>2. TreeOK(child_list', Keys(Ctx)) /\ Extends(child_list, child_list')
    BY <1>2, <1>3, <1>5, <2>1, GrownTree DEF TrGet, Nodes
  <2> QED BY <1>1, <2>1, <2>2, MakingKeeps
<1> QED BY <1>4, <1>5

LEMMA RunMadeKeeps == ASSUME IInv, RunMade PROVE IInv'
<1>1. /\ AtOp("run") /\ TrGet(curr_root, Op.key) /\ MadeOnly /\ "run" \in Makes
      /\ stack' = Append(Moved, Frame("fn", Append(curr_root, Op.key), 0))
  BY DEF RunMade, Makes, Call
<1>2. curr_root \in Nodes /\ Op.key \in Keys(Ctx) /\ TreeOK(child_list, Keys(Ctx))
  BY <1>1, MakesInNodegen, RootIsNode, TopHandler DEF AtOp
<1>3. TreeOK(child_list', Keys(Ctx)) /\ Extends(child_list, child_list')
      /\ Append(curr_root, Op.key) \in Nodes'
  BY <1>1, <1>2, GrownTree DEF TrGet, Nodes
<1> QED BY <1>1, <1>3, MakingKeeps

LEMMA InjectToKeeps == ASSUME IInv, InjectTo PROVE IInv'
<1> DEFINE p == TypeFilterSearch(Top.n, "project")
           q == Append(p, Op.to)
<1>1. AtOp("inject") /\ "inject" \in Makes
  BY DEF InjectTo, Makes
<1>2. Top.n \in Nodes /\ Op.key \in Keys(Ctx) /\ TreeOK(child_list, Keys(Ctx))
  BY <1>1, MakesInNodegen, TopHandler DEF AtOp
<1>3. p \in Nodes \cup {Null}
  BY <1>2, NearestIsNode DEF Keys, Ctx
<1>4. CASE p = Null \/ ~Contains(child_list[p], Op.to)
  BY <1>4, ThrowKeeps DEF InjectTo
<1>5. CASE ~(p = Null \/ ~Contains(child_list[p], Op.to))
  <2>1. TrGet(q, Op.key) /\ MadeOnly /\ stack' = Append(Moved, Frame("fn", q, 0))
    BY <1>5 DEF InjectTo, Call
  <2> HIDE DEF p
  <2>2. q \in Nodes
    BY <1>2, <1>3, <1>5 DEF Contains, TreeOK, Nodes
  <2> HIDE DEF q
  <2>3. TreeOK(child_list', Keys(Ctx)) /\ Extends(child_list, child_list')
    BY <1>2, <2>1, <2>2, GrownTree DEF TrGet, Nodes
  <2>4. q \in Nodes'
    BY <2>2, <2>3 DEF Extends, Nodes
  <2> QED BY <1>1, <2>1, <2>3, <2>4, MakingKeeps
<1> QED BY <1>4, <1>5

\* A step that changes neither the tree nor the phase.
LEMMA StaticKeeps ==
    ASSUME IInv, phase \notin {"load", "check"} \cup Final,
           shape' = shape, phase' = phase, child_list' = child_list,
           found_count' \in Nat, pass' \cup hydrated' \subseteq Nodes,
           root_stack_list' \in Seq(Roots(Ctx)), curr_root' \in Roots(Ctx),
           folder_stack_list' \in Seq(Seq(Keys(Ctx))), curr_folder' \in Seq(Keys(Ctx)),
           Stacked(Ctx, stack', RootLog', FolderLog'), Recorded'
    PROVE  IInv'
<1>1. Ctx' = Ctx /\ Nodes' = Nodes
  BY DEF Ctx, Nodes
<1>2. Going'
  BY <1>1 DEF IInv, Going, Logs
<1> QED BY <1>2 DEF IInv

LEMMA RecordedKept ==
    ASSUME IInv, phase \notin Final, UNCHANGED <<shape, phase, child_list, hist>>
    PROVE  Recorded'
BY DEF IInv, Going, Recorded, hist, Nodes, FolderOf

LEMMA KeptLogs ==
    ASSUME Going
    PROVE  /\ pass \cup hydrated \subseteq Nodes
           /\ root_stack_list \in Seq(Roots(Ctx)) /\ curr_root \in Roots(Ctx)
           /\ folder_stack_list \in Seq(Seq(Keys(Ctx))) /\ curr_folder \in Seq(Keys(Ctx))
           /\ Stacked(Ctx, stack, RootLog, FolderLog) /\ Logs /\ TreeOK(child_list, Keys(Ctx))
BY DEF Going, Logs

\* A handler walks the children of its node, all or from the one it marked.
LEMMA OnlyKeeps ==
    ASSUME IInv, At("fn"), NEW p \in Nat \ {0}, Call(Frame("only", Top.n, p)), RootPush(Top.n),
           UNCHANGED <<shape, phase, tree, folds, hist>>,
           TypeIn(shape, Top.n) # "monorepo",
           TypeIn(shape, Top.n) = "folder_wrap" => Top.pc = 2,
           phase # "nodegen" => SelfWalks(Ctx, Top.n) /\ Top.pc = LoopPc(Ctx, Top.n)
    PROVE  IInv'
<1>1. /\ Going /\ stack # <<>> /\ phase \in {"nodegen"} \cup Emitting /\ Top \in FrameSet(Ctx)
      /\ Top.k = "fn" /\ Top.n \in Nodes /\ Top.pc \in Nat
  BY TopHandler
<1> DEFINE e == Stepped(Top, Top.pc + 1, Top.mark)
           F == Frame("only", Top.n, p)
<1>2. Moved = Append(Under, e) /\ BelowOf(Moved) = e /\ e \in FrameSet(Ctx) /\ e.k = "fn"
      /\ e.n = Top.n /\ e.pc = Top.pc + 1
      /\ ((InWrap(Ctx, e) <=> InWrap(Ctx, Top)) => Stacked(Ctx, Moved, RootLog, FolderLog))
  BY HandlerMoved
<1>3. F.k = "only" /\ F.n = Top.n /\ F.pc = p /\ F \in FrameSet(Ctx)
  BY <1>1 DEF Frame, FrameSet, Kinds, Ctx, Nodes
<1>4. stack' = Append(Moved, F)
  BY DEF Call
<1> HIDE DEF e, F
<1>5. InWrap(Ctx, e) <=> InWrap(Ctx, Top)
  BY <1>1, <1>2, CtxParts DEF InWrap
<1>6. Stacked(Ctx, Moved, RootLog, FolderLog)
  BY <1>2, <1>5
<1>7. /\ RootLog' = Append(RootLog, Top.n) /\ FolderLog' = FolderLog
      /\ root_stack_list' \in Seq(Roots(Ctx)) /\ curr_root' \in Roots(Ctx)
  BY <1>1, KeptLogs, RootPushed DEF FolderLog, folds
<1>8. RootLog \in RootLogs(Ctx) /\ FolderLog \in FolderLogs(Ctx)
  BY <1>6, StackedTypes
<1>9. RootLog' \in RootLogs(Ctx) /\ Last(RootLog') = Top.n
  <2>1. Top.n \in Roots(Ctx) /\ RootLog \in Seq(Roots(Ctx))
    BY <1>1, <1>8 DEF Roots, RootLogs, Ctx, Nodes
  <2> QED BY <1>7, <2>1, Appended DEF RootLogs
<1>10. FrameOK(Ctx, F)
  BY <1>3, CtxParts DEF FrameOK
<1>11. Link(Ctx, e, F)
  BY <1>2, <1>3, CtxParts DEF Link
<1>12. RootOn(Ctx, e, F, RootLog, RootLog')
  BY <1>1, <1>3, <1>7, <1>9, CtxParts DEF RootOn, RootHeld, Nodes
<1>13. FolderOn(Ctx, e, F, FolderLog, FolderLog)
  <2>1. ~FolderHeld(Ctx, e, F)
    BY <1>3 DEF FolderHeld, InWrap
  <2>2. ASSUME Ctx.phase \in Emitting PROVE Last(FolderLog) = Place(Ctx, F)
    <3>1. Last(FolderLog) = Place(Ctx, Top)
      BY <1>1, <2>2, KeptLogs, PlaceOfTop DEF Top
    <3>2. Place(Ctx, Top) = Inside(shape, Top.n)
      BY <1>1, CtxParts DEF Place, Inside, InWrap
    <3> QED BY <1>3, <3>1, <3>2, CtxParts DEF Place
  <2> QED BY <2>1, <2>2 DEF FolderOn
<1>14. On(Ctx, BelowOf(Moved), F, RootLog, FolderLog, RootLog', FolderLog)
  BY <1>2, <1>10, <1>11, <1>12, <1>13 DEF On
<1>15. Stacked(Ctx, stack', RootLog', FolderLog')
  BY <1>3, <1>4, <1>6, <1>7, <1>8, <1>9, <1>14, StackedPush
<1>16. Recorded'
  BY <1>1, RecordedKept DEF At, tree
<1>17. /\ phase \notin {"load", "check"} \cup Final
       /\ shape' = shape /\ phase' = phase /\ child_list' = child_list /\ found_count' = found_count
       /\ pass' = pass /\ hydrated' = hydrated /\ folder_stack_list' = folder_stack_list
       /\ curr_folder' = curr_folder
  BY <1>1 DEF tree, folds, Final, Emitting
<1>18. found_count \in Nat
  BY DEF IInv
<1> QED BY <1>1, <1>7, <1>15, <1>16, <1>17, <1>18, KeptLogs, StaticKeeps

LEMMA WalkOnlyKeeps == ASSUME IInv, WalkOnly PROVE IInv'
<1>1. CASE phase = "min_deps" /\ child_list[Top.n] # <<>>
  BY <1>1, ThrowKeeps DEF WalkOnly
<1>2. CASE ~(phase = "min_deps" /\ child_list[Top.n] # <<>>)
  <2>1. /\ AtOp("only") /\ At("fn") /\ Call(Frame("only", Top.n, 1)) /\ RootPush(Top.n)
        /\ UNCHANGED <<shape, phase, tree, folds, hist>>
    BY <1>2 DEF WalkOnly, AtOp
  <2>2. Top.pc \in Nat /\ Block(Top.n).type = TypeIn(shape, Top.n)
    BY <2>1, TopHandler, BlockOfNode
  <2>3. CASE Block(Top.n).type \in Steered
    <3>1. Block(Top.n).type = "folder_wrap" /\ Top.pc = 2
      BY <2>1, <2>2, <2>3, SteeredProgram
    <3>2. SelfWalks(Ctx, Top.n) /\ Top.pc = LoopPc(Ctx, Top.n)
      BY <2>2, <3>1, CtxParts DEF SelfWalks, LoopPc
    <3> QED BY <2>1, <2>2, <3>1, <3>2, OnlyKeeps
  <2>4. CASE Block(Top.n).type \notin Steered
    <3>1. ASSUME phase # "nodegen" PROVE SelfWalks(Ctx, Top.n) /\ Top.pc = LoopPc(Ctx, Top.n)
      <4>1. phase \in Block(Top.n).walks /\ Top.pc = 1
        BY <2>1, <2>4, <3>1, OtherProgram
      <4> QED BY <2>2, <2>4, <4>1, CtxParts DEF SelfWalks, LoopPc, Steered, Block, KeyOf
    <3> QED BY <2>1, <2>2, <2>4, <3>1, OnlyKeeps DEF Steered
  <2> QED BY <2>3, <2>4
<1> QED BY <1>1, <1>2

LEMMA WalkRestKeeps == ASSUME IInv, WalkRest PROVE IInv'
<1>1. /\ AtOp("rest") /\ At("fn") /\ Call(Frame("only", Top.n, Top.mark + 1)) /\ RootPush(Top.n)
      /\ UNCHANGED <<shape, phase, tree, folds, hist>>
  BY DEF WalkRest, AtOp
<1>2. phase = "nodegen" /\ Block(Top.n).type \notin Steered
  BY <1>1, MakesInNodegen
<1>3. Top.mark \in Nat /\ Block(Top.n).type = TypeIn(shape, Top.n)
  BY <1>1, TopHandler, BlockOfNode
<1>4. Top.mark + 1 \in Nat \ {0}
  BY <1>3
<1> QED BY <1>1, <1>2, <1>3, <1>4, OnlyKeeps DEF Steered

LEMMA MarkKeeps == ASSUME IInv, Mark PROVE IInv'
<1>1. AtOp("mark") /\ At("fn") /\ UNCHANGED <<shape, phase, tree, roots, folds, hist>>
  BY DEF Mark, AtOp
<1>2. phase = "nodegen" /\ Block(Top.n).type \notin Steered
  BY <1>1, MakesInNodegen
<1>3. /\ Going /\ shape \in Shapes /\ TreeOK(child_list, Keys(Ctx)) /\ Top \in FrameSet(Ctx)
      /\ Top.n \in Nodes /\ Top.pc \in Nat /\ Block(Top.n).type = TypeIn(shape, Top.n)
  BY <1>1, TopHandler, BlockOfNode
<1> DEFINE m == Len(child_list[Top.n])
           p == Top.pc + 1
<1>4. m \in Nat /\ p \in Nat
  BY <1>3 DEF TreeOK, Nodes
<1>5. stack' = Append(Under, Stepped(Top, p, m))
  BY <1>3 DEF Mark, Stepped, FrameSet
<1> HIDE DEF m, p
<1>6. Stepped(Top, p, m).n = Top.n
  <2>1. \A f \in FrameSet(Ctx) : Stepped(f, p, m).n = f.n
    BY <1>4, SteppedFrame
  <2> QED BY <1>3, <2>1
<1>7. Stacked(Ctx, stack', RootLog, FolderLog)
  BY <1>1, <1>2, <1>3, <1>4, <1>5, <1>6, TopSteps, NotWrapping DEF Steered
<1>8. RootLog' = RootLog /\ FolderLog' = FolderLog
  BY <1>1 DEF roots, folds, RootLog, FolderLog
<1>9. Recorded'
  BY <1>1, RecordedKept DEF At, tree
<1>10. found_count \in Nat /\ phase \notin {"load", "check"} \cup Final
  BY <1>2 DEF IInv, Final
<1> QED BY <1>1, <1>3, <1>7, <1>8, <1>9, <1>10, KeptLogs, StaticKeeps DEF tree, roots, folds

LEMMA FnCallKeeps == ASSUME IInv, FnCall PROVE IInv'
<1> DEFINE n == Top.n
           ok == /\ HasHandlers(n) \/ (phase = "nodegen" /\ Hydrates(n))
                 /\ phase \notin Block(n).fails
<1>1. At("fn") /\ Top.pc = 0
  BY DEF FnCall
<1>2. CASE ~ok
  <2>1. CASE phase = "min_deps"
    <3>1. Answer("failed", "err", sync)
      BY <1>2, <2>1 DEF FnCall
    <3> QED BY <3>1 DEF IInv, Answer, Final
  <2>2. CASE phase # "min_deps"
    <3>1. Throw
      BY <1>2, <2>2 DEF FnCall
    <3> QED BY <3>1, ThrowKeeps
  <2> QED BY <2>1, <2>2
<1>3. CASE ok
  <2>1. /\ stack' = Moved
        /\ hydrated' = IF phase = "nodegen" /\ Hydrates(n) THEN hydrated \cup {n} ELSE hydrated
        /\ IF phase = "nodegen" THEN UNCHANGED <<runs, run_folder>>
           ELSE /\ runs' = [runs EXCEPT ![n] = @ + 1]
                /\ run_folder' = [run_folder EXCEPT ![n] = curr_folder]
        /\ UNCHANGED <<shape, phase, child_list, pass, found_count, roots, folds, outcome, sync>>
    BY <1>3 DEF FnCall
  <2>2. /\ Going /\ stack # <<>> /\ n \in Nodes /\ phase \in {"nodegen"} \cup Emitting
        /\ Top \in FrameSet(Ctx) /\ Top.k = "fn"
    BY <1>1, TopHandler
  <2>3. Stacked(Ctx, Moved, RootLog, FolderLog)
    <3>1. ~InWrap(Ctx, Stepped(Top, Top.pc + 1, Top.mark)) /\ ~InWrap(Ctx, Top)
      BY <1>1, HandlerMoved DEF InWrap
    <3> QED BY <1>1, <3>1, HandlerMoved
  <2>4. RootLog' = RootLog /\ FolderLog' = FolderLog
    BY <2>1 DEF roots, folds, RootLog, FolderLog
  <2>5. hydrated' \cup pass' \subseteq Nodes
    BY <2>1, <2>2, KeptLogs
  <2>6. Recorded'
    <3>1. CASE phase = "nodegen"
      BY <2>1, <3>1 DEF Recorded, Emitting
    <3>2. CASE phase \in Emitting
      <4>1. /\ runs \in [Nodes -> Nat] /\ run_folder = [m \in Nodes |-> run_folder[m]]
            /\ \A m \in Nodes : runs[m] > 0 => run_folder[m] = FolderOf(m)
        BY <2>2, <3>2 DEF Going, Recorded
      <4>2. curr_folder = FolderOf(n)
        <5>1. Last(FolderLog) = Place(Ctx, Top)
          BY <2>2, <3>2, KeptLogs, PlaceOfTop, CtxParts DEF Top
        <5>2. ~InWrap(Ctx, Top)
          BY <1>1 DEF InWrap
        <5> QED BY <2>2, <5>1, <5>2, Opened, CtxParts DEF Place, FolderOf
      <4>3. /\ runs' = [runs EXCEPT ![n] = @ + 1]
            /\ run_folder' = [run_folder EXCEPT ![n] = curr_folder]
        BY <2>1, <3>2 DEF Emitting
      <4>4. Nodes' = Nodes /\ \A m \in Nodes : FolderOf(m)' = FolderOf(m)
        BY <2>1 DEF Nodes, FolderOf
      <4>5. /\ runs' \in [Nodes -> Nat] /\ run_folder' = [m \in Nodes |-> run_folder'[m]]
            /\ \A m \in Nodes : runs'[m] > 0 => run_folder'[m] = FolderOf(m)
        <5> HIDE DEF n, ok
        <5>1. runs' \in [Nodes -> Nat] /\ \A m \in Nodes \ {n} : runs'[m] = runs[m]
          BY <2>2, <4>1, <4>3
        <5>2. run_folder' = [m \in Nodes |-> run_folder'[m]]
              /\ run_folder'[n] = curr_folder
              /\ \A m \in Nodes \ {n} : run_folder'[m] = run_folder[m]
          BY <2>2, <4>1, <4>3
        <5>3. ASSUME NEW m \in Nodes, runs'[m] > 0 PROVE run_folder'[m] = FolderOf(m)
          <6>1. CASE m = n
            BY <4>2, <5>2, <6>1
          <6>2. CASE m # n
            BY <4>1, <5>1, <5>2, <5>3, <6>2
          <6> QED BY <6>1, <6>2
        <5> QED BY <5>1, <5>2, <5>3
      <4> QED BY <4>4, <4>5 DEF Recorded
    <3> QED BY <2>2, <3>1, <3>2
  <2>7. found_count \in Nat /\ phase \notin {"load", "check"} \cup Final
    BY <2>2 DEF IInv, Final, Emitting
  <2> QED BY <2>1, <2>2, <2>3, <2>4, <2>5, <2>6, <2>7, KeptLogs, StaticKeeps DEF roots, folds
<1> QED BY <1>2, <1>3

\* A handler stands on what called it.
LEMMA Caller ==
    ASSUME IInv, At("fn")
    PROVE  /\ Under # <<>> /\ BelowOf(Under) = Last(Under) /\ Last(Under) \in FrameSet(Ctx)
           /\ \/ Last(Under).k \in {"walk", "mono"} /\ Last(Under).pc = 0 /\ Last(Under).n = Top.n
              \/ Last(Under).k = "fn" /\ phase = "nodegen"
<1>1. Going /\ stack # <<>> /\ Top.k = "fn" /\ Under \in Seq(FrameSet(Ctx))
  BY TopHandler, Opened
<1>2. Link(Ctx, BelowOf(Under), Top)
  BY <1>1, Opened DEF On
<1>3. Under # <<>>
  BY <1>1, <1>2 DEF Link, BelowOf, Bottom, Frame
<1>4. Last(Under) \in FrameSet(Ctx)
  BY <1>1, <1>3, Split
<1>5. BelowOf(Under) = Last(Under)
  BY <1>3 DEF BelowOf
<1>6. ASSUME NEW b, Link(Ctx, b, Top)
      PROVE  \/ b.k \in {"walk", "mono"} /\ b.pc = 0 /\ b.n = Top.n
             \/ b.k = "fn" /\ phase = "nodegen"
  BY <1>1, <1>6, CtxParts DEF Link
<1>7. \/ Last(Under).k \in {"walk", "mono"} /\ Last(Under).pc = 0 /\ Last(Under).n = Top.n
      \/ Last(Under).k = "fn" /\ phase = "nodegen"
  BY <1>2, <1>5, <1>6
<1> QED BY <1>3, <1>4, <1>5, <1>7

LEMMA EnterFolderKeeps == ASSUME IInv, EnterFolder PROVE IInv'
<1>1. /\ AtOp("enter") /\ At("fn") /\ FolderPush(KeyOf(Top.n)) /\ stack' = Moved
      /\ UNCHANGED <<shape, phase, tree, roots, hist>>
  BY DEF EnterFolder, AtOp
<1>2. /\ Going /\ stack # <<>> /\ shape \in Shapes /\ TreeOK(child_list, Keys(Ctx))
      /\ Top \in FrameSet(Ctx) /\ Top.k = "fn" /\ Top.n \in Nodes /\ Top.pc \in Nat
      /\ phase \in {"nodegen"} \cup Emitting
  BY <1>1, TopHandler
<1>3. /\ KeyOf(Top.n) \in Keys(Ctx) /\ Block(Top.n).type = TypeIn(shape, Top.n)
  BY <1>2, BlockOfNode
<1>4. TypeIn(shape, Top.n) = "folder_wrap" /\ Top.pc = 1
  <2>1. CASE Block(Top.n).type \in Steered
    BY <1>1, <1>2, <1>3, <2>1, SteeredProgram
  <2>2. CASE Block(Top.n).type \notin Steered
    BY <1>1, <2>2, OtherProgram DEF OpFields
  <2> QED BY <2>1, <2>2
<1> DEFINE e == Stepped(Top, Top.pc + 1, Top.mark)
<1>5. Moved = Append(Under, e) /\ e \in FrameSet(Ctx) /\ e.k = "fn" /\ e.n = Top.n /\ e.pc = Top.pc + 1
  BY <1>1, HandlerMoved
<1> HIDE DEF e
<1>6. PICK r0 \in RootLogs(Ctx), g0 \in FolderLogs(Ctx) :
         /\ Stacked(Ctx, Under, r0, g0)
         /\ On(Ctx, BelowOf(Under), Top, r0, g0, RootLog, FolderLog)
  BY <1>2, Opened
<1>7. InWrap(Ctx, e) /\ ~InWrap(Ctx, Top)
  BY <1>4, <1>5, CtxParts DEF InWrap
<1>8. FolderLog = g0
  BY <1>2, <1>6, <1>7 DEF On, FolderOn, FolderHeld
<1> DEFINE v == Append(curr_folder, KeyOf(Top.n))
<1>9. v \in Seq(Keys(Ctx)) /\ FolderLog' = Append(FolderLog, v)
      /\ folder_stack_list' \in Seq(Seq(Keys(Ctx))) /\ curr_folder' \in Seq(Keys(Ctx))
  BY <1>1, <1>2, <1>3, KeptLogs, FolderPushed
<1>10. RootLog' = RootLog /\ root_stack_list' = root_stack_list /\ curr_root' = curr_root
  BY <1>1 DEF roots, RootLog
<1>11. RootLog \in RootLogs(Ctx) /\ FolderLog \in FolderLogs(Ctx)
  BY <1>2, Opened
<1>12. FolderLog' \in FolderLogs(Ctx) /\ Last(FolderLog') = v
  <2> DEFINE S == Seq(Keys(Ctx))
  <2>1. FolderLog \in Seq(S) /\ v \in S
    BY <1>9, <1>11 DEF FolderLogs
  <2> HIDE DEF S, v
  <2>2. Append(FolderLog, v) \in Seq(S) /\ Append(FolderLog, v) # <<>> /\ Last(Append(FolderLog, v)) = v
    BY <2>1, Appended
  <2> QED BY <1>9, <2>2 DEF FolderLogs, S
<1>13. FrameOK(Ctx, e) /\ Link(Ctx, BelowOf(Under), e) /\ RootOn(Ctx, BelowOf(Under), e, r0, RootLog)
  BY <1>2, <1>5, <1>6 DEF On, FrameOK, Link, RootOn, RootHeld
<1>14. FolderOn(Ctx, BelowOf(Under), e, g0, FolderLog')
  <2>1. ASSUME phase \in Emitting PROVE v = Place(Ctx, e)
    <3>1. Last(FolderLog) = Place(Ctx, Top) /\ Last(FolderLog) = curr_folder
      BY <1>2, <2>1, KeptLogs, PlaceOfTop, Opened, CtxParts DEF Top
    <3>2. Place(Ctx, Top) = FolderIn(shape, Top.n)
      BY <1>2, <1>7, CtxParts DEF Place
    <3>3. Place(Ctx, e) = Inside(shape, Top.n)
      BY <1>5, <1>7, CtxParts DEF Place
    <3> QED BY <1>4, <3>1, <3>2, <3>3 DEF Inside, KeyOf
  <2> HIDE DEF v
  <2> QED BY <1>5, <1>7, <1>8, <1>9, <1>12, <2>1, CtxParts DEF FolderOn, FolderHeld
<1>15. On(Ctx, BelowOf(Under), e, r0, g0, RootLog, FolderLog')
  BY <1>13, <1>14 DEF On
<1>16. Stacked(Ctx, stack', RootLog', FolderLog')
  BY <1>1, <1>5, <1>6, <1>10, <1>11, <1>12, <1>15, StackedPush
<1>17. Recorded'
  BY <1>1, RecordedKept DEF At, tree
<1>18. found_count \in Nat /\ phase \notin {"load", "check"} \cup Final
  BY <1>2 DEF IInv, Final, Emitting
<1> QED BY <1>1, <1>2, <1>9, <1>10, <1>16, <1>17, <1>18, KeptLogs, StaticKeeps DEF tree

LEMMA LeaveFolderKeeps == ASSUME IInv, LeaveFolder PROVE IInv'
<1>1. /\ AtOp("leave") /\ At("fn") /\ FolderPop /\ stack' = Moved
      /\ UNCHANGED <<shape, phase, tree, roots, hist>>
  BY DEF LeaveFolder, AtOp
<1>2. /\ Going /\ stack # <<>> /\ shape \in Shapes /\ TreeOK(child_list, Keys(Ctx))
      /\ Top \in FrameSet(Ctx) /\ Top.k = "fn" /\ Top.n \in Nodes /\ Top.pc \in Nat
      /\ phase \in {"nodegen"} \cup Emitting
  BY <1>1, TopHandler
<1>3. Block(Top.n).type = TypeIn(shape, Top.n)
  BY <1>2, BlockOfNode
<1>4. TypeIn(shape, Top.n) = "folder_wrap" /\ Top.pc = 3
  <2>1. CASE Block(Top.n).type \in Steered
    BY <1>1, <1>2, <1>3, <2>1, SteeredProgram
  <2>2. CASE Block(Top.n).type \notin Steered
    BY <1>1, <2>2, OtherProgram DEF OpFields
  <2> QED BY <2>1, <2>2
<1> DEFINE e == Stepped(Top, Top.pc + 1, Top.mark)
<1>5. Moved = Append(Under, e) /\ e \in FrameSet(Ctx) /\ e.k = "fn" /\ e.n = Top.n /\ e.pc = Top.pc + 1
  BY <1>1, HandlerMoved
<1> HIDE DEF e
<1>6. PICK r0 \in RootLogs(Ctx), g0 \in FolderLogs(Ctx) :
         /\ Stacked(Ctx, Under, r0, g0)
         /\ On(Ctx, BelowOf(Under), Top, r0, g0, RootLog, FolderLog)
  BY <1>2, Opened
<1>7. ~InWrap(Ctx, e) /\ InWrap(Ctx, Top)
  BY <1>2, <1>4, <1>5, CtxParts DEF InWrap
<1>8. PICK v \in Seq(Keys(Ctx)) : FolderLog = Append(g0, v)
  BY <1>6, <1>7 DEF On, FolderOn, FolderHeld
<1>9. /\ FolderLog' = g0 /\ folder_stack_list' \in Seq(Seq(Keys(Ctx)))
      /\ curr_folder' \in Seq(Keys(Ctx))
  BY <1>1, <1>2, <1>6, <1>8, KeptLogs, FolderPopped
<1>10. RootLog' = RootLog /\ root_stack_list' = root_stack_list /\ curr_root' = curr_root
  BY <1>1 DEF roots, RootLog
<1>11. RootLog \in RootLogs(Ctx)
  BY <1>2, Opened
<1>12. FrameOK(Ctx, e) /\ Link(Ctx, BelowOf(Under), e) /\ RootOn(Ctx, BelowOf(Under), e, r0, RootLog)
  BY <1>2, <1>5, <1>6 DEF On, FrameOK, Link, RootOn, RootHeld
<1>13. FolderOn(Ctx, BelowOf(Under), e, g0, g0)
  <2>1. ASSUME phase \in Emitting PROVE Last(g0) = Place(Ctx, e)
    <3>1. /\ Under # <<>> /\ Last(Under).n = Top.n /\ Last(Under).k \in {"walk", "mono"}
      BY <1>1, <2>1, Caller DEF Emitting
    <3>2. Last(g0) = Place(Ctx, Last(Under))
      BY <1>6, <2>1, <3>1, PlaceOfTop, CtxParts
    <3>3. Place(Ctx, Last(Under)) = FolderIn(shape, Top.n)
      BY <3>1, CtxParts DEF Place, InWrap
    <3> QED BY <1>5, <1>7, <3>2, <3>3, CtxParts DEF Place
  <2> QED BY <1>5, <1>7, <2>1, CtxParts DEF FolderOn, FolderHeld
<1>14. On(Ctx, BelowOf(Under), e, r0, g0, RootLog, g0)
  BY <1>12, <1>13 DEF On
<1>15. Stacked(Ctx, stack', RootLog', FolderLog')
  BY <1>1, <1>5, <1>6, <1>9, <1>10, <1>11, <1>14, StackedPush
<1>16. Recorded'
  BY <1>1, RecordedKept DEF At, tree
<1>17. found_count \in Nat /\ phase \notin {"load", "check"} \cup Final
  BY <1>2 DEF IInv, Final, Emitting
<1> QED BY <1>1, <1>2, <1>9, <1>10, <1>15, <1>16, <1>17, KeptLogs, StaticKeeps DEF tree

LEMMA EachProjectKeeps == ASSUME IInv, EachProject PROVE IInv'
<1> DEFINE e == Stepped(Top, Top.pc + 1, Top.mark)
           F == [Frame("each", Top.n, 1) EXCEPT !.mark = Len(child_list[Top.n])]
<1>1. /\ AtOp("each") /\ At("fn") /\ stack' = Append(Moved, F)
      /\ UNCHANGED <<shape, phase, tree, roots, folds, hist>>
  BY DEF EachProject, AtOp, Call
<1>2. /\ Going /\ stack # <<>> /\ shape \in Shapes /\ TreeOK(child_list, Keys(Ctx))
      /\ Top \in FrameSet(Ctx) /\ Top.k = "fn" /\ Top.n \in Nodes /\ Top.pc \in Nat
      /\ phase \in {"nodegen"} \cup Emitting
  BY <1>1, TopHandler
<1>3. Block(Top.n).type = TypeIn(shape, Top.n)
  BY <1>2, BlockOfNode
<1>4. TypeIn(shape, Top.n) = "monorepo" /\ Top.pc = 1
  <2>1. CASE Block(Top.n).type \in Steered
    BY <1>1, <1>2, <1>3, <2>1, SteeredProgram
  <2>2. CASE Block(Top.n).type \notin Steered
    BY <1>1, <2>2, OtherProgram DEF OpFields
  <2> QED BY <2>1, <2>2
<1>5. /\ Moved = Append(Under, e) /\ BelowOf(Moved) = e /\ e \in FrameSet(Ctx) /\ e.k = "fn"
      /\ e.n = Top.n /\ e.pc = Top.pc + 1
      /\ ((InWrap(Ctx, e) <=> InWrap(Ctx, Top)) => Stacked(Ctx, Moved, RootLog, FolderLog))
  BY <1>1, HandlerMoved
<1>6. Len(child_list[Top.n]) \in Nat
  BY <1>2 DEF TreeOK, Nodes
<1>7. /\ F \in FrameSet(Ctx) /\ F.k = "each" /\ F.n = Top.n /\ F.pc = 1
      /\ F.mark = Len(child_list[Top.n])
  BY <1>2, <1>6 DEF Frame, FrameSet, Kinds, Ctx, Nodes
<1> HIDE DEF e, F
<1>8. ~InWrap(Ctx, e) /\ ~InWrap(Ctx, Top)
  BY <1>4, <1>5, NotWrapping
<1>9. Stacked(Ctx, Moved, RootLog, FolderLog)
  BY <1>5, <1>8
<1>10. RootLog \in RootLogs(Ctx) /\ FolderLog \in FolderLogs(Ctx)
  BY <1>9, StackedTypes
<1>11. FrameOK(Ctx, F)
  BY <1>4, <1>6, <1>7, CtxParts DEF FrameOK
<1>12. Link(Ctx, e, F)
  BY <1>3, <1>4, <1>5, <1>7, CtxParts DEF Link, SelfWalks, LoopPc
<1>13. RootOn(Ctx, e, F, RootLog, RootLog)
  <2>1. phase = "nodegen" => Last(RootLog) \in Nodes
    BY <1>1, <1>2, RootIsNode, Opened
  <2> QED BY <1>7, <2>1, CtxParts DEF RootOn, RootHeld, Nodes
<1>14. FolderOn(Ctx, e, F, FolderLog, FolderLog)
  <2>1. ASSUME phase \in Emitting PROVE Last(FolderLog) = Place(Ctx, F)
    <3>1. Last(FolderLog) = Place(Ctx, Top)
      BY <1>2, <2>1, KeptLogs, PlaceOfTop, CtxParts DEF Top
    <3> QED BY <1>2, <1>7, <1>8, <3>1, CtxParts DEF Place, InWrap
  <2> QED BY <1>7, <2>1, CtxParts DEF FolderOn, FolderHeld, InWrap
<1>15. On(Ctx, BelowOf(Moved), F, RootLog, FolderLog, RootLog, FolderLog)
  BY <1>5, <1>11, <1>12, <1>13, <1>14 DEF On
<1>16. Stacked(Ctx, stack', RootLog, FolderLog)
  BY <1>1, <1>7, <1>9, <1>10, <1>15, StackedPush
<1>17. RootLog' = RootLog /\ FolderLog' = FolderLog
  BY <1>1 DEF roots, folds, RootLog, FolderLog
<1>18. Recorded'
  BY <1>1, RecordedKept DEF At, tree
<1>19. found_count \in Nat /\ phase \notin {"load", "check"} \cup Final
  BY <1>2 DEF IInv, Final, Emitting
<1> QED BY <1>1, <1>2, <1>16, <1>17, <1>18, <1>19, KeptLogs, StaticKeeps DEF tree, roots, folds

\* The program of folder_wrap is over after its third operation.
LEMMA OverIsOutside ==
    ASSUME IInv, At("fn"), Top.pc > Len(Program(Top.n))
    PROVE  ~InWrap(Ctx, Top)
<1>1. shape \in Shapes /\ TreeOK(child_list, Keys(Ctx)) /\ Top.n \in Nodes /\ Top.pc \in Nat
  BY TopHandler
<1>2. Block(Top.n).type = TypeIn(shape, Top.n)
  BY <1>1, BlockOfNode
<1>3. CASE TypeIn(shape, Top.n) = "folder_wrap"
  <2>1. Len(Program(Top.n)) = 3
    BY <1>2, <1>3 DEF Program, FolderWrapProgram
  <2> QED BY <1>1, <2>1 DEF InWrap
<1>4. CASE TypeIn(shape, Top.n) # "folder_wrap"
  BY <1>4, NotWrapping
<1> QED BY <1>3, <1>4

LEMMA FnReturnKeeps == ASSUME IInv, FnReturn PROVE IInv'
<1>1. /\ At("fn") /\ Top.pc > Len(Program(Top.n)) /\ stack' = Below(Top.n)
      /\ IF phase = "nodegen" /\ Top.n \notin pass
         THEN pass' = pass \cup {Top.n} /\ found_count' = found_count + 1
         ELSE UNCHANGED <<pass, found_count>>
      /\ IF phase = "min_deps" /\ Last(Under).k = "walk" THEN RootPop ELSE UNCHANGED roots
      /\ UNCHANGED <<shape, phase, child_list, hydrated, hydrator_on, folds, hist>>
  BY DEF FnReturn
<1>2. /\ Going /\ stack # <<>> /\ shape \in Shapes /\ TreeOK(child_list, Keys(Ctx))
      /\ Top \in FrameSet(Ctx) /\ Top.k = "fn" /\ Top.n \in Nodes /\ Top.pc \in Nat
      /\ phase \in {"nodegen"} \cup Emitting
  BY <1>1, TopHandler
<1>3. ~InWrap(Ctx, Top)
  BY <1>1, OverIsOutside
<1>4. PICK r0 \in RootLogs(Ctx), g0 \in FolderLogs(Ctx) :
         /\ Stacked(Ctx, Under, r0, g0)
         /\ On(Ctx, BelowOf(Under), Top, r0, g0, RootLog, FolderLog)
  BY <1>2, Opened
<1> DEFINE b == Last(Under)
           n == Top.n
<1>5. /\ Under # <<>> /\ BelowOf(Under) = b /\ b \in FrameSet(Ctx)
      /\ \/ b.k \in {"walk", "mono"} /\ b.pc = 0 /\ b.n = n
         \/ b.k = "fn" /\ phase = "nodegen"
  BY <1>1, Caller
<1>6. FolderLog = g0
  BY <1>2, <1>3, <1>4 DEF On, FolderOn, FolderHeld
<1>7. RootLog = IF b.k = "walk" THEN Append(r0, n) ELSE r0
  BY <1>2, <1>4, <1>5 DEF On, RootOn, RootHeld
<1>8. FolderLog' = FolderLog /\ folder_stack_list' = folder_stack_list /\ curr_folder' = curr_folder
  BY <1>1 DEF folds, FolderLog
<1>9. pass' \cup hydrated' \subseteq Nodes
  BY <1>1, <1>2, KeptLogs
<1>10. found_count' \in Nat /\ phase \notin {"load", "check"} \cup Final
  BY <1>1, <1>2 DEF IInv, Final, Emitting
<1>11. Recorded'
  BY <1>1, RecordedKept DEF At
<1>12. Ctx' = Ctx
  BY <1>1 DEF Ctx
<1>13. /\ root_stack_list' \in Seq(Roots(Ctx)) /\ curr_root' \in Roots(Ctx)
       /\ RootLog' = IF phase = "min_deps" THEN r0 ELSE RootLog
  <2>1. CASE phase = "min_deps" /\ b.k = "walk"
    <3>1. RootPop /\ RootLog = Append(r0, n)
      BY <1>1, <1>7, <2>1
    <3>2. RootLog' = r0 /\ root_stack_list' \in Seq(Roots(Ctx)) /\ curr_root' \in Roots(Ctx)
      BY <1>2, <3>1, KeptLogs, RootPopped
    <3> QED BY <2>1, <3>2
  <2>2. CASE ~(phase = "min_deps" /\ b.k = "walk")
    <3>1. RootLog' = RootLog /\ root_stack_list' = root_stack_list /\ curr_root' = curr_root
      BY <1>1, <2>2 DEF roots, RootLog
    <3>2. phase = "min_deps" => RootLog = r0
      BY <1>7, <2>2
    <3> QED BY <1>2, <3>1, <3>2, KeptLogs
  <2> QED BY <2>1, <2>2
<1>14. Stacked(Ctx, stack', RootLog', FolderLog')
  <2>1. CASE b.k = "fn"
    <3>1. stack' = Under
      BY <1>1, <2>1 DEF Below
    <3>2. RootLog' = r0
      BY <1>7, <1>13, <2>1
    <3> QED BY <1>4, <1>6, <1>8, <3>1, <3>2
  <2>2. CASE b.k \in {"walk", "mono"}
    <3> DEFINE p == IF Processed(n) THEN Len(child_list[n]) + 1 ELSE 1
               e == Stepped(b, p, b.mark)
               U == Front(Under)
    <3>1. b.pc = 0 /\ b.n = n /\ n \in Nodes /\ b.mark \in Nat
      BY <1>2, <1>5, <2>2 DEF FrameSet
    <3>2. p \in Nat \ {0}
      BY <1>2, <3>1 DEF TreeOK, Nodes
    <3>3. stack' = Append(U, [b EXCEPT !.pc = p])
      BY <1>1, <1>5, <2>2 DEF Below
    <3> HIDE DEF b, U
    <3>4. Stacked(Ctx, Under, r0, g0) /\ b = Last(Under) /\ U = Front(Under)
      BY <1>4 DEF b, U
    <3>5. PICK r1 \in RootLogs(Ctx), g1 \in FolderLogs(Ctx) :
             /\ Stacked(Ctx, U, r1, g1)
             /\ On(Ctx, BelowOf(U), b, r1, g1, r0, g0)
      BY <1>5, <3>4, StackedOpen
    <3>6. /\ e \in FrameSet(Ctx) /\ e.k = b.k /\ e.n = n /\ e.pc = p /\ e.mark = b.mark
          /\ stack' = Append(U, e)
      <4> HIDE DEF p
      <4>1. /\ Stepped(b, p, b.mark) \in FrameSet(Ctx) /\ Stepped(b, p, b.mark).k = b.k
            /\ Stepped(b, p, b.mark).n = b.n /\ Stepped(b, p, b.mark).pc = p
            /\ Stepped(b, p, b.mark).mark = b.mark
        <5>1. \A m \in Nat, f \in FrameSet(Ctx) :
                 /\ Stepped(f, p, m) \in FrameSet(Ctx) /\ Stepped(f, p, m).k = f.k
                 /\ Stepped(f, p, m).n = f.n /\ Stepped(f, p, m).pc = p
                 /\ Stepped(f, p, m).mark = m
          BY <3>2, SteppedFrame
        <5> QED BY <1>5, <3>1, <5>1
      <4>2. [b EXCEPT !.pc = p] = Stepped(b, p, b.mark)
        BY <1>5, <3>2, SteppedOnce
      <4> QED BY <3>1, <3>3, <4>1, <4>2
    <3>7. phase # "nodegen" /\ TypeIn(shape, n) \in {"folder_wrap", "monorepo"}
            => p = Len(child_list[n]) + 1
      BY <1>2, <3>1, BlockOfNode DEF Processed
    <3>8. Len(child_list[n]) \in Nat
      BY <1>2 DEF TreeOK, Nodes
    <3> HIDE DEF p, e
    <3>9. FrameOK(Ctx, b)
      BY <3>5 DEF On
    <3>10. b.k = "mono" => b.mark = 0
      BY <3>1, <3>9 DEF FrameOK
    <3>11. FrameOK(Ctx, e)
      BY <2>2, <3>2, <3>6, <3>7, <3>8, <3>10, CtxParts DEF FrameOK
    <3>12. Link(Ctx, BelowOf(U), e)
      BY <2>2, <3>1, <3>5, <3>6, CtxParts DEF On, Link, KidFrame
    <3>13. r0 = r1
      BY <2>2, <3>1, <3>5, <3>10 DEF On, RootOn, RootHeld
    <3>14. RootOn(Ctx, BelowOf(U), e, r1, RootLog')
      <4>1. RootLog' = IF RootHeld(Ctx, BelowOf(U), e) THEN Append(r1, n) ELSE r1
        BY <1>7, <1>13, <2>2, <3>2, <3>6, <3>10, <3>13, CtxParts DEF RootHeld
      <4>2. phase = "nodegen" => Last(RootLog') \in Nodes
        BY <1>1, <1>2, <1>13, RootIsNode, Opened
      <4> QED BY <3>6, <4>1, <4>2, CtxParts DEF RootOn, Nodes
    <3>15. FolderOn(Ctx, BelowOf(U), e, g1, g0)
      BY <2>2, <3>1, <3>5, <3>6 DEF On, FolderOn, FolderHeld, InWrap, Place
    <3>16. On(Ctx, BelowOf(U), e, r1, g1, RootLog', g0)
      BY <3>11, <3>12, <3>14, <3>15 DEF On
    <3>17. RootLog' \in RootLogs(Ctx)
      BY <1>2, <1>13, Opened
    <3>18. Stacked(Ctx, Append(U, e), RootLog', g0)
      BY <3>5, <3>6, <3>16, <3>17, StackedPush
    <3> QED BY <1>6, <1>8, <3>6, <3>18
  <2> QED BY <1>5, <2>1, <2>2
<1> QED BY <1>1, <1>2, <1>8, <1>9, <1>10, <1>11, <1>13, <1>14, KeptLogs, StaticKeeps

-----------------------------------------------------------------------------
(* Walks.                                                                  *)

LEMMA TopWalk ==
    ASSUME IInv, NEW k, At(k)
    PROVE  /\ Going /\ stack # <<>> /\ shape \in Shapes /\ phase \in {"nodegen"} \cup Emitting
           /\ Top \in FrameSet(Ctx) /\ Top.k = k /\ Top.n \in Nodes /\ Top.pc \in Nat
           /\ Top.mark \in Nat /\ TreeOK(child_list, Keys(Ctx)) /\ found_count \in Nat
           /\ phase \notin {"load", "check"} \cup Final
           /\ Len(child_list[Top.n]) \in Nat /\ stack \in Seq(FrameSet(Ctx))
<1>1. Going /\ stack # <<>> /\ shape \in Shapes /\ Top.k = k /\ found_count \in Nat
  BY DEF IInv, At
<1>2. phase \in {"nodegen"} \cup Emitting
  BY <1>1, PhaseNames DEF IInv, Going, At, Emitting
<1>3. Top \in FrameSet(Ctx) /\ stack \in Seq(FrameSet(Ctx))
  BY <1>1, Opened DEF Going, Stacked
<1>4. Top.n \in Nodes /\ Top.pc \in Nat /\ Top.mark \in Nat
  BY <1>3 DEF FrameSet, Ctx, Nodes
<1>5. TreeOK(child_list, Keys(Ctx)) /\ Len(child_list[Top.n]) \in Nat
  BY <1>1, <1>4 DEF Going, TreeOK, Nodes
<1> QED BY <1>1, <1>2, <1>3, <1>4, <1>5 DEF Final, Emitting

\* The next child is a node, in the folder of its parent or in one that this makes.
LEMMA NextKidIsNode ==
    ASSUME IInv, NEW k, At(k), MoreKids
    PROVE  /\ NextKid \in Nodes /\ Last(NextKid) \in Keys(Ctx)
           /\ FolderIn(shape, NextKid) =
                FolderIn(shape, Top.n) \o Segment(shape, Top.n, Last(NextKid))
<1> DEFINE i == Top.pc
           key == child_list[Top.n][i]
<1>1. TreeOK(child_list, Keys(Ctx)) /\ Top.n \in Nodes /\ shape \in Shapes /\ i \in 1..Len(child_list[Top.n])
  BY TopWalk DEF MoreKids
<1>2. /\ Append(Top.n, key) \in Nodes /\ key \in Keys(Ctx) /\ Top.n \in Seq(Keys(Ctx))
      /\ shape.top \in Keys(Ctx)
  BY <1>1, BlockOfNode DEF TreeOK, Nodes
<1> HIDE DEF key
<1>3. Last(Append(Top.n, key)) = key
  BY <1>2, Appended
<1>4. NextKid = Append(Top.n, key)
  BY DEF NextKid, key
<1> QED BY <1>2, <1>3, <1>4, FolderOfKid

LEMMA FolderOfTop ==
    ASSUME IInv, NEW k, At(k)
    PROVE  FolderIn(shape, Top.n) \in Seq(Keys(Ctx)) /\ KeyIn(shape, Top.n) \in Keys(Ctx)
<1>1. /\ Top.n \in Seq(Keys(Ctx)) /\ KeyOf(Top.n) \in Keys(Ctx) /\ shape.top \in Keys(Ctx)
  BY TopWalk, BlockOfNode
<1> QED BY <1>1, FolderOfKid DEF KeyOf

LEMMA SteppedTop ==
    ASSUME Top \in FrameSet(Ctx)
    PROVE  /\ Stepped(Top, Top.pc + 1, Top.mark) \in FrameSet(Ctx)
           /\ Stepped(Top, Top.pc + 1, Top.mark).k = Top.k
           /\ Stepped(Top, Top.pc + 1, Top.mark).n = Top.n
           /\ Stepped(Top, Top.pc + 1, Top.mark).pc = Top.pc + 1
           /\ Stepped(Top, Top.pc + 1, Top.mark).mark = Top.mark
           /\ Moved = Append(Under, Stepped(Top, Top.pc + 1, Top.mark))
<1> DEFINE p == Top.pc + 1
           i == Top.mark
<1>1. p \in Nat /\ i \in Nat
  BY DEF FrameSet
<1>2. [Top EXCEPT !.pc = @ + 1] = [Top EXCEPT !.pc = p]
  OBVIOUS
<1> HIDE DEF p, i
<1>3. \A f \in FrameSet(Ctx) : /\ Stepped(f, p, i) \in FrameSet(Ctx)
         /\ Stepped(f, p, i).k = f.k /\ Stepped(f, p, i).n = f.n
         /\ Stepped(f, p, i).pc = p /\ Stepped(f, p, i).mark = i
  BY <1>1, SteppedFrame
<1>4. [Top EXCEPT !.pc = p] = Stepped(Top, p, i)
  BY <1>1, SteppedOnce DEF i
<1>5. /\ Stepped(Top, p, i) \in FrameSet(Ctx)
      /\ Stepped(Top, p, i).k = Top.k /\ Stepped(Top, p, i).n = Top.n
      /\ Stepped(Top, p, i).pc = p /\ Stepped(Top, p, i).mark = i
  BY <1>3
<1>6. Moved = Append(Under, Stepped(Top, p, i))
  BY <1>2, <1>4 DEF Moved
<1> QED BY <1>5, <1>6 DEF p, i

LEMMA WalkStartKeeps == ASSUME IInv, WalkStart PROVE IInv'
<1> DEFINE F == Frame("fn", Top.n, 0)
<1>1. /\ At("walk") /\ Top.pc = 0 /\ stack' = Append(stack, F) /\ RootPush(Top.n)
      /\ UNCHANGED <<shape, phase, tree, folds, hist>>
  BY DEF WalkStart
<1>2. /\ Going /\ stack # <<>> /\ phase \in {"nodegen"} \cup Emitting
      /\ Top \in FrameSet(Ctx) /\ Top.k = "walk" /\ Top.n \in Nodes /\ found_count \in Nat
      /\ phase \notin {"load", "check"} \cup Final
  BY <1>1, TopWalk
<1>3. F \in FrameSet(Ctx) /\ F.k = "fn" /\ F.n = Top.n /\ F.pc = 0
  BY <1>2 DEF Frame, FrameSet, Kinds, Ctx, Nodes
<1> HIDE DEF F
<1>4. BelowOf(stack) = Top
  BY <1>2 DEF BelowOf, Top
<1>5. /\ RootLog' = Append(RootLog, Top.n) /\ FolderLog' = FolderLog
      /\ root_stack_list' \in Seq(Roots(Ctx)) /\ curr_root' \in Roots(Ctx)
  BY <1>1, <1>2, KeptLogs, RootPushed DEF FolderLog, folds
<1>6. RootLog \in RootLogs(Ctx) /\ FolderLog \in FolderLogs(Ctx)
  BY <1>2, Opened
<1>7. RootLog' \in RootLogs(Ctx) /\ Last(RootLog') = Top.n
  <2>1. Top.n \in Roots(Ctx) /\ RootLog \in Seq(Roots(Ctx))
    BY <1>2, <1>6 DEF Roots, RootLogs, Ctx, Nodes
  <2> QED BY <1>5, <2>1, Appended DEF RootLogs
<1>8. FrameOK(Ctx, F) /\ Link(Ctx, Top, F) /\ RootOn(Ctx, Top, F, RootLog, RootLog')
  BY <1>1, <1>2, <1>3, <1>5, <1>7, CtxParts DEF FrameOK, Link, RootOn, RootHeld, Nodes
<1>9. FolderOn(Ctx, Top, F, FolderLog, FolderLog)
  <2>1. phase \in Emitting => Last(FolderLog) = Place(Ctx, Top)
    BY <1>2, KeptLogs, PlaceOfTop, CtxParts DEF Top
  <2> QED BY <1>2, <1>3, <2>1, CtxParts DEF FolderOn, FolderHeld, InWrap, Place
<1>10. On(Ctx, BelowOf(stack), F, RootLog, FolderLog, RootLog', FolderLog)
  BY <1>4, <1>8, <1>9 DEF On
<1>11. Stacked(Ctx, stack', RootLog', FolderLog')
  BY <1>1, <1>2, <1>3, <1>5, <1>6, <1>7, <1>10, KeptLogs, StackedPush
<1>12. Recorded'
  BY <1>1, <1>2, RecordedKept DEF tree
<1> QED BY <1>1, <1>2, <1>5, <1>11, <1>12, KeptLogs, StaticKeeps DEF tree, folds

LEMMA MonoStartKeeps == ASSUME IInv, MonoStart PROVE IInv'
<1> DEFINE F == Frame("fn", Top.n, 0)
<1>1. /\ At("mono") /\ Top.pc = 0 /\ stack' = Append(stack, F)
      /\ UNCHANGED <<shape, phase, tree, roots, folds, hist>>
  BY DEF MonoStart
<1>2. /\ Going /\ stack # <<>> /\ phase \in {"nodegen"} \cup Emitting
      /\ Top \in FrameSet(Ctx) /\ Top.k = "mono" /\ Top.n \in Nodes /\ found_count \in Nat
      /\ phase \notin {"load", "check"} \cup Final
  BY <1>1, TopWalk
<1>3. F \in FrameSet(Ctx) /\ F.k = "fn" /\ F.n = Top.n /\ F.pc = 0
  BY <1>2 DEF Frame, FrameSet, Kinds, Ctx, Nodes
<1> HIDE DEF F
<1>4. BelowOf(stack) = Top
  BY <1>2 DEF BelowOf, Top
<1>5. RootLog' = RootLog /\ FolderLog' = FolderLog
  BY <1>1 DEF roots, folds, RootLog, FolderLog
<1>6. RootLog \in RootLogs(Ctx) /\ FolderLog \in FolderLogs(Ctx)
  BY <1>2, Opened
<1>7. phase = "nodegen" => Last(RootLog) \in Nodes
  BY <1>2, Opened, CtxParts DEF On, RootOn, Nodes
<1>8. FrameOK(Ctx, F) /\ Link(Ctx, Top, F) /\ RootOn(Ctx, Top, F, RootLog, RootLog)
  BY <1>1, <1>2, <1>3, <1>7, CtxParts DEF FrameOK, Link, RootOn, RootHeld, Nodes
<1>9. FolderOn(Ctx, Top, F, FolderLog, FolderLog)
  <2>1. phase \in Emitting => Last(FolderLog) = Place(Ctx, Top)
    BY <1>2, KeptLogs, PlaceOfTop, CtxParts DEF Top
  <2> QED BY <1>2, <1>3, <2>1, CtxParts DEF FolderOn, FolderHeld, InWrap, Place
<1>10. On(Ctx, BelowOf(stack), F, RootLog, FolderLog, RootLog, FolderLog)
  BY <1>4, <1>8, <1>9 DEF On
<1>11. Stacked(Ctx, stack', RootLog', FolderLog')
  BY <1>1, <1>2, <1>3, <1>5, <1>6, <1>10, KeptLogs, StackedPush
<1>12. Recorded'
  BY <1>1, <1>2, RecordedKept DEF tree
<1> QED BY <1>1, <1>2, <1>5, <1>11, <1>12, KeptLogs, StaticKeeps DEF tree, roots, folds

LEMMA KidOfWalkKeeps == ASSUME IInv, KidOfWalk PROVE IInv'
<1> DEFINE e == Stepped(Top, Top.pc + 1, Top.mark)
           F == Frame("walk", NextKid, 0)
<1>1. /\ At("walk") \/ At("only")
      /\ MoreKids /\ stack' = Append(Moved, F)
      /\ UNCHANGED <<shape, phase, tree, roots, folds, hist>>
  BY DEF KidOfWalk, Call
<1>2. /\ Going /\ stack # <<>> /\ phase \in {"nodegen"} \cup Emitting
      /\ Top \in FrameSet(Ctx) /\ Top.k \in {"walk", "only"} /\ Top.n \in Nodes /\ found_count \in Nat
      /\ phase \notin {"load", "check"} \cup Final /\ Top.pc \in Nat /\ Top.mark \in Nat
      /\ Len(child_list[Top.n]) \in Nat
  BY <1>1, TopWalk
<1>3. /\ NextKid \in Nodes
      /\ FolderIn(shape, NextKid) = FolderIn(shape, Top.n) \o Segment(shape, Top.n, Last(NextKid))
  BY <1>1, NextKidIsNode
<1>4. Top.pc \in 1..Len(child_list[Top.n])
  BY <1>1 DEF MoreKids
<1>5. F \in FrameSet(Ctx) /\ F.k = "walk" /\ F.n = NextKid /\ F.pc = 0
  BY <1>3 DEF Frame, FrameSet, Kinds, Ctx, Nodes
<1>6. /\ e \in FrameSet(Ctx) /\ e.k = Top.k /\ e.n = Top.n /\ e.pc = Top.pc + 1
      /\ e.mark = Top.mark /\ Moved = Append(Under, e)
  BY <1>2, SteppedTop
<1> HIDE DEF e, F
<1>7. PICK r0 \in RootLogs(Ctx), g0 \in FolderLogs(Ctx) :
         /\ Stacked(Ctx, Under, r0, g0)
         /\ On(Ctx, BelowOf(Under), Top, r0, g0, RootLog, FolderLog)
  BY <1>2, Opened
<1>8. /\ RootLog \in RootLogs(Ctx) /\ FolderLog \in FolderLogs(Ctx)
      /\ Under \in Seq(FrameSet(Ctx))
  BY <1>2, Opened
<1>9. On(Ctx, BelowOf(Under), e, r0, g0, RootLog, FolderLog)
  <2>1. FrameOK(Ctx, e)
    BY <1>2, <1>4, <1>6, <1>7, CtxParts DEF On, FrameOK
  <2>2. Link(Ctx, BelowOf(Under), e)
    BY <1>2, <1>6, <1>7 DEF On, Link, KidFrame
  <2>3. RootOn(Ctx, BelowOf(Under), e, r0, RootLog)
    BY <1>2, <1>4, <1>6, <1>7 DEF On, RootOn, RootHeld
  <2>4. FolderOn(Ctx, BelowOf(Under), e, g0, FolderLog)
    BY <1>2, <1>6, <1>7 DEF On, FolderOn, FolderHeld, InWrap, Place
  <2> QED BY <2>1, <2>2, <2>3, <2>4 DEF On
<1>10. Stacked(Ctx, Moved, RootLog, FolderLog) /\ BelowOf(Moved) = e
  <2>1. Stacked(Ctx, Moved, RootLog, FolderLog)
    BY <1>6, <1>7, <1>8, <1>9, StackedPush
  <2>2. BelowOf(Moved) = e
    BY <1>6, <1>8, Appended DEF BelowOf
  <2> QED BY <2>1, <2>2
<1>11. FrameOK(Ctx, F) /\ Link(Ctx, e, F) /\ RootOn(Ctx, e, F, RootLog, RootLog)
  <2>1. KidFrame(Ctx, e, F)
    BY <1>2, <1>4, <1>5, <1>6, CtxParts DEF KidFrame, NextKid
  <2> QED BY <1>2, <1>5, <1>6, <2>1 DEF FrameOK, Link, RootOn, RootHeld
<1>12. FolderOn(Ctx, e, F, FolderLog, FolderLog)
  <2>1. ASSUME phase \in Emitting PROVE Last(FolderLog) = FolderIn(shape, NextKid)
    <3>1. Last(FolderLog) = Place(Ctx, Top)
      BY <1>2, <2>1, KeptLogs, PlaceOfTop, CtxParts DEF Top
    <3>2. FolderIn(shape, Top.n) \in Seq(Keys(Ctx))
      BY <1>1, FolderOfTop
    <3>3. TypeIn(shape, Top.n) # "monorepo"
          /\ (Top.k = "walk" => TypeIn(shape, Top.n) # "folder_wrap")
      BY <1>2, <1>4, <1>7, <2>1, CtxParts DEF On, FrameOK, Emitting
    <3>4. CASE TypeIn(shape, Top.n) = "folder_wrap"
      <4>1. Last(FolderLog) = Append(FolderIn(shape, Top.n), KeyIn(shape, Top.n))
        BY <1>2, <3>1, <3>3, <3>4, CtxParts DEF Place, Inside
      <4>2. Segment(shape, Top.n, Last(NextKid)) = <<KeyIn(shape, Top.n)>>
        BY <3>4 DEF Segment
      <4>3. KeyIn(shape, Top.n) \in Keys(Ctx)
        BY <1>1, FolderOfTop
      <4> QED BY <1>3, <3>2, <4>1, <4>2, <4>3
    <3>5. CASE TypeIn(shape, Top.n) # "folder_wrap"
      <4>1. Last(FolderLog) = FolderIn(shape, Top.n)
        BY <1>2, <3>1, <3>5, CtxParts DEF Place, Inside, InWrap
      <4>2. Segment(shape, Top.n, Last(NextKid)) = <<>>
        BY <3>3, <3>5 DEF Segment
      <4> QED BY <1>3, <3>2, <4>1, <4>2
    <3> QED BY <3>4, <3>5
  <2> QED BY <1>5, <1>6, <2>1, CtxParts DEF FolderOn, FolderHeld, InWrap, Place
<1>13. On(Ctx, BelowOf(Moved), F, RootLog, FolderLog, RootLog, FolderLog)
  BY <1>10, <1>11, <1>12 DEF On
<1>14. Stacked(Ctx, stack', RootLog, FolderLog)
  BY <1>1, <1>5, <1>8, <1>10, <1>13, StackedPush
<1>15. RootLog' = RootLog /\ FolderLog' = FolderLog
  BY <1>1 DEF roots, folds, RootLog, FolderLog
<1>16. Recorded'
  BY <1>1, <1>2, RecordedKept DEF tree
<1> QED BY <1>1, <1>2, <1>14, <1>15, <1>16, KeptLogs, StaticKeeps DEF tree, roots, folds

LEMMA KidOfMonoKeeps == ASSUME IInv, KidOfMono PROVE IInv'
<1> DEFINE p == Top.pc + 1
           e == Stepped(Top, p, 1)
           F == Frame("mono", NextKid, 0)
<1>1. /\ At("mono") /\ MoreKids
      /\ stack' = Append(Append(Under, [Top EXCEPT !.pc = @ + 1, !.mark = 1]), F)
      /\ IF Top.mark = 0 /\ phase # "min_deps" THEN RootPush(Top.n) ELSE UNCHANGED roots
      /\ UNCHANGED <<shape, phase, tree, folds, hist>>
  BY DEF KidOfMono
<1>2. /\ Going /\ stack # <<>> /\ phase \in {"nodegen"} \cup Emitting
      /\ Top \in FrameSet(Ctx) /\ Top.k = "mono" /\ Top.n \in Nodes /\ found_count \in Nat
      /\ phase \notin {"load", "check"} \cup Final /\ Top.pc \in Nat /\ Top.mark \in Nat
      /\ Len(child_list[Top.n]) \in Nat
  BY <1>1, TopWalk
<1>3. /\ NextKid \in Nodes
      /\ FolderIn(shape, NextKid) = FolderIn(shape, Top.n) \o Segment(shape, Top.n, Last(NextKid))
  BY <1>1, NextKidIsNode
<1>4. Top.pc \in 1..Len(child_list[Top.n]) /\ p \in Nat
  BY <1>1, <1>2 DEF MoreKids
<1>5. F \in FrameSet(Ctx) /\ F.k = "mono" /\ F.n = NextKid /\ F.pc = 0 /\ F.mark = 0
  BY <1>3 DEF Frame, FrameSet, Kinds, Ctx, Nodes
<1>6. [Top EXCEPT !.pc = @ + 1, !.mark = 1] = e
  BY <1>2 DEF Stepped, FrameSet
<1>7. /\ e \in FrameSet(Ctx) /\ e.k = "mono" /\ e.n = Top.n /\ e.pc = p /\ e.mark = 1
  <2> HIDE DEF p
  <2>1. \A m \in Nat, f \in FrameSet(Ctx) :
           /\ Stepped(f, p, m) \in FrameSet(Ctx)
           /\ Stepped(f, p, m).k = f.k /\ Stepped(f, p, m).n = f.n
           /\ Stepped(f, p, m).pc = p /\ Stepped(f, p, m).mark = m
    <3>1. p \in Nat
      BY <1>4
    <3> QED BY <3>1, SteppedFrame
  <2> QED BY <1>2, <2>1
<1>8. e.pc = Top.pc + 1
  BY <1>7
<1> HIDE DEF e, F, p
<1>9. PICK r0 \in RootLogs(Ctx), g0 \in FolderLogs(Ctx) :
         /\ Stacked(Ctx, Under, r0, g0)
         /\ On(Ctx, BelowOf(Under), Top, r0, g0, RootLog, FolderLog)
  BY <1>2, Opened
<1>10. /\ RootLog \in RootLogs(Ctx) /\ FolderLog \in FolderLogs(Ctx)
       /\ Under \in Seq(FrameSet(Ctx))
  BY <1>2, Opened
<1>11. FolderLog' = FolderLog
  BY <1>1 DEF folds, FolderLog
<1>12. Top.mark \in {0, 1}
  BY <1>2, <1>9 DEF On, FrameOK
<1>13. /\ root_stack_list' \in Seq(Roots(Ctx)) /\ curr_root' \in Roots(Ctx)
       /\ RootLog' = IF phase = "min_deps" THEN r0 ELSE Append(r0, Top.n)
       /\ phase = "nodegen" => Last(RootLog') \in Nodes
       /\ RootLog' \in RootLogs(Ctx)
  <2>1. CASE Top.mark = 0 /\ phase # "min_deps"
    <3>1. RootLog = r0
      BY <1>2, <1>9, <2>1, CtxParts DEF On, RootOn, RootHeld
    <3>2. /\ RootLog' = Append(r0, Top.n)
          /\ root_stack_list' \in Seq(Roots(Ctx)) /\ curr_root' \in Roots(Ctx)
      BY <1>1, <1>2, <2>1, <3>1, KeptLogs, RootPushed
    <3>3. Top.n \in Roots(Ctx) /\ r0 \in Seq(Roots(Ctx))
      BY <1>2 DEF Roots, RootLogs, Ctx, Nodes
    <3>4. RootLog' \in RootLogs(Ctx) /\ Last(RootLog') = Top.n
      BY <3>2, <3>3, Appended DEF RootLogs
    <3> QED BY <1>2, <2>1, <3>2, <3>4
  <2>2. CASE ~(Top.mark = 0 /\ phase # "min_deps")
    <3>1. RootLog' = RootLog /\ root_stack_list' = root_stack_list /\ curr_root' = curr_root
      BY <1>1, <2>2 DEF roots, RootLog
    <3>2. RootLog = IF phase = "min_deps" THEN r0 ELSE Append(r0, Top.n)
      BY <1>2, <1>9, <1>12, <2>2, CtxParts DEF On, RootOn, RootHeld
    <3>3. phase = "nodegen" => Last(RootLog) \in Nodes
      BY <1>2, <1>9, CtxParts DEF On, RootOn, Nodes
    <3> QED BY <1>2, <1>10, <3>1, <3>2, <3>3, KeptLogs
  <2> QED BY <2>1, <2>2
<1>14. On(Ctx, BelowOf(Under), e, r0, g0, RootLog', FolderLog)
  <2>1. FrameOK(Ctx, e)
    BY <1>2, <1>4, <1>7, <1>8, <1>9, CtxParts DEF On, FrameOK
  <2>2. Link(Ctx, BelowOf(Under), e)
    BY <1>2, <1>7, <1>9 DEF On, Link, KidFrame
  <2>3. RootOn(Ctx, BelowOf(Under), e, r0, RootLog')
    BY <1>2, <1>7, <1>13, CtxParts DEF RootOn, RootHeld, Nodes
  <2>4. FolderOn(Ctx, BelowOf(Under), e, g0, FolderLog)
    BY <1>2, <1>7, <1>9 DEF On, FolderOn, FolderHeld, InWrap, Place
  <2> QED BY <2>1, <2>2, <2>3, <2>4 DEF On
<1> DEFINE M == Append(Under, e)
<1>15. Stacked(Ctx, M, RootLog', FolderLog)
  BY <1>7, <1>9, <1>10, <1>13, <1>14, StackedPush
<1>16. BelowOf(M) = e
  BY <1>7, <1>10, Appended DEF BelowOf
<1>17. FrameOK(Ctx, F) /\ Link(Ctx, e, F) /\ RootOn(Ctx, e, F, RootLog', RootLog')
  <2>1. KidFrame(Ctx, e, F)
    BY <1>2, <1>4, <1>5, <1>7, <1>8, CtxParts DEF KidFrame, NextKid
  <2> QED BY <1>5, <1>7, <1>13, <2>1, CtxParts DEF FrameOK, Link, RootOn, RootHeld, Nodes
<1>18. FolderOn(Ctx, e, F, FolderLog, FolderLog)
  <2>1. ASSUME phase \in Emitting PROVE Last(FolderLog) = FolderIn(shape, NextKid)
    <3>1. Last(FolderLog) = Place(Ctx, Top)
      BY <1>2, <2>1, KeptLogs, PlaceOfTop, CtxParts DEF Top
    <3>2. FolderIn(shape, Top.n) \in Seq(Keys(Ctx))
      BY <1>1, FolderOfTop
    <3>3. TypeIn(shape, Top.n) \notin {"monorepo", "folder_wrap"}
      BY <1>2, <1>4, <1>9, <2>1, CtxParts DEF On, FrameOK, Emitting
    <3>4. Last(FolderLog) = FolderIn(shape, Top.n)
      BY <1>2, <3>1, <3>3, CtxParts DEF Place, Inside, InWrap
    <3>5. Segment(shape, Top.n, Last(NextKid)) = <<>>
      BY <3>3 DEF Segment
    <3> QED BY <1>3, <3>2, <3>4, <3>5
  <2> QED BY <1>5, <1>7, <2>1, CtxParts DEF FolderOn, FolderHeld, InWrap, Place
<1>19. On(Ctx, BelowOf(M), F, RootLog', FolderLog, RootLog', FolderLog)
  BY <1>16, <1>17, <1>18 DEF On
<1>20. Stacked(Ctx, stack', RootLog', FolderLog)
  <2>1. Stacked(Ctx, Append(M, F), RootLog', FolderLog)
    BY <1>5, <1>10, <1>13, <1>15, <1>19, StackedPush
  <2> QED BY <1>1, <1>6, <2>1
<1>21. Recorded'
  BY <1>1, <1>2, RecordedKept DEF tree
<1> QED BY <1>1, <1>2, <1>11, <1>13, <1>20, <1>21, KeptLogs, StaticKeeps DEF tree, folds

LEMMA KidOfEachKeeps == ASSUME IInv, KidOfEach PROVE IInv'
<1> DEFINE e == Stepped(Top, Top.pc + 1, Top.mark)
           F == Frame("mono", NextKid, 0)
<1>1. /\ At("each") /\ Top.pc <= Top.mark
  BY DEF KidOfEach
<1>2. /\ Going /\ stack # <<>> /\ phase \in {"nodegen"} \cup Emitting
      /\ Top \in FrameSet(Ctx) /\ Top.k = "each" /\ Top.n \in Nodes /\ found_count \in Nat
      /\ phase \notin {"load", "check"} \cup Final /\ Top.pc \in Nat /\ Top.mark \in Nat
      /\ Len(child_list[Top.n]) \in Nat
  BY <1>1, TopWalk
<1>3. CASE phase = "nodegen" /\ Block(NextKid).type # "project"
  BY <1>3, ThrowKeeps DEF KidOfEach
<1>4. CASE ~(phase = "nodegen" /\ Block(NextKid).type # "project")
  <2>1. /\ stack' = Append(Moved, F) /\ FolderPush(Last(NextKid))
        /\ UNCHANGED <<shape, phase, tree, roots, hist>>
    BY <1>4 DEF KidOfEach, Call
  <2>2. PICK r0 \in RootLogs(Ctx), g0 \in FolderLogs(Ctx) :
         /\ Stacked(Ctx, Under, r0, g0)
         /\ On(Ctx, BelowOf(Under), Top, r0, g0, RootLog, FolderLog)
    BY <1>2, Opened
  <2>3. /\ Top.pc > 0 /\ TypeIn(shape, Top.n) = "monorepo" /\ Top.mark <= Len(child_list[Top.n])
        /\ Top.pc \in 1..Len(child_list[Top.n])
    BY <1>1, <1>2, <2>2, CtxParts DEF On, FrameOK
  <2>4. /\ NextKid \in Nodes /\ Last(NextKid) \in Keys(Ctx)
        /\ FolderIn(shape, NextKid) = FolderIn(shape, Top.n) \o Segment(shape, Top.n, Last(NextKid))
    BY <1>1, <2>3, NextKidIsNode DEF MoreKids
  <2>5. F \in FrameSet(Ctx) /\ F.k = "mono" /\ F.n = NextKid /\ F.pc = 0 /\ F.mark = 0
    BY <2>4 DEF Frame, FrameSet, Kinds, Ctx, Nodes
  <2>6. /\ e \in FrameSet(Ctx) /\ e.k = Top.k /\ e.n = Top.n /\ e.pc = Top.pc + 1
        /\ e.mark = Top.mark /\ Moved = Append(Under, e)
    BY <1>2, SteppedTop
  <2> HIDE DEF e, F
  <2>7. /\ RootLog \in RootLogs(Ctx) /\ FolderLog \in FolderLogs(Ctx)
        /\ Under \in Seq(FrameSet(Ctx)) /\ Last(FolderLog) = curr_folder
    BY <1>2, Opened
  <2>8. On(Ctx, BelowOf(Under), e, r0, g0, RootLog, FolderLog)
    <3>1. FrameOK(Ctx, e)
      BY <1>2, <2>2, <2>6, CtxParts DEF On, FrameOK
    <3>2. Link(Ctx, BelowOf(Under), e)
      BY <1>2, <2>2, <2>6 DEF On, Link, KidFrame
    <3>3. RootOn(Ctx, BelowOf(Under), e, r0, RootLog)
      BY <1>2, <2>2, <2>6 DEF On, RootOn, RootHeld
    <3>4. FolderOn(Ctx, BelowOf(Under), e, g0, FolderLog)
      BY <1>2, <2>2, <2>6 DEF On, FolderOn, FolderHeld, InWrap, Place
    <3> QED BY <3>1, <3>2, <3>3, <3>4 DEF On
  <2>9. Stacked(Ctx, Moved, RootLog, FolderLog) /\ BelowOf(Moved) = e
    <3>1. Stacked(Ctx, Moved, RootLog, FolderLog)
      BY <2>2, <2>6, <2>7, <2>8, StackedPush
    <3>2. BelowOf(Moved) = e
      BY <2>6, <2>7, Appended DEF BelowOf
    <3> QED BY <3>1, <3>2
  <2> DEFINE v == Append(curr_folder, Last(NextKid))
  <2>10. v \in Seq(Keys(Ctx)) /\ FolderLog' = Append(FolderLog, v)
        /\ folder_stack_list' \in Seq(Seq(Keys(Ctx))) /\ curr_folder' \in Seq(Keys(Ctx))
    BY <1>2, <2>1, <2>4, KeptLogs, FolderPushed
  <2>11. FolderLog' \in FolderLogs(Ctx) /\ Last(FolderLog') = v
    <3> DEFINE S == Seq(Keys(Ctx))
    <3>1. FolderLog \in Seq(S) /\ v \in S
      BY <2>7, <2>10 DEF FolderLogs
    <3> HIDE DEF S, v
    <3>2. /\ Append(FolderLog, v) \in Seq(S) /\ Append(FolderLog, v) # <<>>
          /\ Last(Append(FolderLog, v)) = v
      BY <3>1, Appended
    <3> QED BY <2>10, <3>2 DEF FolderLogs, S
  <2>12. FrameOK(Ctx, F) /\ Link(Ctx, e, F) /\ RootOn(Ctx, e, F, RootLog, RootLog)
    <3>1. KidFrame(Ctx, e, F)
      BY <1>2, <2>3, <2>5, <2>6, CtxParts DEF KidFrame, NextKid
    <3>2. phase = "nodegen" => Last(RootLog) \in Nodes
      BY <1>2, <2>2, CtxParts DEF On, RootOn, Nodes
    <3> QED BY <1>2, <2>5, <2>6, <3>1, <3>2, CtxParts DEF FrameOK, Link, RootOn, RootHeld, Nodes
  <2>13. FolderOn(Ctx, e, F, FolderLog, FolderLog')
    <3>1. ASSUME phase \in Emitting PROVE v = FolderIn(shape, NextKid)
      <4>1. Last(FolderLog) = FolderIn(shape, Top.n)
        BY <1>2, <3>1, KeptLogs, PlaceOfTop, CtxParts DEF Top, Place, InWrap
      <4>2. FolderIn(shape, Top.n) \in Seq(Keys(Ctx))
        BY <1>1, FolderOfTop
      <4>3. Segment(shape, Top.n, Last(NextKid)) = <<Last(NextKid)>>
        BY <2>3 DEF Segment
      <4> QED BY <2>4, <2>7, <4>1, <4>2, <4>3
    <3> HIDE DEF v
    <3> QED BY <1>2, <2>5, <2>6, <2>10, <2>11, <3>1, CtxParts DEF FolderOn, FolderHeld, InWrap, Place
  <2>14. On(Ctx, BelowOf(Moved), F, RootLog, FolderLog, RootLog, FolderLog')
    BY <2>9, <2>12, <2>13 DEF On
  <2>15. Stacked(Ctx, stack', RootLog, FolderLog')
    BY <2>1, <2>5, <2>7, <2>9, <2>11, <2>14, StackedPush
  <2>16. RootLog' = RootLog
    BY <2>1 DEF roots, RootLog
  <2>17. Recorded'
    BY <1>2, <2>1, RecordedKept DEF tree
  <2> QED BY <1>2, <2>1, <2>10, <2>15, <2>16, <2>17, KeptLogs, StaticKeeps DEF tree, roots
<1> QED BY <1>3, <1>4

LEMMA WalkEndKeeps == ASSUME IInv, WalkEnd PROVE IInv'
<1>1. /\ At("walk") \/ At("only")
      /\ NoMoreKids /\ stack' = Under
      /\ IF phase = "min_deps" /\ Top.k = "walk" THEN UNCHANGED roots ELSE RootPop
      /\ UNCHANGED <<shape, phase, tree, folds, hist>>
  BY DEF WalkEnd, Return
<1>2. /\ Going /\ stack # <<>> /\ phase \in {"nodegen"} \cup Emitting
      /\ Top \in FrameSet(Ctx) /\ Top.k \in {"walk", "only"} /\ Top.n \in Nodes /\ found_count \in Nat
      /\ phase \notin {"load", "check"} \cup Final /\ Top.pc \in Nat
      /\ Len(child_list[Top.n]) \in Nat
  BY <1>1, TopWalk
<1>3. PICK r0 \in RootLogs(Ctx), g0 \in FolderLogs(Ctx) :
         /\ Stacked(Ctx, Under, r0, g0)
         /\ On(Ctx, BelowOf(Under), Top, r0, g0, RootLog, FolderLog)
  BY <1>2, Opened
<1>4. FolderLog' = FolderLog /\ FolderLog = g0
  <2>1. FolderLog = g0
    BY <1>2, <1>3 DEF On, FolderOn, FolderHeld, InWrap
  <2> QED BY <1>1, <2>1 DEF folds, FolderLog
<1>5. Top.pc > 0
  BY <1>1, <1>2 DEF NoMoreKids
<1>6. /\ RootLog' = r0
      /\ root_stack_list' \in Seq(Roots(Ctx)) /\ curr_root' \in Roots(Ctx)
  <2>1. CASE phase = "min_deps" /\ Top.k = "walk"
    <3>1. RootLog = r0
      BY <1>2, <1>3, <2>1, CtxParts DEF On, RootOn, RootHeld
    <3> QED BY <1>1, <1>2, <2>1, <3>1, KeptLogs DEF roots, RootLog
  <2>2. CASE ~(phase = "min_deps" /\ Top.k = "walk")
    <3>1. RootLog = Append(r0, Top.n)
      BY <1>2, <1>3, <1>5, <2>2, CtxParts DEF On, RootOn, RootHeld
    <3> QED BY <1>1, <1>2, <2>2, <3>1, KeptLogs, RootPopped
  <2> QED BY <2>1, <2>2
<1>7. Recorded'
  BY <1>1, <1>2, RecordedKept DEF tree
<1> QED BY <1>1, <1>2, <1>3, <1>4, <1>6, <1>7, KeptLogs, StaticKeeps DEF tree, folds

LEMMA MonoEndKeeps == ASSUME IInv, MonoEnd PROVE IInv'
<1>1. /\ At("mono") /\ NoMoreKids /\ stack' = Under
      /\ IF Top.mark = 1 /\ phase # "min_deps" THEN RootPop ELSE UNCHANGED roots
      /\ IF Last(Under).k = "each" THEN FolderPop ELSE UNCHANGED folds
      /\ UNCHANGED <<shape, phase, tree, hist>>
  BY DEF MonoEnd, Return
<1>2. /\ Going /\ stack # <<>> /\ phase \in {"nodegen"} \cup Emitting
      /\ Top \in FrameSet(Ctx) /\ Top.k = "mono" /\ Top.n \in Nodes /\ found_count \in Nat
      /\ phase \notin {"load", "check"} \cup Final
  BY <1>1, TopWalk
<1>3. PICK r0 \in RootLogs(Ctx), g0 \in FolderLogs(Ctx) :
         /\ Stacked(Ctx, Under, r0, g0)
         /\ On(Ctx, BelowOf(Under), Top, r0, g0, RootLog, FolderLog)
  BY <1>2, Opened
<1>4. Under # <<>> /\ BelowOf(Under) = Last(Under)
  <2>1. Link(Ctx, BelowOf(Under), Top)
    BY <1>3 DEF On
  <2> QED BY <1>2, <2>1 DEF Link, BelowOf, Bottom, Frame
<1>5. /\ RootLog' = r0
      /\ root_stack_list' \in Seq(Roots(Ctx)) /\ curr_root' \in Roots(Ctx)
  <2>1. CASE Top.mark = 1 /\ phase # "min_deps"
    <3>1. RootLog = Append(r0, Top.n)
      BY <1>2, <1>3, <2>1, CtxParts DEF On, RootOn, RootHeld
    <3> QED BY <1>1, <1>2, <2>1, <3>1, KeptLogs, RootPopped
  <2>2. CASE ~(Top.mark = 1 /\ phase # "min_deps")
    <3>1. RootLog = r0
      BY <1>2, <1>3, <2>2, CtxParts DEF On, RootOn, RootHeld
    <3> QED BY <1>1, <1>2, <2>2, <3>1, KeptLogs DEF roots, RootLog
  <2> QED BY <2>1, <2>2
<1>6. /\ FolderLog' = g0
      /\ folder_stack_list' \in Seq(Seq(Keys(Ctx))) /\ curr_folder' \in Seq(Keys(Ctx))
  <2>1. CASE Last(Under).k = "each"
    <3>1. PICK v \in Seq(Keys(Ctx)) : FolderLog = Append(g0, v)
      BY <1>2, <1>3, <1>4, <2>1 DEF On, FolderOn, FolderHeld
    <3> QED BY <1>1, <1>2, <2>1, <3>1, KeptLogs, FolderPopped
  <2>2. CASE Last(Under).k # "each"
    <3>1. FolderLog = g0
      BY <1>2, <1>3, <1>4, <2>2 DEF On, FolderOn, FolderHeld, InWrap
    <3> QED BY <1>1, <1>2, <2>2, <3>1, KeptLogs DEF folds, FolderLog
  <2> QED BY <2>1, <2>2
<1>7. Recorded'
  BY <1>1, <1>2, RecordedKept DEF tree
<1> QED BY <1>1, <1>2, <1>3, <1>5, <1>6, <1>7, KeptLogs, StaticKeeps DEF tree

LEMMA EachEndKeeps == ASSUME IInv, EachEnd PROVE IInv'
<1>1. /\ At("each") /\ stack' = Under
      /\ UNCHANGED <<shape, phase, tree, roots, folds, hist>>
  BY DEF EachEnd, Return
<1>2. /\ Going /\ stack # <<>> /\ phase \in {"nodegen"} \cup Emitting
      /\ Top \in FrameSet(Ctx) /\ Top.k = "each" /\ Top.n \in Nodes /\ found_count \in Nat
      /\ phase \notin {"load", "check"} \cup Final
  BY <1>1, TopWalk
<1>3. PICK r0 \in RootLogs(Ctx), g0 \in FolderLogs(Ctx) :
         /\ Stacked(Ctx, Under, r0, g0)
         /\ On(Ctx, BelowOf(Under), Top, r0, g0, RootLog, FolderLog)
  BY <1>2, Opened
<1>4. RootLog = r0 /\ FolderLog = g0
  BY <1>2, <1>3 DEF On, RootOn, RootHeld, FolderOn, FolderHeld, InWrap
<1>5. RootLog' = RootLog /\ FolderLog' = FolderLog
  BY <1>1 DEF roots, folds, RootLog, FolderLog
<1>6. Recorded'
  BY <1>1, <1>2, RecordedKept DEF tree
<1> QED BY <1>1, <1>2, <1>3, <1>4, <1>5, <1>6, KeptLogs, StaticKeeps DEF tree, roots, folds

-----------------------------------------------------------------------------
(* Runner.go.                                                              *)

\* Nothing is left on the stacks when no frame is.
LEMMA EmptyStacks ==
    ASSUME Going, stack = <<>>
    PROVE  /\ RootLog = <<Null>> /\ FolderLog = NewFolderLog
           /\ curr_root = Null /\ root_stack_list = <<>>
           /\ curr_folder = <<>> /\ folder_stack_list = <<>>
<1>1. RootLog = <<Null>> /\ FolderLog = NewFolderLog
  BY KeptLogs, StackedEmpty
<1>2. curr_root = Null /\ root_stack_list = <<>>
  <2>1. /\ root_stack_list \in Seq(Roots(Ctx)) /\ curr_root \in Roots(Ctx)
        /\ Append(root_stack_list, curr_root) = <<Null>>
    BY <1>1, KeptLogs DEF RootLog
  <2>2. /\ Front(Append(root_stack_list, curr_root)) = root_stack_list
        /\ Last(Append(root_stack_list, curr_root)) = curr_root
        /\ Len(Append(root_stack_list, curr_root)) = Len(root_stack_list) + 1
    BY <2>1, Appended
  <2>3. Last(<<Null>>) = Null /\ Len(<<Null>>) = 1
    BY DEF Last
  <2> QED BY <2>1, <2>2, <2>3
<1>3. curr_folder = <<>> /\ folder_stack_list = <<>>
  <2> DEFINE S == Seq(Keys(Ctx))
  <2>1. /\ folder_stack_list \in Seq(S) /\ curr_folder \in S
        /\ Append(folder_stack_list, curr_folder) = << <<>> >>
    BY <1>1, KeptLogs DEF FolderLog, NewFolderLog
  <2> HIDE DEF S
  <2>2. /\ Last(Append(folder_stack_list, curr_folder)) = curr_folder
        /\ Len(Append(folder_stack_list, curr_folder)) = Len(folder_stack_list) + 1
    BY <2>1, Appended
  <2>3. Last(<< <<>> >>) = <<>> /\ Len(<< <<>> >>) = 1
    BY DEF Last
  <2> QED BY <2>1, <2>2, <2>3
<1> QED BY <1>1, <1>2, <1>3

\* A walk from the root starts where nothing is left on the stacks.
LEMMA WalkBegins ==
    ASSUME IInv, Going, stack = <<>>,
           UNCHANGED <<shape, child_list, pass, hydrated, roots>>, found_count' \in Nat,
           phase' \in {"nodegen"} \cup Emitting, stack' = WalkRoot,
           curr_folder' = <<>>, folder_stack_list' = <<>>, Recorded'
    PROVE  IInv'
<1> DEFINE F == Frame("walk", DocRoot, 0)
           c == Ctx'
<1>1. /\ c.tree = child_list /\ c.shape = shape /\ c.phase = phase' /\ Keys(c) = Keys(Ctx)
      /\ Roots(c) = Roots(Ctx) /\ Nodes' = Nodes
  BY DEF Ctx, Keys, Roots, Nodes
<1>2. <<>> \in Nodes
  BY KeptLogs DEF TreeOK, Nodes
<1>3. F \in FrameSet(c) /\ F.k = "walk" /\ F.n = <<>> /\ F.pc = 0
  BY <1>1, <1>2 DEF Frame, FrameSet, Kinds, DocRoot, Nodes
<1>4. RootLog' = <<Null>> /\ RootLog = <<Null>>
  BY EmptyStacks DEF roots, RootLog
<1>5. FolderLog' = NewFolderLog
  BY DEF FolderLog, NewFolderLog
<1>6. Last(NewFolderLog) = <<>>
  BY DEF NewFolderLog, Last
<1> HIDE DEF c, F
<1>7. Stacked(c, <<>>, <<Null>>, NewFolderLog)
  BY StackedEmpty
<1>8. <<Null>> \in RootLogs(c) /\ NewFolderLog \in FolderLogs(c)
  BY <1>7, StackedTypes
<1>9. On(c, Bottom, F, <<Null>>, NewFolderLog, <<Null>>, NewFolderLog)
  <2>1. FrameOK(c, F) /\ Link(c, Bottom, F)
    BY <1>3 DEF FrameOK, Link
  <2>2. RootOn(c, Bottom, F, <<Null>>, <<Null>>)
    BY <1>3 DEF RootOn, RootHeld
  <2>3. FolderOn(c, Bottom, F, NewFolderLog, NewFolderLog)
    BY <1>3, <1>6, FolderOfRoot DEF FolderOn, FolderHeld, InWrap, Place
  <2> QED BY <2>1, <2>2, <2>3 DEF On
<1>10. Stacked(c, Append(<<>>, F), <<Null>>, NewFolderLog)
  BY <1>3, <1>7, <1>8, <1>9, StackedPush DEF BelowOf
<1>11. stack' = Append(<<>>, F)
  BY DEF WalkRoot, F
<1>12. Stacked(c, stack', RootLog', FolderLog')
  BY <1>4, <1>5, <1>10, <1>11
<1>13. Logs'
  <2>1. /\ root_stack_list' \in Seq(Roots(c)) /\ curr_root' \in Roots(c)
        /\ folder_stack_list' \in Seq(Seq(Keys(c))) /\ curr_folder' \in Seq(Keys(c))
    BY <1>1, KeptLogs DEF roots
  <2> QED BY <2>1 DEF Logs, c
<1>14. Going'
  <2>1. /\ TreeOK(child_list', Keys(c)) /\ pass' \cup hydrated' \subseteq Nodes'
    BY <1>1, KeptLogs
  <2>2. phase' \notin {"load", "check"}
    BY DEF Emitting
  <2> QED BY <1>12, <1>13, <2>1, <2>2 DEF Going, c
<1>15. shape' \in Shapes /\ phase' \in ToSet(PhaseList) \cup Final
  BY PhaseNames DEF IInv, Emitting
<1> QED BY <1>14, <1>15 DEF IInv

LEMMA FreshRecord ==
    ASSUME FreshContext, child_list' = child_list
    PROVE  Recorded' /\ curr_folder' = <<>> /\ folder_stack_list' = <<>>
<1>1. Nodes' = Nodes
  BY DEF Nodes
<1>2. runs' = [n \in Nodes |-> 0] /\ run_folder' = [n \in Nodes |-> <<>>]
  BY DEF FreshContext
<1>3. /\ runs' \in [Nodes -> Nat] /\ run_folder' = [n \in Nodes |-> run_folder'[n]]
      /\ \A n \in Nodes : ~(runs'[n] > 0)
  BY <1>2
<1> QED BY <1>1, <1>3 DEF FreshContext, Recorded

LEMMA LoadKeeps == ASSUME IInv, Load PROVE IInv'
<1>1. Going /\ stack = <<>> /\ found_count \in Nat
  BY DEF IInv, Load, PhaseDone, Final
<1>2. CASE shape.loads
  <2>1. /\ phase' = "nodegen" /\ stack' = WalkRoot /\ UNCHANGED <<shape, tree, roots, folds>>
    BY <1>2 DEF Load
  <2>2. curr_folder' = <<>> /\ folder_stack_list' = <<>>
    BY <1>1, <2>1, EmptyStacks DEF folds
  <2>3. Recorded'
    BY <2>1 DEF Recorded, Emitting
  <2> QED BY <1>1, <2>1, <2>2, <2>3, WalkBegins DEF tree
<1>3. CASE ~shape.loads
  BY <1>3 DEF Load, IInv, Final, tree
<1> QED BY <1>2, <1>3

LEMMA NodegenPassKeeps == ASSUME IInv, NodegenPass PROVE IInv'
<1>1. /\ Going /\ stack = <<>> /\ found_count \in Nat /\ phase = "nodegen"
      /\ UNCHANGED <<shape, child_list, pass, hydrated, roots, folds>>
  BY DEF IInv, NodegenPass, PhaseDone, Final
<1>2. CASE found_count > 0
  <2>1. /\ stack' = WalkRoot /\ found_count' = 0 /\ phase' = phase
    BY <1>2 DEF NodegenPass
  <2>2. curr_folder' = <<>> /\ folder_stack_list' = <<>>
    BY <1>1, EmptyStacks DEF folds
  <2>3. Recorded'
    BY <1>1, <2>1 DEF Recorded, Emitting
  <2> QED BY <1>1, <2>1, <2>2, <2>3, WalkBegins
<1>3. CASE ~(found_count > 0)
  <2>1. /\ phase' = "check" /\ stack' = <<>> /\ found_count' = found_count
    BY <1>1, <1>3 DEF NodegenPass
  <2>2. RootLog' = <<Null>> /\ FolderLog' = NewFolderLog
    BY <1>1, EmptyStacks DEF roots, folds, RootLog, FolderLog
  <2>3. Keys(Ctx') = Keys(Ctx) /\ Roots(Ctx') = Roots(Ctx) /\ Nodes' = Nodes
    BY <1>1 DEF Ctx, Keys, Roots, Nodes
  <2>4. Stacked(Ctx', stack', RootLog', FolderLog')
    BY <2>1, <2>2, StackedEmpty
  <2>5. Logs'
    BY <1>1, <2>3, KeptLogs DEF Logs, roots, folds
  <2>6. Going'
    BY <1>1, <2>1, <2>3, <2>4, <2>5, KeptLogs DEF Going, Recorded, Emitting
  <2> QED BY <1>1, <2>1, <2>6, PhaseNames DEF IInv
<1> QED BY <1>2, <1>3

LEMMA CheckKeeps == ASSUME IInv, Check PROVE IInv'
<1>1. Going /\ stack = <<>> /\ found_count \in Nat
  BY DEF IInv, Check, PhaseDone, Final
<1>2. CASE \A n \in Nodes : HasHandlers(n)
  <2>1. /\ phase' = "validator" /\ stack' = WalkRoot /\ FreshContext
        /\ UNCHANGED <<shape, tree, roots>>
    BY <1>2 DEF Check
  <2>2. Recorded' /\ curr_folder' = <<>> /\ folder_stack_list' = <<>>
    BY <2>1, FreshRecord DEF tree
  <2> QED BY <1>1, <2>1, <2>2, WalkBegins DEF tree, Emitting
<1>3. CASE ~ \A n \in Nodes : HasHandlers(n)
  BY <1>3, ThrowKeeps DEF Check
<1> QED BY <1>2, <1>3

LEMMA NextPhaseKeeps == ASSUME IInv, NextPhase PROVE IInv'
<1>1. Going /\ stack = <<>> /\ found_count \in Nat
  BY DEF IInv, NextPhase, Final
<1>2. /\ phase' \in Emitting /\ stack' = WalkRoot /\ FreshContext
      /\ UNCHANGED <<shape, tree, roots>>
  BY DEF NextPhase, Emitting
<1>3. Recorded' /\ curr_folder' = <<>> /\ folder_stack_list' = <<>>
  BY <1>2, FreshRecord DEF tree
<1> QED BY <1>1, <1>2, <1>3, WalkBegins DEF tree

LEMMA InitHolds == Init => IInv
<1> SUFFICES ASSUME Init PROVE IInv
  OBVIOUS
<1>1. /\ shape \in Shapes /\ phase = "load" /\ child_list = shape.declared
      /\ pass = {} /\ hydrated = {} /\ found_count = 0 /\ stack = <<>>
      /\ curr_root = Null /\ root_stack_list = <<>>
      /\ curr_folder = <<>> /\ folder_stack_list = <<>>
  BY DEF Init
<1>2. TreeOK(child_list, Keys(Ctx))
  BY <1>1, ShapesAssumption DEF Keys, Ctx
<1>3. Logs
  BY <1>1 DEF Logs, Roots
<1>4. RootLog = <<Null>> /\ FolderLog = NewFolderLog
  BY <1>1 DEF RootLog, FolderLog, NewFolderLog
<1>5. Stacked(Ctx, stack, RootLog, FolderLog)
  BY <1>1, <1>4, StackedEmpty
<1>6. Going
  BY <1>1, <1>2, <1>3, <1>5 DEF Going, Recorded, Emitting
<1> QED BY <1>1, <1>6, PhaseNames DEF IInv

LEMMA NextKeeps == IInv /\ [Next]_vars => IInv'
<1> SUFFICES ASSUME IInv, [Next]_vars PROVE IInv'
  OBVIOUS
<1>1. CASE Making
  BY <1>1, MakeHereKeeps, MakeWrappedKeeps, MakeOwnKeeps, MakeAboveKeeps, RunMadeKeeps,
     InjectToKeeps DEF Making
<1>2. CASE Handler /\ ~Making
  BY <1>2, FnCallKeeps, WalkOnlyKeeps, MarkKeeps, WalkRestKeeps, EnterFolderKeeps,
     LeaveFolderKeeps, EachProjectKeeps, FnReturnKeeps DEF Handler
<1>3. CASE Walk
  BY <1>3, WalkStartKeeps, MonoStartKeeps, KidOfWalkKeeps, KidOfMonoKeeps, KidOfEachKeeps,
     WalkEndKeeps, MonoEndKeeps, EachEndKeeps DEF Walk
<1>4. CASE Finish
  BY <1>4 DEF Finish, Answer, IInv, Final
<1>5. CASE Go /\ ~Finish
  BY <1>5, LoadKeeps, NodegenPassKeeps, CheckKeeps, NextPhaseKeeps DEF Go
<1>6. CASE UNCHANGED vars
  <2>1. /\ Ctx' = Ctx /\ Nodes' = Nodes /\ RootLog' = RootLog /\ FolderLog' = FolderLog
        /\ stack' = stack /\ shape' = shape /\ phase' = phase /\ child_list' = child_list
        /\ pass' = pass /\ hydrated' = hydrated /\ found_count' = found_count
        /\ UNCHANGED <<root_stack_list, curr_root, folder_stack_list, curr_folder, hist>>
    BY <1>6 DEF vars, tree, roots, folds, hist, Ctx, Nodes, RootLog, FolderLog
  <2>2. phase \notin Final => Recorded'
    BY <2>1, RecordedKept
  <2> QED BY <2>1, <2>2 DEF IInv, Going, Logs
<1> QED BY <1>1, <1>2, <1>3, <1>4, <1>5, <1>6 DEF Next, Over

LEMMA IInvAlways == Spec => []IInv
BY InitHolds, NextKeeps, PTL DEF Spec

-----------------------------------------------------------------------------
(* Between two walks both stacks are empty: each root_push and folder_push *)
(* of walk, walk_child_list_only, folder_wrap and monorepo meets its pop,  *)
(* whatever the handlers between them did.                                 *)
THEOREM StacksBalanced == Spec => []Balanced
<1>1. IInv => Balanced
  BY EmptyStacks DEF IInv, Balanced
<1> QED BY <1>1, IInvAlways, PTL

(* A validator or an emit handler runs in the folder of its node, however  *)
(* deep the folder wraps and the monorepos above it are nested.            *)
THEOREM EmittedInFolder == Spec => []EmitFolder
<1>1. IInv => EmitFolder
  BY DEF IInv, Going, Recorded, EmitFolder, Emitting, Final
<1> QED BY <1>1, IInvAlways, PTL

(* runner.coffee 34-56: a caller whose callback returns is answered once,  *)
(* or never when an exception escapes after an asynchronous command; the   *)
(* callback that throws inside the try is called a second time, with an    *)
(* error, and none is called a third time, whatever the blocks do.         *)
THEOREM AnswerOnce == Spec => []AnsweredOnce
<1>1. Init => AnsweredOnce
  BY DEF Init, AnsweredOnce
<1>2. AnsweredOnce /\ [Next]_vars => AnsweredOnce'
  <2> SUFFICES ASSUME AnsweredOnce, [Next]_vars PROVE AnsweredOnce'
    OBVIOUS
  <2>0. /\ phase \notin Final => outcome = <<>>
        /\ Append(<<>>, "ok") = <<"ok">> /\ Append(<<>>, "err") = <<"err">>
        /\ <<>> \o <<"ok">> = <<"ok">> /\ <<>> \o <<"err">> = <<"err">>
        /\ <<>> \o <<"ok", "err">> = <<"ok", "err">> /\ <<>> \o <<"err", "err">> = <<"err", "err">>
    BY DEF AnsweredOnce, Final
  <2>1. ASSUME phase \notin Final, Throw PROVE AnsweredOnce'
    <3>1. CASE sync /\ Answer("failed", "err", FALSE)
      BY <2>0, <2>1, <3>1 DEF Answer, AnsweredOnce
    <3>2. CASE phase' = "crashed" /\ outcome' = outcome
      BY <2>0, <2>1, <3>2 DEF AnsweredOnce
    <3> QED BY <2>1, <3>1, <3>2 DEF Throw
  <2>2. ASSUME UNCHANGED <<phase, outcome>>, phase \notin Final \/ sync' = sync PROVE AnsweredOnce'
    BY <2>2 DEF AnsweredOnce, Final
  <2>3. CASE FnCall
    <3>1. phase \notin Final
      BY <2>3 DEF FnCall, At
    <3>2. CASE Answer("failed", "err", sync)
      BY <2>0, <3>1, <3>2 DEF Answer, AnsweredOnce
    <3>3. \/ UNCHANGED <<phase, outcome>>
          \/ Throw
          \/ Answer("failed", "err", sync)
      BY <2>3 DEF FnCall
    <3> QED BY <2>1, <2>2, <3>1, <3>2, <3>3
  <2>4. CASE Making
    <3>1. phase \notin Final
      BY <2>4 DEF Making, MakeHere, MakeWrapped, MakeOwn, MakeAbove, RunMade, InjectTo, AtOp, At
    <3>2. UNCHANGED <<phase, outcome>> \/ Throw
      BY <2>4 DEF Making, MakeHere, MakeWrapped, MakeOwn, MakeAbove, RunMade, InjectTo, MadeOnly
    <3> QED BY <2>1, <2>2, <3>1, <3>2
  <2>5. CASE Handler /\ ~FnCall /\ ~Making
    <3>1. CASE WalkOnly
      <4>1. phase \notin Final /\ (UNCHANGED <<phase, outcome>> \/ Throw)
        BY <3>1 DEF WalkOnly, AtOp, At
      <4> QED BY <2>1, <2>2, <4>1
    <3>2. CASE ~WalkOnly
      <4>1. UNCHANGED <<phase, outcome>> /\ phase \notin Final
        BY <2>5, <3>2 DEF Handler, Mark, WalkRest, EnterFolder, LeaveFolder, EachProject, FnReturn,
                          AtOp, At
      <4> QED BY <2>2, <4>1
    <3> QED BY <3>1, <3>2
  <2>6. CASE Walk
    <3>1. CASE KidOfEach
      <4>1. phase \notin Final /\ (UNCHANGED <<phase, outcome>> \/ Throw)
        BY <3>1 DEF KidOfEach, At
      <4> QED BY <2>1, <2>2, <4>1
    <3>2. CASE ~KidOfEach
      <4>1. UNCHANGED <<phase, outcome, sync>>
        BY <2>6, <3>2 DEF Walk, WalkStart, MonoStart, KidOfWalk, KidOfMono, WalkEnd, MonoEnd, EachEnd
      <4> QED BY <2>2, <4>1
    <3> QED BY <3>1, <3>2
  <2>7. CASE Load
    BY <2>0, <2>7 DEF Load, PhaseDone, AnsweredOnce, Final
  <2>8. CASE NodegenPass
    BY <2>8 DEF NodegenPass, PhaseDone, AnsweredOnce
  <2>9. CASE Check
    <3>1. phase \notin Final
      BY <2>9 DEF Check, PhaseDone, Final
    <3>2. Throw \/ (phase' = "validator" /\ outcome' = outcome /\ phase = "check")
      BY <2>9 DEF Check, PhaseDone
    <3>3. CASE phase' = "validator" /\ outcome' = outcome /\ phase = "check"
      BY <3>3 DEF AnsweredOnce
    <3> QED BY <2>1, <3>1, <3>2, <3>3
  <2>10. CASE NextPhase
    BY <2>10 DEF NextPhase, AnsweredOnce
  <2>11. CASE Finish
    BY <2>0, <2>11 DEF Finish, PhaseDone, Answer, AnsweredOnce, Final
  <2>12. CASE UNCHANGED vars
    BY <2>2, <2>12 DEF vars
  <2> QED BY <2>3, <2>4, <2>5, <2>6, <2>7, <2>8, <2>9, <2>10, <2>11, <2>12 DEF Next, Go, Over
<1> QED BY <1>1, <1>2, PTL DEF Spec

(* Whatever the blocks do, the tree stays closed under parents and every   *)
(* node, frame and root the engine holds is of it.                         *)
THEOREM TypesHold == Spec => []TypeOK
<1>1. IInv /\ AnsweredOnce => TypeOK
  <2> SUFFICES ASSUME IInv, AnsweredOnce PROVE TypeOK
    OBVIOUS
  <2>1. outcome \in Seq({"ok", "err"})
    <3>1. /\ <<>> \in Seq({"ok", "err"}) /\ <<"ok">> \in Seq({"ok", "err"}) /\ <<"err">> \in Seq({"ok", "err"})
          /\ <<"ok", "err">> \in Seq({"ok", "err"}) /\ <<"err", "err">> \in Seq({"ok", "err"})
      OBVIOUS
    <3> QED BY <3>1 DEF AnsweredOnce
  <2>2. ASSUME phase \notin Final
        PROVE  /\ DocRoot \in Nodes
               /\ \A n \in Nodes : \A k \in ToSet(child_list[n]) : Append(n, k) \in Nodes
               /\ \A n \in Nodes \ {DocRoot} : Front(n) \in Nodes
               /\ pass \cup hydrated \subseteq Nodes
               /\ curr_root \in Nodes \cup {Null}
    <3>1. Going
      BY <2>2 DEF IInv
    <3>2. TreeOK(child_list, Keys(Ctx)) /\ curr_root \in Roots(Ctx) /\ pass \cup hydrated \subseteq Nodes
      BY <3>1, KeptLogs
    <3>3. DocRoot \in Nodes
      BY <3>2 DEF TreeOK, DocRoot, Nodes
    <3>4. ASSUME NEW n \in Nodes, NEW k \in ToSet(child_list[n]) PROVE Append(n, k) \in Nodes
      BY <3>2 DEF TreeOK, ToSet, Nodes
    <3>5. ASSUME NEW n \in Nodes \ {DocRoot} PROVE Front(n) \in Nodes
      <4>1. n \in Seq(Keys(Ctx)) /\ n # <<>> /\ \A i \in 0..Len(n) : SubSeq(n, 1, i) \in Nodes
        BY <3>2 DEF TreeOK, DocRoot, Nodes
      <4>2. Len(n) - 1 \in 0..Len(n)
        BY <4>1, Split
      <4> QED BY <4>1, <4>2 DEF Front
    <3>6. curr_root \in Nodes \cup {Null}
      BY <3>2 DEF Roots, Ctx, Nodes
    <3> QED BY <3>2, <3>3, <3>4, <3>5, <3>6
  <2> QED BY <2>1, <2>2 DEF IInv, TypeOK
<1> QED BY <1>1, IInvAlways, AnswerOnce, PTL

-----------------------------------------------------------------------------
(* Every handler once.  In an emit phase the tree does not change, and the *)
(* frames tell which nodes were visited: a node that is on no frame and    *)
(* was visited has its children visited, unless it skips them; a frame     *)
(* that loops over its children has visited those before the one above it. *)

Kid(c, n, i)        == Append(n, c.tree[n][i])
KidsRan(c, r, n, v) == \A i \in 1..Len(c.tree[n]) : r[Kid(c, n, i)] = v
Skips(c, n)         == c.phase \in c.shape.block[KeyIn(c.shape, n)].skips
Closed(c, r, n)     == KidsRan(c, r, n, IF Skips(c, n) THEN 0 ELSE 1)

\* The loop of frame f, the child it started last being done when f is on top.
Looped(c, r, f, top) ==
    \A i \in 1..Len(c.tree[f.n]) :
        /\ i < f.pc - 1 => r[Kid(c, f.n, i)] = 1
        /\ i >= f.pc => r[Kid(c, f.n, i)] = 0
        /\ i = f.pc - 1 /\ top => r[Kid(c, f.n, i)] = 1

\* What frame f tells of its node and of the children of its node.
FrameRan(c, r, f, top) ==
    /\ f.pc = 0 /\ top => r[f.n] = 0
    /\ f.pc > 0 => r[f.n] = 1
    /\ f.k \in {"walk", "mono"} /\ f.pc > 0 =>
         IF SelfWalks(c, f.n) \/ Skips(c, f.n)
         THEN top /\ f.pc > Len(c.tree[f.n]) /\ Closed(c, r, f.n)
         ELSE Looped(c, r, f, top)
    /\ f.k \in {"only", "each"} => f.pc > 0 /\ SelfWalks(c, f.n) /\ Looped(c, r, f, top)
    /\ f.k = "fn" /\ f.pc > 0 /\ top =>
         KidsRan(c, r, f.n, IF SelfWalks(c, f.n) /\ f.pc > LoopPc(c, f.n) THEN 1 ELSE 0)

Prefix(a, b) == Len(a) <= Len(b) /\ SubSeq(b, 1, Len(a)) = a
OpenNodes(s) == {s[d].n : d \in 1..Len(s)}

\* No node was visited before its parent.
Counted(c, r) ==
    /\ r \in [DOMAIN c.tree -> {0, 1}]
    /\ \A n \in DOMAIN c.tree : r[n] = 0 => KidsRan(c, r, n, 0)

\* The nodes that are not open are done with.
Visited(c, r, open) == \A n \in DOMAIN c.tree \ open : r[n] = 1 => Closed(c, r, n)

\* The frames under one that stands on node m.
Waiting(c, r, u, m) ==
    \A d \in 1..Len(u) : /\ FrameRan(c, r, u[d], FALSE) /\ Prefix(u[d].n, m)
                         /\ \A e \in d..Len(u) : Prefix(u[d].n, u[e].n)

Ran(c, r, s) ==
    /\ Counted(c, r)
    /\ Visited(c, r, OpenNodes(s))
    /\ s = <<>> => r[<<>>] = 1
    /\ s # <<>> => FrameRan(c, r, Last(s), TRUE) /\ Waiting(c, r, Front(s), Last(s).n)

Once == phase \in Emitting => Ran(Ctx, runs, stack)

\* The frames alone: each may stand on the one under it.
Chain(c, s) ==
    /\ s \in Seq(FrameSet(c))
    /\ \A d \in 1..Len(s) : FrameOK(c, s[d]) /\ Link(c, IF d = 1 THEN Bottom ELSE s[d - 1], s[d])

LEMMA StackedChain ==
    ASSUME NEW c, NEW s, NEW r, NEW g, Stacked(c, s, r, g)
    PROVE  Chain(c, s)
BY DEF Stacked, Chain, On

LEMMA PrefixTwice ==
    ASSUME NEW K, NEW a \in Seq(K), NEW b \in Seq(K), NEW e \in Seq(K),
           Prefix(a, b), Prefix(b, e)
    PROVE  Prefix(a, e)
<1>1. Len(a) <= Len(e) /\ Len(a) \in Nat /\ Len(b) \in Nat /\ Len(a) <= Len(b) /\ Len(e) \in Nat
      /\ Len(b) <= Len(e)
  BY DEF Prefix
<1>2. /\ SubSeq(e, 1, Len(a)) \in Seq(K) /\ Len(SubSeq(e, 1, Len(a))) = Len(a)
      /\ \A j \in 1..Len(a) : SubSeq(e, 1, Len(a))[j] = e[j]
  BY <1>1
<1>3. \A j \in 1..Len(b) : SubSeq(e, 1, Len(b))[j] = e[j]
  BY <1>1
<1>4. \A j \in 1..Len(a) : SubSeq(b, 1, Len(a))[j] = b[j]
  BY <1>1
<1>5. \A j \in 1..Len(a) : SubSeq(e, 1, Len(a))[j] = a[j]
  <2>1. SubSeq(e, 1, Len(b)) = b /\ SubSeq(b, 1, Len(a)) = a
    BY DEF Prefix
  <2> QED BY <1>1, <1>2, <1>3, <1>4, <2>1
<1>6. SubSeq(e, 1, Len(a)) = a
  BY <1>2, <1>5, SeqEqual
<1> QED BY <1>1, <1>6 DEF Prefix

LEMMA PrefixAppend ==
    ASSUME NEW K, NEW a \in Seq(K), NEW k \in K
    PROVE  Prefix(a, a) /\ Prefix(a, Append(a, k))
<1>1. SubSeq(a, 1, Len(a)) = a /\ Len(a) \in Nat /\ Len(a) \in 0..Len(a)
  BY SubSeqFull
<1>2. Len(Append(a, k)) = Len(a) + 1 /\ SubSeq(Append(a, k), 1, Len(a)) = SubSeq(a, 1, Len(a))
  BY <1>1, Appended
<1> QED BY <1>1, <1>2 DEF Prefix

LEMMA OpenAppended ==
    ASSUME NEW S, NEW u \in Seq(S), NEW e \in S
    PROVE  OpenNodes(Append(u, e)) = OpenNodes(u) \cup {e.n}
<1> DEFINE t == Append(u, e)
<1>1. /\ Len(t) = Len(u) + 1 /\ \A i \in 1..Len(u) : t[i] = u[i]
      /\ t[Len(u) + 1] = e /\ Len(u) \in Nat
  BY AppendProperties
<1> HIDE DEF t
<1>2. \A d \in 1..Len(t) : d \in 1..Len(u) \/ d = Len(u) + 1
  BY <1>1
<1>3. (\A d \in 1..Len(u) : d \in 1..Len(t)) /\ Len(u) + 1 \in 1..Len(t)
  BY <1>1
<1>4. OpenNodes(t) = OpenNodes(u) \cup {e.n}
  BY <1>1, <1>2, <1>3 DEF OpenNodes
<1> QED BY <1>4 DEF t

\* What stands on node m leaves what stands under it as it is.
LEMMA WaitingAppended ==
    ASSUME NEW c, TreeOK(c.tree, Keys(c)), NEW r, NEW u \in Seq(FrameSet(c)),
           NEW e \in FrameSet(c), NEW m \in Seq(Keys(c))
    PROVE  Waiting(c, r, Append(u, e), m) <=>
              Waiting(c, r, u, e.n) /\ FrameRan(c, r, e, FALSE) /\ Prefix(e.n, m)
<1> DEFINE t == Append(u, e)
<1>1. /\ Len(t) = Len(u) + 1 /\ \A i \in 1..Len(u) : t[i] = u[i]
      /\ t[Len(u) + 1] = e /\ Len(u) \in Nat
  BY AppendProperties
<1>2. ASSUME NEW f \in FrameSet(c) PROVE f.n \in Seq(Keys(c))
  BY DEF FrameSet, TreeOK
<1>3. e.n \in Seq(Keys(c)) /\ \A d \in 1..Len(u) : u[d].n \in Seq(Keys(c))
  BY <1>2
<1> HIDE DEF t
<1>4. ASSUME Waiting(c, r, t, m)
      PROVE  Waiting(c, r, u, e.n) /\ FrameRan(c, r, e, FALSE) /\ Prefix(e.n, m)
  <2>1. Len(u) + 1 \in 1..Len(t)
    BY <1>1
  <2>2. FrameRan(c, r, e, FALSE) /\ Prefix(e.n, m)
    BY <1>1, <1>4, <2>1 DEF Waiting
  <2>3. ASSUME NEW d \in 1..Len(u)
        PROVE  /\ FrameRan(c, r, u[d], FALSE) /\ Prefix(u[d].n, e.n)
               /\ \A j \in d..Len(u) : Prefix(u[d].n, u[j].n)
    <3>1. d \in 1..Len(t) /\ Len(u) + 1 \in d..Len(t)
      BY <1>1
    <3>2. FrameRan(c, r, t[d], FALSE) /\ \A j \in d..Len(t) : Prefix(t[d].n, t[j].n)
      BY <1>4, <3>1 DEF Waiting
    <3>3. \A j \in d..Len(u) : j \in d..Len(t) /\ j \in 1..Len(u)
      BY <1>1
    <3> QED BY <1>1, <3>1, <3>2, <3>3
  <2> QED BY <2>2, <2>3 DEF Waiting
<1>5. ASSUME Waiting(c, r, u, e.n), FrameRan(c, r, e, FALSE), Prefix(e.n, m)
      PROVE  Waiting(c, r, t, m)
  <2> SUFFICES ASSUME NEW d \in 1..Len(t)
               PROVE  /\ FrameRan(c, r, t[d], FALSE) /\ Prefix(t[d].n, m)
                      /\ \A j \in d..Len(t) : Prefix(t[d].n, t[j].n)
    BY DEF Waiting
  <2>1. CASE d \in 1..Len(u)
    <3>1. /\ FrameRan(c, r, u[d], FALSE) /\ Prefix(u[d].n, e.n)
          /\ \A j \in d..Len(u) : Prefix(u[d].n, u[j].n)
      BY <1>5, <2>1 DEF Waiting
    <3>2. Prefix(u[d].n, m)
      BY <1>3, <1>5, <2>1, <3>1, PrefixTwice
    <3>3. \A j \in d..Len(t) : j = Len(u) + 1 \/ (j \in d..Len(u) /\ j \in 1..Len(u))
      BY <1>1, <2>1
    <3> QED BY <1>1, <2>1, <3>1, <3>2, <3>3
  <2>2. CASE d = Len(u) + 1
    <3>1. \A j \in d..Len(t) : j = d
      BY <1>1, <2>2
    <3>2. Prefix(e.n, e.n)
      <4>1. SubSeq(e.n, 1, Len(e.n)) = e.n /\ Len(e.n) \in Nat
        BY <1>3, SubSeqFull
      <4> QED BY <4>1 DEF Prefix
    <3> QED BY <1>1, <1>5, <2>2, <3>1, <3>2
  <2>3. d \in 1..Len(u) \/ d = Len(u) + 1
    BY <1>1
  <2> QED BY <2>1, <2>2, <2>3
<1> QED BY <1>4, <1>5 DEF t

LEMMA RanAppended ==
    ASSUME NEW c, NEW r, NEW u \in Seq(FrameSet(c)), NEW f \in FrameSet(c)
    PROVE  Ran(c, r, Append(u, f)) <=>
              /\ Counted(c, r) /\ Visited(c, r, OpenNodes(u) \cup {f.n})
              /\ FrameRan(c, r, f, TRUE) /\ Waiting(c, r, u, f.n)
<1>1. Append(u, f) # <<>> /\ Front(Append(u, f)) = u /\ Last(Append(u, f)) = f
  BY Appended
<1>2. OpenNodes(Append(u, f)) = OpenNodes(u) \cup {f.n}
  BY OpenAppended
<1> QED BY <1>1, <1>2 DEF Ran

(* The three ways the stack moves while the counts stay: the top frame     *)
(* steps; it steps and another comes to stand on it; it leaves, and the    *)
(* one under it may step.                                                  *)
LEMMA RanSteps ==
    ASSUME NEW c, NEW r, NEW u \in Seq(FrameSet(c)), NEW f \in FrameSet(c),
           Ran(c, r, Append(u, f)), NEW e \in FrameSet(c), e.n = f.n, FrameRan(c, r, e, TRUE)
    PROVE  Ran(c, r, Append(u, e))
BY RanAppended

LEMMA RanPushes ==
    ASSUME NEW c, TreeOK(c.tree, Keys(c)), NEW r, NEW u \in Seq(FrameSet(c)),
           NEW f \in FrameSet(c), Ran(c, r, Append(u, f)),
           NEW e \in FrameSet(c), e.n = f.n, FrameRan(c, r, e, FALSE),
           NEW g \in FrameSet(c), Prefix(f.n, g.n), FrameRan(c, r, g, TRUE)
    PROVE  Ran(c, r, Append(Append(u, e), g))
<1>1. g.n \in Seq(Keys(c))
  BY DEF FrameSet, TreeOK
<1>2. Append(u, e) \in Seq(FrameSet(c))
  BY AppendProperties
<1>3. /\ Counted(c, r) /\ Visited(c, r, OpenNodes(u) \cup {f.n}) /\ Waiting(c, r, u, f.n)
  BY RanAppended
<1>4. Waiting(c, r, Append(u, e), g.n)
  BY <1>1, <1>3, WaitingAppended
<1>5. Visited(c, r, OpenNodes(Append(u, e)) \cup {g.n})
  <2>1. OpenNodes(Append(u, e)) = OpenNodes(u) \cup {f.n}
    BY OpenAppended
  <2> QED BY <1>3, <2>1 DEF Visited
<1> QED BY <1>2, <1>3, <1>4, <1>5, RanAppended

LEMMA RanPops ==
    ASSUME NEW c, TreeOK(c.tree, Keys(c)), NEW r, NEW u \in Seq(FrameSet(c)),
           NEW b \in FrameSet(c), NEW f \in FrameSet(c), Ran(c, r, Append(Append(u, b), f)),
           f.n = b.n \/ Closed(c, r, f.n),
           NEW e \in FrameSet(c), e.n = b.n, FrameRan(c, r, e, TRUE)
    PROVE  Ran(c, r, Append(u, e))
<1>1. f.n \in Seq(Keys(c)) /\ Append(u, b) \in Seq(FrameSet(c))
  BY AppendProperties DEF FrameSet, TreeOK
<1>2. /\ Counted(c, r) /\ Visited(c, r, OpenNodes(Append(u, b)) \cup {f.n})
      /\ Waiting(c, r, Append(u, b), f.n)
  BY <1>1, RanAppended
<1>3. Waiting(c, r, u, b.n)
  BY <1>1, <1>2, WaitingAppended
<1>4. Visited(c, r, OpenNodes(u) \cup {b.n})
  <2>1. OpenNodes(Append(u, b)) = OpenNodes(u) \cup {b.n}
    BY OpenAppended
  <2> QED BY <1>2, <2>1 DEF Visited
<1> QED BY <1>2, <1>3, <1>4, RanAppended

LEMMA RanWaits ==
    ASSUME NEW c, TreeOK(c.tree, Keys(c)), NEW r, NEW u \in Seq(FrameSet(c)),
           NEW b \in FrameSet(c), NEW f \in FrameSet(c), Ran(c, r, Append(Append(u, b), f))
    PROVE  FrameRan(c, r, b, FALSE) /\ FrameRan(c, r, f, TRUE) /\ Prefix(b.n, f.n)
<1>1. f.n \in Seq(Keys(c)) /\ Append(u, b) \in Seq(FrameSet(c))
  BY AppendProperties DEF FrameSet, TreeOK
<1>2. Waiting(c, r, Append(u, b), f.n) /\ FrameRan(c, r, f, TRUE)
  BY <1>1, RanAppended
<1> QED BY <1>1, <1>2, WaitingAppended

(* The handler of the top frame is called: its node counts one, and none   *)
(* of the frames under it, nor a node done with, had counted it.           *)
LEMMA RanCalls ==
    ASSUME NEW c, TreeOK(c.tree, Keys(c)), c.phase # "nodegen", NEW r,
           NEW u \in Seq(FrameSet(c)), NEW f \in FrameSet(c), Chain(c, Append(u, f)),
           f.k = "fn", f.pc = 0, Ran(c, r, Append(u, f)),
           NEW e \in FrameSet(c), e.k = "fn", e.n = f.n, e.pc = 1,
           NEW q \in [DOMAIN c.tree -> {0, 1}], q[f.n] = 1,
           \A n \in DOMAIN c.tree : n # f.n => q[n] = r[n]
    PROVE  Ran(c, q, Append(u, e))
<1> DEFINE D == DOMAIN c.tree
           t == Append(u, f)
           N == Len(u)
           m == f.n
           K == Keys(c)
<1>1. /\ Counted(c, r) /\ Visited(c, r, OpenNodes(u) \cup {m}) /\ Waiting(c, r, u, m)
      /\ FrameRan(c, r, f, TRUE)
  BY RanAppended
<1>2. m \in D /\ r[m] = 0 /\ r \in [D -> {0, 1}]
  BY <1>1 DEF FrameRan, FrameSet, Counted
<1>3. q \in [D -> {0, 1}] /\ q[m] = 1 /\ \A n \in D \ {m} : q[n] = r[n]
  BY <1>2
<1>4. \A n \in D : n \in Seq(K) /\ \A i \in 1..Len(c.tree[n]) :
                      /\ Kid(c, n, i) \in D /\ Front(Kid(c, n, i)) = n
                      /\ Kid(c, n, i) # <<>> /\ Len(Kid(c, n, i)) = Len(n) + 1
  <2> SUFFICES ASSUME NEW n \in D
               PROVE  n \in Seq(K) /\ \A i \in 1..Len(c.tree[n]) :
                      /\ Kid(c, n, i) \in D /\ Front(Kid(c, n, i)) = n
                      /\ Kid(c, n, i) # <<>> /\ Len(Kid(c, n, i)) = Len(n) + 1
    OBVIOUS
  <2>1. n \in Seq(K) /\ c.tree[n] \in Seq(K)
    BY DEF TreeOK
  <2>2. ASSUME NEW i \in 1..Len(c.tree[n])
        PROVE  /\ Kid(c, n, i) \in D /\ Front(Kid(c, n, i)) = n
               /\ Kid(c, n, i) # <<>> /\ Len(Kid(c, n, i)) = Len(n) + 1
    <3>1. c.tree[n][i] \in K
      BY <2>1
    <3>2. Kid(c, n, i) \in D
      BY DEF TreeOK, Kid
    <3> QED BY <2>1, <3>1, <3>2, Appended DEF Kid
  <2> QED BY <2>1, <2>2
<1>5. /\ t \in Seq(FrameSet(c)) /\ Len(t) = N + 1 /\ N \in Nat
      /\ t[N + 1] = f /\ \A d \in 1..N : t[d] = u[d]
  BY AppendProperties
<1>6. \A d \in 1..(N + 1) : FrameOK(c, t[d]) /\ Link(c, IF d = 1 THEN Bottom ELSE t[d - 1], t[d])
  BY <1>5 DEF Chain
<1> HIDE DEF t, D, K
<1>7. \A d \in 1..N : FrameOK(c, u[d]) /\ Link(c, u[d], t[d + 1]) /\ u[d] \in FrameSet(c)
  <2> SUFFICES ASSUME NEW d \in 1..N
               PROVE  FrameOK(c, u[d]) /\ Link(c, u[d], t[d + 1]) /\ u[d] \in FrameSet(c)
    OBVIOUS
  <2>1. d \in 1..(N + 1) /\ d + 1 \in 1..(N + 1) /\ d + 1 # 1 /\ (d + 1) - 1 = d
    BY <1>5
  <2> QED BY <1>5, <1>6, <2>1
(* The parent of the node called is open and was visited.                  *)
<1>8. m # <<>> => Front(m) \in OpenNodes(u) /\ r[Front(m)] = 1
  <2> SUFFICES ASSUME m # <<>> PROVE Front(m) \in OpenNodes(u) /\ r[Front(m)] = 1
    OBVIOUS
  <2>1. N # 0 /\ N \in 1..N
    <3>1. ASSUME N = 0 PROVE FALSE
      <4>1. Link(c, Bottom, f)
        BY <1>5, <1>6, <3>1
      <4> QED BY <4>1 DEF Link, Bottom, Frame
    <3> QED BY <1>5, <3>1
  <2> DEFINE b == u[N]
  <2>2. b \in FrameSet(c) /\ Link(c, b, f)
    BY <1>5, <1>7, <2>1
  <2>3. b.k \in {"walk", "mono"} /\ b.pc = 0 /\ b.n = m
    <3>1. b # Bottom
      BY <2>2 DEF FrameSet, Bottom, Frame, Kinds
    <3> QED BY <2>2, <3>1 DEF Link
  <2>4. N # 1
    <3>1. ASSUME N = 1 PROVE FALSE
      <4>1. Link(c, Bottom, b)
        BY <1>5, <1>6, <2>1, <3>1
      <4> QED BY <2>3, <4>1 DEF Link, Bottom, Frame
    <3> QED BY <3>1
  <2>5. N - 1 \in 1..N /\ (N - 1) + 1 = N
    <3>1. N \in Nat /\ N # 0 /\ N # 1
      BY <1>5, <2>1, <2>4
    <3> HIDE DEF N
    <3> QED BY <3>1
  <2> DEFINE a == u[N - 1]
  <2>6. a \in FrameSet(c) /\ Link(c, a, b)
    BY <1>5, <1>7, <2>1, <2>5
  <2>7. KidFrame(c, a, b)
    <3>1. a # Bottom
      BY <2>6 DEF FrameSet, Bottom, Frame, Kinds
    <3> QED BY <2>3, <2>6, <3>1 DEF Link
  <2>8. a.n \in D /\ a.pc \in Nat /\ a.pc - 1 \in 1..Len(c.tree[a.n])
    BY <2>6, <2>7 DEF FrameSet, KidFrame, D
  <2>9. m = Kid(c, a.n, a.pc - 1)
    BY <2>3, <2>7 DEF KidFrame, Kid
  <2>10. Front(m) = a.n
    BY <1>4, <2>8, <2>9
  <2>11. r[a.n] = 1
    <3>1. \A d \in 1..N : FrameRan(c, r, u[d], FALSE)
      BY <1>1 DEF Waiting
    <3>2. FrameRan(c, r, a, FALSE)
      BY <2>5, <3>1
    <3>3. a.pc > 0
      BY <2>8
    <3> QED BY <3>2, <3>3 DEF FrameRan
  <2>12. a.n \in OpenNodes(u)
    BY <2>5 DEF OpenNodes
  <2> QED BY <2>10, <2>11, <2>12
<1>9. ASSUME NEW n \in D, NEW i \in 1..Len(c.tree[n]), Kid(c, n, i) = m
      PROVE  r[n] = 1 /\ n \in OpenNodes(u)
  BY <1>4, <1>8, <1>9
<1>10. Counted(c, q)
  <2>1. ASSUME NEW n \in D, q[n] = 0 PROVE KidsRan(c, q, n, 0)
    <3>1. n # m /\ r[n] = 0
      BY <1>3, <2>1
    <3>2. KidsRan(c, r, n, 0)
      BY <1>1, <3>1 DEF Counted, D
    <3>3. ASSUME NEW i \in 1..Len(c.tree[n]) PROVE q[Kid(c, n, i)] = 0
      <4>1. Kid(c, n, i) \in D /\ Kid(c, n, i) # m
        BY <1>4, <1>9, <3>1
      <4> QED BY <1>3, <3>2, <4>1 DEF KidsRan
    <3> QED BY <3>3 DEF KidsRan
  <2> QED BY <1>3, <2>1 DEF Counted, D
<1>11. Visited(c, q, OpenNodes(u) \cup {m})
  <2>1. ASSUME NEW n \in D \ (OpenNodes(u) \cup {m}), q[n] = 1 PROVE Closed(c, q, n)
    <3>1. r[n] = 1 /\ Closed(c, r, n)
      BY <1>1, <1>3, <2>1 DEF Visited, D
    <3>2. ASSUME NEW i \in 1..Len(c.tree[n]) PROVE q[Kid(c, n, i)] = r[Kid(c, n, i)]
      <4>1. Kid(c, n, i) \in D /\ Kid(c, n, i) # m
        BY <1>4, <1>9, <2>1
      <4> QED BY <1>3, <4>1
    <3> QED BY <3>1, <3>2 DEF Closed, KidsRan
  <2> QED BY <2>1 DEF Visited, D
<1>12. Waiting(c, q, u, m)
  <2>1. ASSUME NEW d \in 1..N PROVE FrameRan(c, q, u[d], FALSE)
    <3> DEFINE g == u[d]
               a == t[d + 1]
    <3>1. FrameRan(c, r, g, FALSE)
      BY <1>1 DEF Waiting
    <3>2. g \in FrameSet(c) /\ g.n \in D /\ g.pc \in Nat /\ Link(c, g, a)
      BY <1>7 DEF FrameSet, D
    <3>3. Prefix(a.n, m) /\ a.n \in Seq(K)
      <4>1. CASE d = N
        <5>1. a = f /\ m \in Seq(K)
          BY <1>2, <1>4, <1>5, <4>1
        <5> QED BY <5>1, PrefixAppend DEF Prefix
      <4>2. CASE d # N
        <5>1. d + 1 \in 1..N
          BY <1>5, <4>2
        <5>2. a = u[d + 1] /\ a.n \in D
          BY <1>5, <1>7, <5>1 DEF FrameSet, D
        <5> QED BY <1>1, <1>4, <5>1, <5>2 DEF Waiting
      <4> QED BY <4>1, <4>2
    <3> HIDE DEF g, a
    <3>4. ASSUME Looped(c, r, g, FALSE), KidFrame(c, g, a) PROVE Looped(c, q, g, FALSE)
      <4> SUFFICES ASSUME NEW i \in 1..Len(c.tree[g.n])
                   PROVE  /\ i < g.pc - 1 => q[Kid(c, g.n, i)] = 1
                          /\ i >= g.pc => q[Kid(c, g.n, i)] = 0
        BY DEF Looped
      <4>1. /\ i < g.pc - 1 => r[Kid(c, g.n, i)] = 1
            /\ i >= g.pc => r[Kid(c, g.n, i)] = 0
        BY <3>4 DEF Looped
      <4>2. Kid(c, g.n, i) \in D /\ Len(Kid(c, g.n, i)) = Len(g.n) + 1
        BY <1>4, <3>2
      <4>3. g.pc - 1 \in 1..Len(c.tree[g.n]) /\ a.n = Kid(c, g.n, g.pc - 1)
        BY <3>4 DEF KidFrame, Kid
      <4>4. ASSUME Kid(c, g.n, i) = m PROVE i = g.pc - 1
        <5>1. Len(a.n) = Len(m) /\ m \in Seq(K)
          BY <1>2, <1>4, <3>2, <4>2, <4>3, <4>4
        <5>2. a.n = m
          <6>1. SubSeq(m, 1, Len(m)) = m
            BY <5>1, SubSeqFull
          <6> QED BY <3>3, <5>1, <6>1 DEF Prefix
        <5>3. c.tree[g.n] \in Seq(K) /\ g.n \in Seq(K)
          BY <3>2 DEF TreeOK, D, K
        <5>4. c.tree[g.n][i] = c.tree[g.n][g.pc - 1]
          <6>1. Last(Kid(c, g.n, i)) = c.tree[g.n][i]
            BY <5>3, Appended DEF Kid
          <6>2. Last(Kid(c, g.n, g.pc - 1)) = c.tree[g.n][g.pc - 1]
            <7>1. c.tree[g.n][g.pc - 1] \in K
              BY <4>3, <5>3
            <7> QED BY <5>3, <7>1, Appended DEF Kid
          <6> QED BY <4>3, <4>4, <5>2, <6>1, <6>2
        <5>5. \A x, y \in 1..Len(c.tree[g.n]) : c.tree[g.n][x] = c.tree[g.n][y] => x = y
          BY <3>2 DEF TreeOK, D
        <5> QED BY <4>3, <5>4, <5>5
      <4>5. i < g.pc - 1 => q[Kid(c, g.n, i)] = 1
        BY <1>3, <4>1, <4>2
      <4>6. i >= g.pc => q[Kid(c, g.n, i)] = 0
        <5>1. i >= g.pc => Kid(c, g.n, i) # m
          BY <3>2, <4>4
        <5> QED BY <1>3, <4>1, <4>2, <5>1
      <4> QED BY <4>5, <4>6
    <3>5. g # Bottom
      BY <3>2 DEF FrameSet, Bottom, Frame, Kinds
    <3>6. g.pc > 0 => q[g.n] = 1
      BY <1>3, <3>1, <3>2 DEF FrameRan
    <3>7. g.k \in {"walk", "mono"} /\ g.pc > 0 =>
             ~(SelfWalks(c, g.n) \/ Skips(c, g.n)) /\ Looped(c, q, g, FALSE)
      <4> SUFFICES ASSUME g.k \in {"walk", "mono"}, g.pc > 0
                   PROVE  ~(SelfWalks(c, g.n) \/ Skips(c, g.n)) /\ Looped(c, q, g, FALSE)
        OBVIOUS
      <4>1. ~(SelfWalks(c, g.n) \/ Skips(c, g.n)) /\ Looped(c, r, g, FALSE)
        BY <3>1 DEF FrameRan
      <4>2. KidFrame(c, g, a)
        BY <3>2, <3>5 DEF Link
      <4> QED BY <3>4, <4>1, <4>2
    <3>8. g.k \in {"only", "each"} => g.pc > 0 /\ SelfWalks(c, g.n) /\ Looped(c, q, g, FALSE)
      <4> SUFFICES ASSUME g.k \in {"only", "each"}
                   PROVE  g.pc > 0 /\ SelfWalks(c, g.n) /\ Looped(c, q, g, FALSE)
        OBVIOUS
      <4>1. g.pc > 0 /\ SelfWalks(c, g.n) /\ Looped(c, r, g, FALSE)
        BY <3>1 DEF FrameRan
      <4>2. KidFrame(c, g, a)
        BY <3>2, <3>5 DEF Link
      <4> QED BY <3>4, <4>1, <4>2
    <3>9. FrameRan(c, q, g, FALSE)
      BY <3>6, <3>7, <3>8 DEF FrameRan
    <3> QED BY <3>9 DEF g
  <2> QED BY <1>1, <2>1 DEF Waiting
<1>13. FrameRan(c, q, e, TRUE)
  <2>1. LoopPc(c, m) \in {1, 2}
    BY DEF LoopPc
  <2>2. KidsRan(c, q, m, 0)
    <3>1. KidsRan(c, r, m, 0)
      BY <1>1, <1>2 DEF Counted, D
    <3>2. ASSUME NEW i \in 1..Len(c.tree[m]) PROVE q[Kid(c, m, i)] = 0
      <4>1. Kid(c, m, i) \in D /\ Kid(c, m, i) # m
        <5>1. Len(m) \in Nat
          BY <1>2, <1>4
        <5> QED BY <1>2, <1>4, <5>1
      <4> QED BY <1>3, <3>1, <4>1 DEF KidsRan
    <3> QED BY <3>2 DEF KidsRan
  <2>3. ~(e.pc > LoopPc(c, e.n))
    BY <2>1
  <2> QED BY <1>3, <2>2, <2>3 DEF FrameRan
<1> QED BY <1>10, <1>11, <1>12, <1>13, RanAppended

LEMMA OnceTop ==
    ASSUME IInv, Once, phase \in Emitting, NEW k, At(k)
    PROVE  /\ stack = Append(Under, Top) /\ Under \in Seq(FrameSet(Ctx)) /\ Top \in FrameSet(Ctx)
           /\ Top.k = k /\ Top.n \in Nodes /\ Top.pc \in Nat /\ Len(child_list[Top.n]) \in Nat
           /\ TreeOK(Ctx.tree, Keys(Ctx)) /\ Top.n \in Seq(Keys(Ctx))
           /\ Ran(Ctx, runs, Append(Under, Top)) /\ FrameRan(Ctx, runs, Top, TRUE)
           /\ Chain(Ctx, Append(Under, Top))
           /\ FrameOK(Ctx, Top) /\ Link(Ctx, BelowOf(Under), Top)
           /\ shape \in Shapes /\ BlockOK(Block(Top.n), Keys(Ctx))
           /\ Block(Top.n).type = TypeIn(shape, Top.n)
<1>1. /\ Going /\ stack # <<>> /\ Top \in FrameSet(Ctx) /\ Top.k = k /\ Top.n \in Nodes
      /\ Top.pc \in Nat /\ TreeOK(child_list, Keys(Ctx)) /\ shape \in Shapes
      /\ Len(child_list[Top.n]) \in Nat /\ stack \in Seq(FrameSet(Ctx))
  BY TopWalk
<1>2. stack = Append(Under, Top) /\ Under \in Seq(FrameSet(Ctx))
  BY <1>1, Split DEF Under, Top
<1>3. Ran(Ctx, runs, Append(Under, Top))
  BY <1>2 DEF Once
<1>4. FrameRan(Ctx, runs, Top, TRUE)
  BY <1>1, <1>2, <1>3, RanAppended
<1>5. Chain(Ctx, Append(Under, Top))
  BY <1>1, <1>2, KeptLogs, StackedChain
<1>6. FrameOK(Ctx, Top) /\ Link(Ctx, BelowOf(Under), Top)
  BY <1>1, Opened DEF On
<1>7. Top.n \in Seq(Keys(Ctx)) /\ BlockOK(Block(Top.n), Keys(Ctx)) /\ Block(Top.n).type = TypeIn(shape, Top.n)
  BY <1>1, BlockOfNode
<1>8. TreeOK(Ctx.tree, Keys(Ctx))
  BY <1>1, CtxParts
<1> QED BY <1>1, <1>2, <1>3, <1>4, <1>5, <1>6, <1>7, <1>8

LEMMA OnceUnder ==
    ASSUME IInv, Once, phase \in Emitting, NEW k, At(k), Under # <<>>
    PROVE  /\ Under = Append(Front(Under), Last(Under)) /\ Front(Under) \in Seq(FrameSet(Ctx))
           /\ Last(Under) \in FrameSet(Ctx) /\ FrameRan(Ctx, runs, Last(Under), FALSE)
           /\ BelowOf(Under) = Last(Under)
           /\ Ran(Ctx, runs, Append(Append(Front(Under), Last(Under)), Top))
<1>1. /\ Under \in Seq(FrameSet(Ctx)) /\ Top \in FrameSet(Ctx) /\ TreeOK(Ctx.tree, Keys(Ctx))
      /\ Ran(Ctx, runs, Append(Under, Top))
  BY OnceTop
<1>2. /\ Under = Append(Front(Under), Last(Under)) /\ Front(Under) \in Seq(FrameSet(Ctx))
      /\ Last(Under) \in FrameSet(Ctx)
  BY <1>1, Split
<1>3. Ran(Ctx, runs, Append(Append(Front(Under), Last(Under)), Top))
  BY <1>1, <1>2
<1>4. FrameRan(Ctx, runs, Last(Under), FALSE)
  BY <1>1, <1>2, <1>3, RanWaits
<1> QED BY <1>2, <1>3, <1>4 DEF BelowOf

LEMMA OnceKept ==
    ASSUME UNCHANGED <<shape, phase, child_list, hist>>,
           phase \in Emitting => Ran(Ctx, runs, stack')
    PROVE  Once'
BY DEF Once, Ctx, hist

LEMMA WalksDoNotSkip ==
    ASSUME shape \in Shapes, TreeOK(child_list, Keys(Ctx)), NEW n \in Nodes, SelfWalks(Ctx, n)
    PROVE  ~Skips(Ctx, n)
<1>1. BlockOK(Block(n), Keys(Ctx)) /\ Block(n).type = TypeIn(shape, n)
  BY BlockOfNode
<1>2. Block(n) = shape.block[KeyIn(shape, n)]
  BY DEF Block, KeyOf
<1> QED BY <1>1, <1>2, CtxParts DEF SelfWalks, Skips, BlockOK

(* The handler is called.                                                  *)
LEMMA FnCallOnce == ASSUME IInv, Once, FnCall PROVE Once'
<1>1. CASE phase \notin Emitting
  BY <1>1 DEF FnCall, Throw, Answer, Once, Emitting
<1>2. CASE phase' \notin Emitting
  BY <1>2 DEF Once
<1>3. CASE phase \in Emitting /\ phase' \in Emitting
  <2>1. /\ At("fn") /\ Top.pc = 0 /\ stack' = Moved /\ runs' = [runs EXCEPT ![Top.n] = @ + 1]
        /\ UNCHANGED <<shape, phase, child_list>>
    BY <1>3 DEF FnCall, Throw, Answer, Emitting
  <2> DEFINE e == Stepped(Top, Top.pc + 1, Top.mark)
  <2>2. /\ Under \in Seq(FrameSet(Ctx)) /\ Top \in FrameSet(Ctx) /\ Top.k = "fn"
        /\ TreeOK(Ctx.tree, Keys(Ctx)) /\ Ran(Ctx, runs, Append(Under, Top))
        /\ Chain(Ctx, Append(Under, Top)) /\ FrameRan(Ctx, runs, Top, TRUE)
    BY <1>3, <2>1, OnceTop
  <2>3. /\ e \in FrameSet(Ctx) /\ e.k = "fn" /\ e.n = Top.n /\ e.pc = 1 /\ stack' = Append(Under, e)
    BY <2>1, <2>2, SteppedTop
  <2> HIDE DEF e
  <2>4. runs[Top.n] = 0
    BY <2>1, <2>2 DEF FrameRan
  <2>5. /\ runs' \in [DOMAIN Ctx.tree -> {0, 1}] /\ runs'[Top.n] = 1
        /\ \A n \in DOMAIN Ctx.tree : n # Top.n => runs'[n] = runs[n]
    <3>1. Counted(Ctx, runs) /\ Top.n \in DOMAIN Ctx.tree
      BY <2>2, RanAppended DEF FrameSet
    <3> QED BY <2>1, <2>4, <3>1 DEF Counted
  <2>6. Ctx.phase # "nodegen" /\ Ctx' = Ctx
    BY <1>3, <2>1, CtxParts DEF Emitting, Ctx
  <2> DEFINE q == runs'
             c == Ctx
             u == Under
             f == Top
             r == runs
  <2>7. Ran(Ctx, runs', stack')
    <3>1. /\ u \in Seq(FrameSet(c)) /\ f \in FrameSet(c) /\ f.k = "fn" /\ f.pc = 0
          /\ TreeOK(c.tree, Keys(c)) /\ Ran(c, r, Append(u, f)) /\ Chain(c, Append(u, f))
          /\ c.phase # "nodegen"
          /\ e \in FrameSet(c) /\ e.k = "fn" /\ e.n = f.n /\ e.pc = 1
          /\ q \in [DOMAIN c.tree -> {0, 1}] /\ q[f.n] = 1
          /\ \A n \in DOMAIN c.tree : n # f.n => q[n] = r[n]
      BY <2>1, <2>2, <2>3, <2>5, <2>6
    <3> HIDE DEF q, c, u, f, r
    <3>2. Ran(c, q, Append(u, e))
      BY <3>1, RanCalls
    <3> QED BY <2>3, <3>2 DEF q, c, u
  <2> QED BY <2>6, <2>7 DEF Once
<1> QED BY <1>1, <1>2, <1>3

\* What there is to show of a loop, and of a walk whose handler has returned.
LEMMA LoopRan ==
    ASSUME NEW c, NEW r, NEW F, F.k = "only" \/ F.k = "each", F.pc \in Nat, F.pc > 0, r[F.n] = 1,
           SelfWalks(c, F.n)
    PROVE  /\ Looped(c, r, F, TRUE) => FrameRan(c, r, F, TRUE)
           /\ Looped(c, r, F, FALSE) => FrameRan(c, r, F, FALSE)
<1>1. F.pc # 0 /\ F.k \notin {"walk", "mono"} /\ F.k # "fn"
  OBVIOUS
<1> QED BY <1>1 DEF FrameRan

LEMMA WalkRan ==
    ASSUME NEW c, NEW r, NEW F, F.k = "walk" \/ F.k = "mono", F.pc \in Nat, F.pc > 0, r[F.n] = 1
    PROVE  /\ (SelfWalks(c, F.n) \/ Skips(c, F.n)) /\ F.pc > Len(c.tree[F.n]) /\ Closed(c, r, F.n)
                => FrameRan(c, r, F, TRUE)
           /\ ~(SelfWalks(c, F.n) \/ Skips(c, F.n)) /\ Looped(c, r, F, TRUE)
                => FrameRan(c, r, F, TRUE)
           /\ ~(SelfWalks(c, F.n) \/ Skips(c, F.n)) /\ Looped(c, r, F, FALSE)
                => FrameRan(c, r, F, FALSE)
<1>1. F.pc # 0 /\ F.k \notin {"only", "each"} /\ F.k # "fn"
  OBVIOUS
<1> QED BY <1>1 DEF FrameRan

\* A handler that walks the children of its node pushes the loop that does.
LEMMA LoopPushed ==
    ASSUME IInv, Once, phase \in Emitting, At("fn"), Top.pc = LoopPc(Ctx, Top.n),
           SelfWalks(Ctx, Top.n), NEW F \in FrameSet(Ctx), F.k \in {"only", "each"},
           F.n = Top.n, F.pc = 1, stack' = Append(Moved, F),
           UNCHANGED <<shape, phase, child_list, hist>>
    PROVE  Once'
<1> DEFINE e == Stepped(Top, Top.pc + 1, Top.mark)
<1>1. /\ Under \in Seq(FrameSet(Ctx)) /\ Top \in FrameSet(Ctx) /\ Top.k = "fn" /\ Top.pc \in Nat
      /\ TreeOK(Ctx.tree, Keys(Ctx)) /\ Ran(Ctx, runs, Append(Under, Top))
      /\ FrameRan(Ctx, runs, Top, TRUE) /\ Top.n \in Seq(Keys(Ctx))
      /\ Len(child_list[Top.n]) \in Nat
  BY OnceTop
<1>2. /\ e \in FrameSet(Ctx) /\ e.k = "fn" /\ e.n = Top.n /\ e.pc = Top.pc + 1
      /\ Moved = Append(Under, e)
  BY <1>1, SteppedTop
<1> HIDE DEF e
<1>3. Top.pc > 0 /\ Top.pc = LoopPc(Ctx, Top.n)
  BY DEF LoopPc
<1>4. runs[Top.n] = 1 /\ KidsRan(Ctx, runs, Top.n, 0)
  BY <1>1, <1>3 DEF FrameRan
<1>5. FrameRan(Ctx, runs, e, FALSE)
  BY <1>1, <1>2, <1>4 DEF FrameRan
<1>6. FrameRan(Ctx, runs, F, TRUE)
  <2>1. Looped(Ctx, runs, F, TRUE)
    BY <1>1, <1>4, CtxParts DEF Looped, KidsRan
  <2>2. /\ F.k = "only" \/ F.k = "each"
        /\ F.pc \in Nat /\ F.pc > 0 /\ runs[F.n] = 1 /\ SelfWalks(Ctx, F.n)
    BY <1>4
  <2> QED BY <2>1, <2>2, LoopRan
<1>7. Prefix(Top.n, F.n)
  <2>1. SubSeq(Top.n, 1, Len(Top.n)) = Top.n /\ Len(Top.n) \in Nat
    BY <1>1, SubSeqFull
  <2> QED BY <2>1 DEF Prefix
<1>8. Ran(Ctx, runs, Append(Append(Under, e), F))
  BY <1>1, <1>2, <1>5, <1>6, <1>7, RanPushes
<1> QED BY <1>2, <1>8, OnceKept

LEMMA WalkOnlyOnce == ASSUME IInv, Once, WalkOnly PROVE Once'
<1> DEFINE F == Frame("only", Top.n, 1)
<1>1. CASE phase \notin Emitting \/ (phase = "min_deps" /\ child_list[Top.n] # <<>>)
  BY <1>1 DEF WalkOnly, Throw, Answer, Once, Emitting
<1>2. CASE phase \in Emitting /\ ~(phase = "min_deps" /\ child_list[Top.n] # <<>>)
  <2>1. /\ AtOp("only") /\ At("fn") /\ stack' = Append(Moved, F)
        /\ UNCHANGED <<shape, phase, child_list, hist>>
    BY <1>2 DEF WalkOnly, AtOp, Call, tree
  <2>2. Top.pc \in Nat /\ Block(Top.n).type = TypeIn(shape, Top.n) /\ Top.n \in Nodes
    BY <2>1, TopHandler, BlockOfNode
  <2>3. SelfWalks(Ctx, Top.n) /\ Top.pc = LoopPc(Ctx, Top.n)
    <3>1. CASE Block(Top.n).type \in Steered
      <4>1. Block(Top.n).type = "folder_wrap" /\ Top.pc = 2
        BY <2>1, <2>2, <3>1, SteeredProgram
      <4> QED BY <2>2, <4>1, CtxParts DEF SelfWalks, LoopPc
    <3>2. CASE Block(Top.n).type \notin Steered
      <4>1. phase \in Block(Top.n).walks /\ Top.pc = 1
        BY <1>2, <2>1, <3>2, OtherProgram DEF Emitting
      <4> QED BY <2>2, <3>2, <4>1, CtxParts DEF SelfWalks, LoopPc, Steered, Block, KeyOf
    <3> QED BY <3>1, <3>2
  <2>4. F \in FrameSet(Ctx) /\ F.k = "only" /\ F.n = Top.n /\ F.pc = 1
    BY <2>2 DEF Frame, FrameSet, Kinds, Ctx, Nodes
  <2> HIDE DEF F
  <2> QED BY <1>2, <2>1, <2>3, <2>4, LoopPushed
<1> QED BY <1>1, <1>2

LEMMA EachProjectOnce == ASSUME IInv, Once, EachProject PROVE Once'
<1> DEFINE F == [Frame("each", Top.n, 1) EXCEPT !.mark = Len(child_list[Top.n])]
<1>1. /\ AtOp("each") /\ At("fn") /\ stack' = Append(Moved, F)
      /\ UNCHANGED <<shape, phase, child_list, hist>>
  BY DEF EachProject, AtOp, Call, tree
<1>2. Top.pc \in Nat /\ Block(Top.n).type = TypeIn(shape, Top.n) /\ Top.n \in Nodes
  BY <1>1, TopHandler, BlockOfNode
<1>3. CASE phase \notin Emitting
  BY <1>1, <1>3 DEF Once
<1>4. CASE phase \in Emitting
  <2>1. Block(Top.n).type = "monorepo" /\ Top.pc = 1
    <3>1. CASE Block(Top.n).type \in Steered
      BY <1>1, <1>2, <3>1, SteeredProgram
    <3>2. CASE Block(Top.n).type \notin Steered
      BY <1>1, <3>2, OtherProgram DEF OpFields
    <3> QED BY <3>1, <3>2
  <2>2. SelfWalks(Ctx, Top.n) /\ Top.pc = LoopPc(Ctx, Top.n)
    BY <1>2, <2>1, CtxParts DEF SelfWalks, LoopPc
  <2>3. Len(child_list[Top.n]) \in Nat
    BY <1>1, <1>4, OnceTop
  <2>4. F \in FrameSet(Ctx) /\ F.k = "each" /\ F.n = Top.n /\ F.pc = 1
    BY <1>2, <2>3 DEF Frame, FrameSet, Kinds, Ctx, Nodes
  <2> HIDE DEF F
  <2> QED BY <1>1, <1>4, <2>2, <2>4, LoopPushed
<1> QED BY <1>3, <1>4

\* A handler takes a step that keeps it on its side of the loop.
LEMMA HandlerStepsOnce ==
    ASSUME IInv, Once, phase \in Emitting, At("fn"), Top.pc > 0, stack' = Moved,
           Top.pc + 1 > LoopPc(Ctx, Top.n) => Top.pc > LoopPc(Ctx, Top.n),
           UNCHANGED <<shape, phase, child_list, hist>>
    PROVE  Once'
<1> DEFINE e == Stepped(Top, Top.pc + 1, Top.mark)
<1>1. /\ Under \in Seq(FrameSet(Ctx)) /\ Top \in FrameSet(Ctx) /\ Top.k = "fn" /\ Top.pc \in Nat
      /\ Ran(Ctx, runs, Append(Under, Top)) /\ FrameRan(Ctx, runs, Top, TRUE)
  BY OnceTop
<1>2. /\ e \in FrameSet(Ctx) /\ e.k = "fn" /\ e.n = Top.n /\ e.pc = Top.pc + 1
      /\ Moved = Append(Under, e)
  BY <1>1, SteppedTop
<1> HIDE DEF e
<1>3. LoopPc(Ctx, Top.n) \in Nat
  BY DEF LoopPc
<1>4. (Top.pc + 1 > LoopPc(Ctx, Top.n)) <=> (Top.pc > LoopPc(Ctx, Top.n))
  BY <1>1, <1>3
<1>5. FrameRan(Ctx, runs, e, TRUE)
  BY <1>1, <1>2, <1>4 DEF FrameRan
<1>6. Ran(Ctx, runs, Append(Under, e))
  BY <1>1, <1>2, <1>5, RanSteps
<1> QED BY <1>2, <1>6, OnceKept

LEMMA FoldersOnce == ASSUME IInv, Once, EnterFolder \/ LeaveFolder PROVE Once'
<1>1. /\ AtOp("enter") \/ AtOp("leave")
      /\ At("fn") /\ stack' = Moved /\ UNCHANGED <<shape, phase, child_list, hist>>
  BY DEF EnterFolder, LeaveFolder, AtOp, tree
<1>2. Top.pc \in Nat /\ Block(Top.n).type = TypeIn(shape, Top.n) /\ Top.n \in Nodes
  BY <1>1, TopHandler, BlockOfNode
<1>3. CASE phase \notin Emitting
  BY <1>1, <1>3 DEF Once
<1>4. CASE phase \in Emitting
  <2>1. Block(Top.n).type = "folder_wrap" /\ (Top.pc = 1 \/ Top.pc = 3)
    <3>1. CASE Block(Top.n).type \in Steered
      BY <1>1, <1>2, <3>1, SteeredProgram
    <3>2. CASE Block(Top.n).type \notin Steered
      BY <1>1, <3>2, OtherProgram DEF OpFields
    <3> QED BY <3>1, <3>2
  <2>2. LoopPc(Ctx, Top.n) = 2
    BY <1>2, <2>1, CtxParts DEF LoopPc
  <2>3. /\ Top.pc > 0
        /\ Top.pc + 1 > LoopPc(Ctx, Top.n) => Top.pc > LoopPc(Ctx, Top.n)
    BY <2>1, <2>2
  <2> QED BY <1>1, <1>4, <2>3, HandlerStepsOnce
<1> QED BY <1>3, <1>4

(* The handler returned: its node's children are done with, or the walk    *)
(* that called it has them all to do.                                      *)
LEMMA FnReturnOnce == ASSUME IInv, Once, FnReturn PROVE Once'
<1>1. /\ At("fn") /\ Top.pc > Len(Program(Top.n)) /\ stack' = Below(Top.n)
      /\ UNCHANGED <<shape, phase, child_list, hist>>
  BY DEF FnReturn
<1>2. CASE phase \notin Emitting
  BY <1>1, <1>2 DEF Once
<1>3. CASE phase \in Emitting
  <2> DEFINE n == Top.n
             b == Last(Under)
             U == Front(Under)
             p == IF Processed(n) THEN Len(child_list[n]) + 1 ELSE 1
             e == Stepped(b, p, b.mark)
  <2>1. /\ Under \in Seq(FrameSet(Ctx)) /\ Top \in FrameSet(Ctx) /\ Top.k = "fn" /\ Top.pc \in Nat
        /\ TreeOK(Ctx.tree, Keys(Ctx)) /\ FrameRan(Ctx, runs, Top, TRUE)
        /\ n \in Nodes /\ Len(child_list[n]) \in Nat /\ shape \in Shapes
        /\ BlockOK(Block(n), Keys(Ctx)) /\ Block(n).type = TypeIn(shape, n)
        /\ Under # <<>>
    BY <1>1, <1>3, OnceTop, Caller
  <2>2. /\ b \in FrameSet(Ctx) /\ b.k \in {"walk", "mono"} /\ b.pc = 0 /\ b.n = n
    BY <1>1, <1>3, Caller DEF Emitting
  <2>3. /\ U \in Seq(FrameSet(Ctx)) /\ FrameRan(Ctx, runs, b, FALSE)
        /\ Ran(Ctx, runs, Append(Append(U, b), Top))
    BY <1>1, <1>3, <2>1, OnceUnder
  <2>4. stack' = Append(U, [b EXCEPT !.pc = p])
    BY <1>1, <2>1, <2>2 DEF Below
  <2>5. p \in Nat /\ b.mark \in Nat /\ p > 0
    BY <2>1, <2>2 DEF FrameSet
  <2>6. /\ e \in FrameSet(Ctx) /\ e.k = b.k /\ e.n = n /\ e.pc = p /\ stack' = Append(U, e)
    <3> HIDE DEF p, b
    <3>1. \A m \in Nat, f \in FrameSet(Ctx) :
             /\ Stepped(f, p, m) \in FrameSet(Ctx) /\ Stepped(f, p, m).k = f.k
             /\ Stepped(f, p, m).n = f.n /\ Stepped(f, p, m).pc = p
      BY <2>5, SteppedFrame
    <3>2. [b EXCEPT !.pc = p] = Stepped(b, p, b.mark)
      BY <2>2, <2>5, SteppedOnce
    <3> QED BY <2>2, <2>4, <2>5, <3>1, <3>2
  <2>7. Block(n) = shape.block[KeyIn(shape, n)]
    BY DEF Block, KeyOf
  <2>8. Processed(n) <=> SelfWalks(Ctx, n) \/ Skips(Ctx, n)
    BY <1>3, <2>1, <2>7, CtxParts DEF Processed, SelfWalks, Skips, Emitting
  <2>9. Top.pc > 0 /\ (SelfWalks(Ctx, n) => Top.pc > LoopPc(Ctx, n))
    <3>1. Len(Program(n)) \in Nat /\ (SelfWalks(Ctx, n) => Len(Program(n)) >= LoopPc(Ctx, n))
      <4>1. /\ Len(FolderWrapProgram) = 3 /\ Len(MonorepoProgram) = 1
            /\ Len(<<[op |-> "only"]>>) = 1 /\ Len(<<>>) = 0
        BY DEF FolderWrapProgram, MonorepoProgram
      <4>2. phase # "nodegen"
        BY <1>3 DEF Emitting
      <4>3. CASE TypeIn(shape, n) = "folder_wrap"
        <5>1. Program(n) = FolderWrapProgram /\ LoopPc(Ctx, n) = 2
          BY <2>1, <4>3, CtxParts DEF Program, LoopPc
        <5> QED BY <4>1, <5>1
      <4>4. CASE TypeIn(shape, n) # "folder_wrap"
        <5>1. LoopPc(Ctx, n) = 1
          BY <4>4, CtxParts DEF LoopPc
        <5>2. CASE TypeIn(shape, n) = "monorepo"
          <6>1. Program(n) = MonorepoProgram
            BY <2>1, <5>2 DEF Program
          <6> QED BY <4>1, <5>1, <6>1
        <5>3. CASE TypeIn(shape, n) # "monorepo"
          <6>1. Program(n) = IF phase \in Block(n).walks THEN <<[op |-> "only"]>> ELSE <<>>
            BY <2>1, <4>2, <4>4, <5>3 DEF Program
          <6>2. SelfWalks(Ctx, n) => phase \in Block(n).walks
            BY <2>7, <4>4, <5>3, CtxParts DEF SelfWalks
          <6> QED BY <4>1, <5>1, <6>1, <6>2
        <5> QED BY <5>2, <5>3
      <4> QED BY <4>3, <4>4
    <3>2. LoopPc(Ctx, n) \in Nat
      BY DEF LoopPc
    <3> QED BY <1>1, <2>1, <3>1, <3>2
  <2>10. runs[n] = 1 /\ KidsRan(Ctx, runs, n, IF SelfWalks(Ctx, n) THEN 1 ELSE 0)
    BY <2>1, <2>9 DEF FrameRan
  <2>11. FrameRan(Ctx, runs, e, TRUE)
    <3>1. CASE SelfWalks(Ctx, n) \/ Skips(Ctx, n)
      <4>1. Closed(Ctx, runs, n)
        BY <2>1, <2>10, <3>1, WalksDoNotSkip, CtxParts DEF Closed
      <4>2. p > Len(Ctx.tree[n])
        BY <2>1, <2>8, <3>1, CtxParts
      <4> HIDE DEF p, e
      <4> QED BY <2>2, <2>5, <2>6, <2>10, <3>1, <4>1, <4>2, WalkRan
    <3>2. CASE ~(SelfWalks(Ctx, n) \/ Skips(Ctx, n))
      <4>1. p = 1
        BY <2>8, <3>2
      <4> HIDE DEF p, e
      <4>2. Looped(Ctx, runs, e, TRUE)
        BY <2>1, <2>6, <2>10, <3>2, <4>1, CtxParts DEF Looped, KidsRan
      <4> QED BY <2>2, <2>5, <2>6, <2>10, <3>2, <4>2, WalkRan
    <3> QED BY <3>1, <3>2
  <2> HIDE DEF e, b, U, p
  <2>12. Ran(Ctx, runs, Append(U, e))
    BY <2>1, <2>2, <2>3, <2>6, <2>11, RanPops
  <2> QED BY <1>1, <2>6, <2>12, OnceKept
<1> QED BY <1>2, <1>3

(* A walk starts the handler of its node.                                  *)
LEMMA StartsOnce == ASSUME IInv, Once, WalkStart \/ MonoStart PROVE Once'
<1> DEFINE F == Frame("fn", Top.n, 0)
<1>1. /\ At("walk") \/ At("mono")
      /\ Top.pc = 0 /\ stack' = Append(stack, F)
      /\ UNCHANGED <<shape, phase, child_list, hist>>
  BY DEF WalkStart, MonoStart, tree
<1>2. CASE phase \notin Emitting
  BY <1>1, <1>2 DEF Once
<1>3. CASE phase \in Emitting
  <2>1. /\ stack = Append(Under, Top) /\ Under \in Seq(FrameSet(Ctx)) /\ Top \in FrameSet(Ctx)
        /\ Top.k = "walk" \/ Top.k = "mono"
        /\ Top.n \in Nodes /\ TreeOK(Ctx.tree, Keys(Ctx)) /\ Top.n \in Seq(Keys(Ctx))
        /\ Ran(Ctx, runs, Append(Under, Top)) /\ FrameRan(Ctx, runs, Top, TRUE)
    BY <1>1, <1>3, OnceTop
  <2>2. F \in FrameSet(Ctx) /\ F.k = "fn" /\ F.n = Top.n /\ F.pc = 0
    BY <2>1 DEF Frame, FrameSet, Kinds, Ctx, Nodes
  <2> HIDE DEF F
  <2>3. runs[Top.n] = 0
    BY <1>1, <2>1 DEF FrameRan
  <2>4. FrameRan(Ctx, runs, Top, FALSE)
    BY <1>1, <2>1 DEF FrameRan
  <2>5. FrameRan(Ctx, runs, F, TRUE)
    BY <2>2, <2>3 DEF FrameRan
  <2>6. Prefix(Top.n, F.n)
    <3>1. SubSeq(Top.n, 1, Len(Top.n)) = Top.n /\ Len(Top.n) \in Nat
      BY <2>1, SubSeqFull
    <3> QED BY <2>2, <3>1 DEF Prefix
  <2>7. Ran(Ctx, runs, Append(Append(Under, Top), F))
    BY <2>1, <2>2, <2>4, <2>5, <2>6, RanPushes
  <2> QED BY <1>1, <2>1, <2>7, OnceKept
<1> QED BY <1>2, <1>3

\* A walk or a loop goes to the next child of its node.
LEMMA KidPushed ==
    ASSUME IInv, Once, phase \in Emitting, NEW k \in {"walk", "mono", "only", "each"}, At(k),
           MoreKids, NEW e \in FrameSet(Ctx), e.k = k, e.n = Top.n, e.pc = Top.pc + 1,
           NEW w \in {"walk", "mono"}, stack' = Append(Append(Under, e), Frame(w, NextKid, 0)),
           UNCHANGED <<shape, phase, child_list, hist>>
    PROVE  Once'
<1> DEFINE F == Frame(w, NextKid, 0)
<1>1. /\ Under \in Seq(FrameSet(Ctx)) /\ Top \in FrameSet(Ctx) /\ Top.k = k /\ Top.n \in Nodes
      /\ Top.pc \in Nat /\ Len(child_list[Top.n]) \in Nat
      /\ TreeOK(Ctx.tree, Keys(Ctx)) /\ Top.n \in Seq(Keys(Ctx))
      /\ Ran(Ctx, runs, Append(Under, Top)) /\ FrameRan(Ctx, runs, Top, TRUE)
  BY OnceTop
<1>2. Top.pc \in 1..Len(child_list[Top.n]) /\ NextKid \in Nodes /\ NextKid = Kid(Ctx, Top.n, Top.pc)
  BY NextKidIsNode, CtxParts DEF MoreKids, NextKid, Kid
<1>3. F \in FrameSet(Ctx) /\ F.k = w /\ F.n = NextKid /\ F.pc = 0
  BY <1>2 DEF Frame, FrameSet, Kinds, Ctx, Nodes
<1> HIDE DEF F
<1>4. /\ k \in {"walk", "mono"} => ~(SelfWalks(Ctx, Top.n) \/ Skips(Ctx, Top.n))
      /\ k \in {"only", "each"} => SelfWalks(Ctx, Top.n)
      /\ Looped(Ctx, runs, Top, TRUE) /\ runs[Top.n] = 1
  <2>1. Top.pc > 0 /\ ~(Top.pc > Len(Ctx.tree[Top.n]))
    BY <1>1, <1>2, CtxParts
  <2>2. runs[Top.n] = 1
    BY <1>1, <2>1 DEF FrameRan
  <2>3. CASE k \in {"walk", "mono"}
    BY <1>1, <2>1, <2>2, <2>3 DEF FrameRan
  <2>4. CASE k \in {"only", "each"}
    BY <1>1, <2>1, <2>2, <2>4 DEF FrameRan
  <2> QED BY <2>3, <2>4
<1>5. Looped(Ctx, runs, e, FALSE)
  <2> SUFFICES ASSUME NEW i \in 1..Len(Ctx.tree[Top.n])
               PROVE  /\ i < e.pc - 1 => runs[Kid(Ctx, Top.n, i)] = 1
                      /\ i >= e.pc => runs[Kid(Ctx, Top.n, i)] = 0
    BY DEF Looped
  <2>1. /\ i < Top.pc - 1 => runs[Kid(Ctx, Top.n, i)] = 1
        /\ i >= Top.pc => runs[Kid(Ctx, Top.n, i)] = 0
        /\ i = Top.pc - 1 => runs[Kid(Ctx, Top.n, i)] = 1
    BY <1>4 DEF Looped
  <2>2. /\ i < e.pc - 1 => i < Top.pc - 1 \/ i = Top.pc - 1
        /\ i >= e.pc => i >= Top.pc
    BY <1>1
  <2> QED BY <2>1, <2>2
<1>6. FrameRan(Ctx, runs, e, FALSE)
  <2>1. e.pc \in Nat /\ e.pc > 0 /\ runs[e.n] = 1
    BY <1>1, <1>4
  <2>2. CASE k \in {"walk", "mono"}
    <3>1. (e.k = "walk" \/ e.k = "mono") /\ ~(SelfWalks(Ctx, e.n) \/ Skips(Ctx, e.n))
      BY <1>4, <2>2
    <3> QED BY <1>5, <2>1, <3>1, WalkRan
  <2>3. CASE k \in {"only", "each"}
    <3>1. (e.k = "only" \/ e.k = "each") /\ SelfWalks(Ctx, e.n)
      BY <1>4, <2>3
    <3> QED BY <1>5, <2>1, <3>1, LoopRan
  <2> QED BY <2>2, <2>3
<1>7. FrameRan(Ctx, runs, F, TRUE)
  <2>1. runs[NextKid] = 0
    BY <1>1, <1>2, <1>4, CtxParts DEF Looped
  <2> QED BY <1>3, <2>1 DEF FrameRan
<1>8. Prefix(Top.n, F.n)
  <2>1. child_list[Top.n][Top.pc] \in Keys(Ctx)
    BY <1>1, <1>2, CtxParts DEF TreeOK, Nodes
  <2> QED BY <1>1, <1>3, <2>1, PrefixAppend DEF NextKid
<1>9. Ran(Ctx, runs, Append(Append(Under, e), F))
  BY <1>1, <1>3, <1>6, <1>7, <1>8, RanPushes
<1> QED BY <1>9, OnceKept DEF F

LEMMA KidOfWalkOnce == ASSUME IInv, Once, KidOfWalk PROVE Once'
<1>1. /\ At("walk") \/ At("only")
      /\ MoreKids /\ stack' = Append(Moved, Frame("walk", NextKid, 0))
      /\ UNCHANGED <<shape, phase, child_list, hist>>
  BY DEF KidOfWalk, Call, tree
<1>2. CASE phase \notin Emitting
  BY <1>1, <1>2 DEF Once
<1>3. CASE phase \in Emitting
  <2> DEFINE e == Stepped(Top, Top.pc + 1, Top.mark)
  <2>1. /\ e \in FrameSet(Ctx) /\ e.k = Top.k /\ e.n = Top.n /\ e.pc = Top.pc + 1
        /\ Moved = Append(Under, e)
    BY <1>1, <1>3, OnceTop, SteppedTop
  <2> HIDE DEF e
  <2>2. stack' = Append(Append(Under, e), Frame("walk", NextKid, 0))
    BY <1>1, <2>1
  <2>3. PICK k \in {"walk", "only"} : At(k)
    BY <1>1
  <2>4. e.k = k
    BY <2>1, <2>3 DEF At
  <2> QED BY <1>1, <1>3, <2>1, <2>2, <2>3, <2>4, KidPushed
<1> QED BY <1>2, <1>3

LEMMA KidOfMonoOnce == ASSUME IInv, Once, KidOfMono PROVE Once'
<1> DEFINE p == Top.pc + 1
           e == Stepped(Top, p, 1)
<1>1. /\ At("mono") /\ MoreKids
      /\ stack' = Append(Append(Under, [Top EXCEPT !.pc = @ + 1, !.mark = 1]),
                         Frame("mono", NextKid, 0))
      /\ UNCHANGED <<shape, phase, child_list, hist>>
  BY DEF KidOfMono, tree
<1>2. CASE phase \notin Emitting
  BY <1>1, <1>2 DEF Once
<1>3. CASE phase \in Emitting
  <2>1. Top \in FrameSet(Ctx) /\ Top.k = "mono" /\ Top.pc \in Nat
    BY <1>1, <1>3, OnceTop
  <2>2. [Top EXCEPT !.pc = @ + 1, !.mark = 1] = e
    BY <2>1 DEF Stepped, FrameSet
  <2>3. p \in Nat /\ 1 \in Nat
    BY <2>1
  <2>4. e \in FrameSet(Ctx) /\ e.k = Top.k /\ e.n = Top.n /\ e.pc = p
    <3> HIDE DEF p
    <3>1. \A f \in FrameSet(Ctx) : /\ Stepped(f, p, 1) \in FrameSet(Ctx)
             /\ Stepped(f, p, 1).k = f.k /\ Stepped(f, p, 1).n = f.n
             /\ Stepped(f, p, 1).pc = p
      BY <2>3, SteppedFrame
    <3> QED BY <2>1, <3>1
  <2> HIDE DEF e
  <2>5. stack' = Append(Append(Under, e), Frame("mono", NextKid, 0))
    BY <1>1, <2>2
  <2> QED BY <1>1, <1>3, <2>1, <2>4, <2>5, KidPushed
<1> QED BY <1>2, <1>3

LEMMA KidOfEachOnce == ASSUME IInv, Once, KidOfEach PROVE Once'
<1>1. At("each") /\ Top.pc <= Top.mark
  BY DEF KidOfEach
<1>2. CASE phase \notin Emitting
  BY <1>2 DEF KidOfEach, Throw, Answer, Once, Emitting
<1>3. CASE phase \in Emitting
  <2> DEFINE e == Stepped(Top, Top.pc + 1, Top.mark)
  <2>1. /\ stack' = Append(Moved, Frame("mono", NextKid, 0))
        /\ UNCHANGED <<shape, phase, child_list, hist>>
    BY <1>3 DEF KidOfEach, Call, Emitting, tree
  <2>2. /\ e \in FrameSet(Ctx) /\ e.k = Top.k /\ e.n = Top.n /\ e.pc = Top.pc + 1
        /\ Moved = Append(Under, e)
    BY <1>1, <1>3, OnceTop, SteppedTop
  <2> HIDE DEF e
  <2>3. MoreKids
    <3>1. /\ FrameOK(Ctx, Top) /\ Top.k = "each" /\ Top.pc \in Nat
          /\ Len(child_list[Top.n]) \in Nat
      BY <1>1, <1>3, OnceTop
    <3>2. Top.pc > 0 /\ Top.mark = Len(child_list[Top.n])
      BY <1>3, <3>1, CtxParts DEF FrameOK, Emitting
    <3> QED BY <1>1, <3>1, <3>2 DEF MoreKids
  <2>4. e.k = "each"
    BY <1>1, <2>2 DEF At
  <2>5. stack' = Append(Append(Under, e), Frame("mono", NextKid, 0))
    BY <2>1, <2>2
  <2> QED BY <1>1, <1>3, <2>1, <2>2, <2>3, <2>4, <2>5, KidPushed
<1> QED BY <1>2, <1>3

(* A walk or a loop is over: its node's children are done with.            *)
LEMMA LoopPopped ==
    ASSUME IInv, Once, phase \in Emitting, NEW k \in {"walk", "mono", "only", "each"}, At(k),
           Top.pc > Len(child_list[Top.n]), stack' = Under,
           UNCHANGED <<shape, phase, child_list, hist>>
    PROVE  Once'
<1> DEFINE b == Last(Under)
           U == Front(Under)
           n == Top.n
<1>1. /\ Under \in Seq(FrameSet(Ctx)) /\ Top \in FrameSet(Ctx) /\ Top.k = k /\ n \in Nodes
      /\ Top.pc \in Nat /\ Len(child_list[n]) \in Nat /\ shape \in Shapes
      /\ TreeOK(Ctx.tree, Keys(Ctx)) /\ Ran(Ctx, runs, Append(Under, Top))
      /\ FrameRan(Ctx, runs, Top, TRUE) /\ Link(Ctx, BelowOf(Under), Top)
  BY OnceTop
<1>2. Top.pc > 0 /\ Top.pc # 0 /\ runs[n] = 1
  <2>1. Top.pc > 0 /\ Top.pc # 0
    BY <1>1
  <2> QED BY <1>1, <2>1 DEF FrameRan
<1>3. Looped(Ctx, runs, Top, TRUE) => KidsRan(Ctx, runs, n, 1)
  <2> SUFFICES ASSUME Looped(Ctx, runs, Top, TRUE), NEW i \in 1..Len(Ctx.tree[n])
               PROVE  runs[Kid(Ctx, n, i)] = 1
    BY DEF KidsRan
  <2>1. i < Top.pc - 1 \/ i = Top.pc - 1
    BY <1>1, CtxParts
  <2> QED BY <2>1 DEF Looped
<1>4. k \in {"walk", "mono"} => Closed(Ctx, runs, n)
  <2> SUFFICES ASSUME k \in {"walk", "mono"} PROVE Closed(Ctx, runs, n)
    OBVIOUS
  <2>1. CASE SelfWalks(Ctx, n) \/ Skips(Ctx, n)
    BY <1>1, <1>2, <2>1 DEF FrameRan
  <2>2. CASE ~(SelfWalks(Ctx, n) \/ Skips(Ctx, n))
    <3>1. Looped(Ctx, runs, Top, TRUE)
      BY <1>1, <1>2, <2>2 DEF FrameRan
    <3> QED BY <1>3, <2>2, <3>1 DEF Closed
  <2> QED BY <2>1, <2>2
<1>5. k \in {"only", "each"} => SelfWalks(Ctx, n) /\ KidsRan(Ctx, runs, n, 1)
  BY <1>1, <1>2, <1>3 DEF FrameRan
<1>6. CASE Under = <<>>
  <2>1. k = "walk" /\ n = <<>>
    BY <1>1, <1>6 DEF Link, BelowOf, Bottom, Frame
  <2>2. /\ Counted(Ctx, runs) /\ Visited(Ctx, runs, OpenNodes(Under) \cup {n})
    BY <1>1, RanAppended
  <2>3. OpenNodes(<<>>) = {}
    BY DEF OpenNodes
  <2>4. Visited(Ctx, runs, OpenNodes(<<>>))
    BY <1>4, <1>6, <2>1, <2>2, <2>3 DEF Visited
  <2>5. Ran(Ctx, runs, <<>>)
    BY <1>2, <2>1, <2>2, <2>4 DEF Ran
  <2> QED BY <1>6, <2>5, OnceKept
<1>7. CASE Under # <<>>
  <2>1. /\ Under = Append(U, b) /\ U \in Seq(FrameSet(Ctx))
        /\ b \in FrameSet(Ctx) /\ FrameRan(Ctx, runs, b, FALSE)
        /\ BelowOf(Under) = b /\ Ran(Ctx, runs, Append(Append(U, b), Top))
    BY <1>7, OnceUnder
  <2> HIDE DEF b, U
  <2>2. Link(Ctx, b, Top) /\ b # Bottom /\ b.n \in DOMAIN Ctx.tree /\ b.pc \in Nat
    BY <1>1, <2>1 DEF FrameSet, Bottom, Frame, Kinds
  <2>3. CASE k \in {"only", "each"}
    <3>1. b.k = "fn" /\ b.n = n /\ SelfWalks(Ctx, n) /\ b.pc = LoopPc(Ctx, n) + 1
      BY <1>1, <2>2, <2>3, CtxParts DEF Link, Emitting
    <3>2. b.pc > 0 /\ b.pc # 0 /\ b.pc > LoopPc(Ctx, n)
      BY <3>1 DEF LoopPc
    <3>3. FrameRan(Ctx, runs, b, TRUE)
      BY <1>2, <1>5, <2>3, <3>1, <3>2 DEF FrameRan
    <3>4. Ran(Ctx, runs, Append(U, b))
      BY <1>1, <2>1, <3>1, <3>3, RanPops
    <3> QED BY <2>1, <3>4, OnceKept
  <2>4. CASE k \in {"walk", "mono"}
    <3>1. b.k \in {"walk", "only", "mono", "each"} /\ KidFrame(Ctx, b, Top)
      BY <1>1, <2>2, <2>4 DEF Link
    <3>2. b.pc - 1 \in 1..Len(Ctx.tree[b.n]) /\ n = Kid(Ctx, b.n, b.pc - 1)
      BY <3>1 DEF KidFrame, Kid
    <3>3. b.pc > 0 /\ runs[b.n] = 1
      <4>1. b.pc > 0
        BY <2>2, <3>2
      <4> QED BY <2>1, <4>1 DEF FrameRan
    <3>4. ASSUME Looped(Ctx, runs, b, FALSE) PROVE Looped(Ctx, runs, b, TRUE)
      BY <1>2, <3>2, <3>4 DEF Looped
    <3>5. FrameRan(Ctx, runs, b, TRUE)
      <4>1. CASE b.k = "walk" \/ b.k = "mono"
        <5>1. ~(SelfWalks(Ctx, b.n) \/ Skips(Ctx, b.n)) /\ Looped(Ctx, runs, b, FALSE)
          BY <2>1, <3>3, <4>1 DEF FrameRan
        <5> QED BY <2>2, <3>3, <3>4, <4>1, <5>1, WalkRan
      <4>2. CASE b.k = "only" \/ b.k = "each"
        <5>1. SelfWalks(Ctx, b.n) /\ Looped(Ctx, runs, b, FALSE)
          BY <2>1, <3>3, <4>2 DEF FrameRan
        <5> QED BY <2>2, <3>3, <3>4, <4>2, <5>1, LoopRan
      <4> QED BY <3>1, <4>1, <4>2
    <3>6. Ran(Ctx, runs, Append(U, b))
      BY <1>1, <1>4, <2>1, <2>4, <3>5, RanPops
    <3> QED BY <2>1, <3>6, OnceKept
  <2> QED BY <2>3, <2>4
<1> QED BY <1>6, <1>7

LEMMA EndsOnce == ASSUME IInv, Once, WalkEnd \/ MonoEnd \/ EachEnd PROVE Once'
<1>1. stack' = Under /\ UNCHANGED <<shape, phase, child_list, hist>>
  BY DEF WalkEnd, MonoEnd, EachEnd, Return, tree
<1>2. CASE phase \notin Emitting
  BY <1>1, <1>2 DEF Once
<1>3. CASE phase \in Emitting
  <2>1. CASE WalkEnd \/ MonoEnd
    <3>1. Top.pc > Len(child_list[Top.n])
      BY <2>1 DEF WalkEnd, MonoEnd, NoMoreKids
    <3>2. PICK k \in {"walk", "mono", "only", "each"} : At(k)
      BY <2>1 DEF WalkEnd, MonoEnd
    <3> QED BY <1>1, <1>3, <3>1, <3>2, LoopPopped
  <2>2. CASE EachEnd
    <3>1. At("each") /\ Top.pc > Top.mark
      BY <2>2 DEF EachEnd
    <3>2. FrameOK(Ctx, Top) /\ Top.k = "each"
      BY <1>3, <3>1, OnceTop
    <3>3. Top.mark = Len(child_list[Top.n])
      BY <1>3, <3>2, CtxParts DEF FrameOK, Emitting
    <3>4. Top.pc > Len(child_list[Top.n])
      BY <3>1, <3>3
    <3> QED BY <1>1, <1>3, <3>1, <3>4, LoopPopped
  <2> QED BY <2>1, <2>2
<1> QED BY <1>2, <1>3

\* A phase starts: no handler has run.
LEMMA PhaseStartsOnce ==
    ASSUME IInv, Going, stack' = WalkRoot, FreshContext, UNCHANGED child_list
    PROVE  Once'
<1> DEFINE F == Frame("walk", DocRoot, 0)
           c == Ctx'
           r == runs'
<1>1. c.tree = child_list /\ <<>> \in DOMAIN c.tree
  BY KeptLogs DEF Ctx, TreeOK
<1>2. TreeOK(c.tree, Keys(Ctx))
  BY <1>1, KeptLogs
<1>3. F \in FrameSet(c) /\ F.k = "walk" /\ F.n = <<>> /\ F.pc = 0
  BY <1>1 DEF Frame, FrameSet, Kinds, DocRoot
<1>4. r = [n \in DOMAIN c.tree |-> 0]
  BY <1>1 DEF FreshContext, Nodes
<1>5. stack' = Append(<<>>, F)
  BY DEF WalkRoot
<1> HIDE DEF F, c, r
<1>6. Counted(c, r)
  <2>1. ASSUME NEW n \in DOMAIN c.tree, NEW i \in 1..Len(c.tree[n]) PROVE r[Kid(c, n, i)] = 0
    <3>1. Kid(c, n, i) \in DOMAIN c.tree
      BY <1>2 DEF TreeOK, Kid
    <3> QED BY <1>4, <3>1
  <2> QED BY <1>4, <2>1 DEF Counted, KidsRan
<1>7. Visited(c, r, OpenNodes(<<>>) \cup {F.n})
  BY <1>4 DEF Visited
<1>8. FrameRan(c, r, F, TRUE)
  BY <1>1, <1>3, <1>4 DEF FrameRan
<1>9. Waiting(c, r, <<>>, F.n)
  BY DEF Waiting
<1>10. Ran(c, r, Append(<<>>, F))
  <2>1. <<>> \in Seq(FrameSet(c))
    OBVIOUS
  <2> QED BY <1>3, <1>6, <1>7, <1>8, <1>9, <2>1, RanAppended
<1> QED BY <1>5, <1>10 DEF Once, c, r

LEMMA NextOnce == IInv /\ Once /\ [Next]_vars => Once'
<1> SUFFICES ASSUME IInv, Once, [Next]_vars PROVE Once'
  OBVIOUS
<1>1. CASE Making
  <2>1. phase = "nodegen" /\ phase' \notin Emitting
    BY <1>1, MakesInNodegen
       DEF Making, MakeHere, MakeWrapped, MakeOwn, MakeAbove, RunMade, InjectTo, Makes,
           MadeOnly, Throw, Answer, Emitting
  <2> QED BY <2>1 DEF Once
<1>2. CASE Mark \/ WalkRest
  <2>1. phase = "nodegen" /\ phase' = phase
    BY <1>2, MakesInNodegen DEF Mark, WalkRest
  <2> QED BY <2>1 DEF Once, Emitting
<1>3. CASE Handler /\ ~Making /\ ~Mark /\ ~WalkRest
  BY <1>3, FnCallOnce, WalkOnlyOnce, FoldersOnce, EachProjectOnce, FnReturnOnce DEF Handler
<1>4. CASE Walk
  BY <1>4, StartsOnce, KidOfWalkOnce, KidOfMonoOnce, KidOfEachOnce, EndsOnce DEF Walk
<1>5. CASE Check
  <2>1. CASE phase' \notin Emitting
    BY <2>1 DEF Once
  <2>2. CASE phase' \in Emitting
    <3>1. Going /\ stack' = WalkRoot /\ FreshContext /\ child_list' = child_list
      BY <1>5, <2>2 DEF Check, PhaseDone, Throw, Answer, IInv, Final, Emitting, tree
    <3> QED BY <3>1, PhaseStartsOnce
  <2> QED BY <2>1, <2>2
<1>6. CASE NextPhase
  <2>1. Going /\ stack' = WalkRoot /\ FreshContext /\ child_list' = child_list
    BY <1>6 DEF NextPhase, IInv, Final, tree
  <2> QED BY <2>1, PhaseStartsOnce
<1>7. CASE Load \/ NodegenPass \/ Finish
  <2>1. phase' \notin Emitting
    BY <1>7 DEF Load, NodegenPass, Finish, Answer, PhaseDone, Emitting
  <2> QED BY <2>1 DEF Once
<1>8. CASE UNCHANGED vars
  BY <1>8 DEF vars, tree, hist, Once, Ctx
<1> QED BY <1>1, <1>2, <1>3, <1>4, <1>5, <1>6, <1>7, <1>8 DEF Next, Go, Over

(* Of a run whose frames are gone, the counts are what RunOnce says: down  *)
(* from the root, a node was visited unless an ancestor skips its children. *)
LEMMA RanEverywhere ==
    ASSUME shape \in Shapes, TreeOK(child_list, Keys(Ctx)), Ran(Ctx, runs, <<>>)
    PROVE  \A n \in Nodes : runs[n] = IF Skipped(n) THEN 0 ELSE 1
<1> DEFINE bad == {n \in Nodes : runs[n] # IF Skipped(n) THEN 0 ELSE 1}
           T == {Len(n) : n \in bad}
<1>1. /\ Counted(Ctx, runs) /\ Visited(Ctx, runs, {}) /\ runs[<<>>] = 1
  <2>1. OpenNodes(<<>>) = {}
    BY DEF OpenNodes
  <2> QED BY <2>1 DEF Ran
<1>2. \A n \in Nodes : n \in Seq(Keys(Ctx)) /\ Len(n) \in Nat
  BY DEF TreeOK, Nodes
<1>3. ASSUME bad # {} PROVE FALSE
  <2>1. T \in SUBSET Nat /\ T # {}
    BY <1>2, <1>3
  <2>2. PICK x \in T : \A y \in T : x <= y
    BY <2>1, LeastOf
  <2>3. PICK n \in bad : \A m \in bad : Len(n) <= Len(m)
    BY <2>2
  <2> HIDE DEF T
  <2>4. n \in Nodes /\ n \in Seq(Keys(Ctx)) /\ Len(n) \in Nat
    BY <1>2, <2>3
  <2>5. CASE n = <<>>
    <3>1. Ancestors(n) = {}
      BY <2>5 DEF Ancestors
    <3> QED BY <1>1, <2>3, <2>5, <3>1 DEF Skipped
  <2>6. CASE n # <<>>
    <3> DEFINE p == Front(n)
    <3>1. /\ p \in Seq(Keys(Ctx)) /\ Append(p, Last(n)) = n /\ Len(p) = Len(n) - 1
          /\ Last(n) \in Keys(Ctx) /\ Len(p) + 1 = Len(n) /\ Len(p) \in Nat
      BY <2>4, <2>6, Split
    <3>2. p \in Nodes
      <4>1. Len(n) - 1 \in 0..Len(n)
        BY <3>1
      <4> QED BY <2>4, <4>1 DEF Front, TreeOK, Nodes
    <3>3. PICK i \in 1..Len(child_list[p]) : child_list[p][i] = Last(n)
      BY <2>4, <2>6 DEF TreeOK, Contains, Nodes
    <3> HIDE DEF p
    <3>4. n = Kid(Ctx, p, i) /\ i \in 1..Len(Ctx.tree[p])
      BY <3>1, <3>3, CtxParts DEF Kid
    <3>5. runs[p] = IF Skipped(p) THEN 0 ELSE 1
      <4>1. p \notin bad
        BY <2>3, <3>1
      <4> QED BY <3>2, <4>1
    <3>6. Skipped(n) <=> Skipped(p) \/ Skips(Ctx, p)
      <4>1. /\ \A j \in 0..Len(p) : SubSeq(n, 1, j) = SubSeq(p, 1, j)
            /\ SubSeq(p, 1, Len(p)) = p
        BY <3>1, Appended, SubSeqFull
      <4>2. Ancestors(n) = Ancestors(p) \cup {p}
        <5>1. Len(n) - 1 = Len(p)
          BY <3>1
        <5>2. \A j \in 0..Len(p) : j \in 0..(Len(p) - 1) \/ j = Len(p)
          BY <3>1
        <5>3. \A j \in 0..(Len(p) - 1) : j \in 0..Len(p)
          BY <3>1
        <5>4. Len(p) \in 0..Len(p)
          BY <3>1
        <5>5. Ancestors(n) = {SubSeq(n, 1, j) : j \in 0..Len(p)}
          BY <5>1 DEF Ancestors
        <5>6. Ancestors(p) = {SubSeq(p, 1, j) : j \in 0..(Len(p) - 1)}
          BY DEF Ancestors
        <5>7. ASSUME NEW a \in Ancestors(n) PROVE a \in Ancestors(p) \cup {p}
          BY <4>1, <5>2, <5>5, <5>6
        <5>8. ASSUME NEW a \in Ancestors(p) \cup {p} PROVE a \in Ancestors(n)
          BY <4>1, <5>3, <5>4, <5>5, <5>6
        <5> QED BY <5>7, <5>8
      <4>3. phase \in Block(p).skips <=> Skips(Ctx, p)
        BY CtxParts DEF Block, KeyOf, Skips
      <4> QED BY <4>2, <4>3 DEF Skipped
    <3>7. runs[p] = 0 => runs[n] = 0
      BY <1>1, <3>2, <3>4, CtxParts DEF Counted, KidsRan, Nodes
    <3>8. runs[p] = 1 => runs[n] = IF Skips(Ctx, p) THEN 0 ELSE 1
      BY <1>1, <3>2, <3>4, CtxParts DEF Visited, Closed, KidsRan, Nodes
    <3> QED BY <2>3, <3>5, <3>6, <3>7, <3>8
  <2> QED BY <2>5, <2>6
<1> QED BY <1>3

(* When an emit phase ends the handler of every node has run exactly once, *)
(* and not at all below a handler that claims its children and walks none: *)
(* the loops of walk, of walk_child_list_only and of monorepo, nested in   *)
(* any order, neither forget a node nor visit one again.                   *)
THEOREM HandlersRunOnce == Spec => []RunOnce
<1>1. Init => Once
  BY DEF Init, Once, Emitting
<1>2. Spec => []Once
  BY <1>1, IInvAlways, NextOnce, PTL DEF Spec
<1>3. IInv /\ Once => RunOnce
  <2> SUFFICES ASSUME IInv, Once, PhaseDone(phase), phase \in Emitting
               PROVE  \A n \in Nodes : runs[n] = IF Skipped(n) THEN 0 ELSE 1
    BY DEF RunOnce
  <2>1. Going /\ shape \in Shapes
    BY DEF IInv, Final, Emitting
  <2>2. Ran(Ctx, runs, <<>>)
    BY DEF Once, PhaseDone
  <2> QED BY <2>1, <2>2, KeptLogs, RanEverywhere
<1> QED BY <1>2, <1>3, IInvAlways, PTL

-----------------------------------------------------------------------------
(* Everything is generated.  A pass of nodegen that finds nothing new has  *)
(* left no node without its mark: at every moment of such a pass a frame   *)
(* will still get to each of them.  A handler that ran before adds under   *)
(* its own node or injects only what is there already, and whatever it     *)
(* adds elsewhere is below a frame that has not come to its children yet,  *)
(* or is a new last child of a node whose frame is still in its loop.      *)

\* The frame f goes, or will go, through the children of the node a.
Attends(f, a) == f.k \in {"walk", "only", "mono"} /\ f.n = a
LedBy(u, n)   == \A j \in 0..(Len(n) - 1) : \E e \in 1..Len(u) : Attends(u[e], SubSeq(n, 1, j))

\* What nodegen does for a node, and which part of it leaves nothing to do again.
HandlerOf(c, n) == IF TypeIn(c.shape, n) \in Steered THEN <<>>
                   ELSE c.shape.block[KeyIn(c.shape, n)].nodegen
NearestIn(s, n, type) ==
    LET hit == {i \in 0..Len(n) : TypeIn(s, SubSeq(n, 1, i)) = type}
    IN  IF hit = {} THEN Null ELSE SubSeq(n, 1, Max(hit))
Target(c, n, o) == Append(NearestIn(c.shape, n, "project"), o.to)
Settled(c, n, o) ==
    /\ o.op = "own" => Append(n, o.key) \in DOMAIN c.tree
    /\ o.op = "inject" => Append(Target(c, n, o), o.key) \in DOMAIN c.tree
SettledTo(c, n, pc) ==
    \A i \in 1..Len(HandlerOf(c, n)) : i < pc => Settled(c, n, HandlerOf(c, n)[i])
AllSettled(c, P) == \A n \in P : SettledTo(c, n, Len(HandlerOf(c, n)) + 1)

\* Frame f on the frames u: it is in the range of its loop, the walks under it are those
\* of all its ancestors, and no handler calls that of a project or a monorepo.
Guide(c, u, f) ==
    /\ f.k \in {"walk", "only", "mono"} => f.pc <= Len(c.tree[f.n]) + 1
    /\ f.k = "fn" => f.mark <= Len(c.tree[f.n]) /\ SettledTo(c, f.n, f.pc)
    /\ f.k = "fn" /\ BelowOf(u).k = "fn" => TypeIn(c.shape, f.n) \notin Looping
    /\ LedBy(u, f.n)
Guided(c, s) == \A d \in 1..Len(s) : Guide(c, SubSeq(s, 1, d - 1), s[d])

\* The frame f, or one of the frames s, has still to get to the node m.
Reaches(c, f, m) ==
    \/ f.k \in {"walk", "mono"} /\ f.pc = 0 /\ Prefix(f.n, m)
    \/ /\ f.k \in {"walk", "only", "mono"} /\ f.pc > 0
       /\ \E i \in f.pc..Len(c.tree[f.n]) : Prefix(Kid(c, f.n, i), m)
Reached(c, s, m) == \E d \in 1..Len(s) : Reaches(c, s[d], m)

\* The pass has found nothing new, and no handler at work will.
Calm(P, s) == \A d \in 1..Len(s) : s[d].k = "fn" => s[d].n \in P
Unmissed   == found_count = 0 /\ Calm(pass, stack) =>
                  \A m \in Nodes \ pass : Reached(Ctx, stack, m)
Generates  ==
    /\ phase = "load" => pass = {}
    /\ phase = "nodegen" => Guided(Ctx, stack) /\ AllSettled(Ctx, pass) /\ Unmissed
    /\ phase \in {"check"} \cup Emitting => Nodes \subseteq pass

(* The stack of frames with one more.                                      *)
LEMMA FramesAppended ==
    ASSUME NEW S, NEW u \in Seq(S), NEW f \in S
    PROVE  /\ Len(Append(u, f)) = Len(u) + 1 /\ Len(u) \in Nat
           /\ \A d \in 1..Len(u) : Append(u, f)[d] = u[d]
           /\ Append(u, f)[Len(u) + 1] = f
           /\ \A d \in 1..(Len(u) + 1) : d \in 1..Len(u) \/ d = Len(u) + 1
           /\ \A d \in 1..Len(u) : d \in 1..(Len(u) + 1)
           /\ Len(u) + 1 \in 1..(Len(u) + 1)
BY AppendProperties

LEMMA GuidedAppend ==
    ASSUME NEW c, NEW S, NEW u \in Seq(S), NEW f \in S
    PROVE  Guided(c, Append(u, f)) <=> Guided(c, u) /\ Guide(c, u, f)
<1> DEFINE t == Append(u, f)
           N == Len(u)
<1>1. /\ Len(t) = N + 1 /\ N \in Nat
      /\ \A d \in 1..N : t[d] = u[d]
      /\ t[N + 1] = f
      /\ \A d \in 1..(N + 1) : d \in 1..N \/ d = N + 1
      /\ \A d \in 1..N : d \in 1..(N + 1)
      /\ N + 1 \in 1..(N + 1)
  BY FramesAppended
<1>2. \A i \in 0..N : SubSeq(t, 1, i) = SubSeq(u, 1, i)
  BY Appended
<1>3. \A d \in 1..N : SubSeq(t, 1, d - 1) = SubSeq(u, 1, d - 1)
  <2>1. \A d \in 1..N : d - 1 \in 0..N
    BY <1>1
  <2> QED BY <1>2, <2>1
<1>4. SubSeq(t, 1, (N + 1) - 1) = u
  <2>1. (N + 1) - 1 = N /\ N \in 0..N /\ SubSeq(u, 1, N) = u
    BY <1>1, SubSeqFull
  <2> QED BY <1>2, <2>1
<1> HIDE DEF t
<1>5. Guided(c, t) <=> Guided(c, u) /\ Guide(c, u, f)
  BY <1>1, <1>3, <1>4 DEF Guided
<1> QED BY <1>5 DEF t

LEMMA ReachedAppend ==
    ASSUME NEW c, NEW S, NEW u \in Seq(S), NEW f \in S, NEW m
    PROVE  Reached(c, Append(u, f), m) <=> Reached(c, u, m) \/ Reaches(c, f, m)
<1> DEFINE t == Append(u, f)
<1>1. /\ Len(t) = Len(u) + 1 /\ Len(u) \in Nat
      /\ \A d \in 1..Len(u) : t[d] = u[d]
      /\ t[Len(u) + 1] = f
      /\ \A d \in 1..(Len(u) + 1) : d \in 1..Len(u) \/ d = Len(u) + 1
      /\ \A d \in 1..Len(u) : d \in 1..(Len(u) + 1)
      /\ Len(u) + 1 \in 1..(Len(u) + 1)
  BY FramesAppended
<1> HIDE DEF t
<1>2. Reached(c, t, m) <=> Reached(c, u, m) \/ Reaches(c, f, m)
  BY <1>1 DEF Reached
<1> QED BY <1>2 DEF t

LEMMA CalmAppend ==
    ASSUME NEW P, NEW S, NEW u \in Seq(S), NEW f \in S
    PROVE  Calm(P, Append(u, f)) <=> Calm(P, u) /\ (f.k = "fn" => f.n \in P)
<1> DEFINE t == Append(u, f)
<1>1. /\ Len(t) = Len(u) + 1 /\ Len(u) \in Nat
      /\ \A d \in 1..Len(u) : t[d] = u[d]
      /\ t[Len(u) + 1] = f
      /\ \A d \in 1..(Len(u) + 1) : d \in 1..Len(u) \/ d = Len(u) + 1
      /\ \A d \in 1..Len(u) : d \in 1..(Len(u) + 1)
      /\ Len(u) + 1 \in 1..(Len(u) + 1)
  BY FramesAppended
<1> HIDE DEF t
<1>2. Calm(P, t) <=> Calm(P, u) /\ (f.k = "fn" => f.n \in P)
  BY <1>1 DEF Calm
<1> QED BY <1>2 DEF t

\* A frame more leaves the walks there, and adds that of its own node.
LEMMA LedAppend ==
    ASSUME NEW S, NEW u \in Seq(S), NEW f \in S, NEW n, LedBy(u, n)
    PROVE  LedBy(Append(u, f), n)
<1> DEFINE t == Append(u, f)
<1>1. /\ Len(t) = Len(u) + 1
      /\ \A d \in 1..Len(u) : t[d] = u[d]
      /\ \A d \in 1..Len(u) : d \in 1..(Len(u) + 1)
  BY FramesAppended
<1> HIDE DEF t
<1>2. LedBy(t, n)
  BY <1>1 DEF LedBy
<1> QED BY <1>2 DEF t

\* All ancestors of n and n itself are walked.
Held(u, n) == \A j \in 0..Len(n) : \E e \in 1..Len(u) : Attends(u[e], SubSeq(n, 1, j))

LEMMA HeldLeads ==
    ASSUME NEW K, NEW u, NEW n \in Seq(K), NEW k \in K
    PROVE  /\ Held(u, n) => LedBy(u, Append(n, k)) /\ LedBy(u, n)
           /\ Held(u, n) => \E e \in 1..Len(u) : Attends(u[e], n)
           /\ LedBy(u, n) /\ (\E e \in 1..Len(u) : Attends(u[e], n)) => Held(u, n)
<1>1. /\ Len(Append(n, k)) = Len(n) + 1 /\ Len(n) \in Nat /\ SubSeq(n, 1, Len(n)) = n
      /\ \A i \in 0..Len(n) : SubSeq(Append(n, k), 1, i) = SubSeq(n, 1, i)
  BY Appended, SubSeqFull
<1> DEFINE N == Len(n)
<1>2. (N + 1) - 1 = N /\ \A i \in 0..N : i \in 0..(N - 1) \/ i = N
  <2>1. N \in Nat
    BY <1>1
  <2> HIDE DEF N
  <2> QED BY <2>1
<1>3. N \in 0..N /\ \A i \in 0..(N - 1) : i \in 0..N
  <2>1. N \in Nat
    BY <1>1
  <2> HIDE DEF N
  <2> QED BY <2>1
<1> QED BY <1>1, <1>2, <1>3 DEF Held, LedBy

\* A path is walked when one below it is.
LEMMA LedPart ==
    ASSUME NEW K, NEW u, NEW n \in Seq(K), LedBy(u, n), NEW i \in 0..(Len(n) - 1)
    PROVE  Held(u, SubSeq(n, 1, i))
<1>1. /\ SubSeq(n, 1, i) \in Seq(K) /\ Len(SubSeq(n, 1, i)) = i /\ Len(n) \in Nat /\ i \in Nat
      /\ i <= Len(n)
  OBVIOUS
<1>2. ASSUME NEW j \in 0..i PROVE SubSeq(SubSeq(n, 1, i), 1, j) = SubSeq(n, 1, j)
  <2>1. j \in Nat /\ j <= i /\ j <= Len(n)
    BY <1>1
  <2>2. /\ SubSeq(n, 1, j) \in Seq(K) /\ Len(SubSeq(n, 1, j)) = j
        /\ \A e \in 1..j : SubSeq(n, 1, j)[e] = n[e]
    BY <1>1, <2>1
  <2>3. \A e \in 1..i : SubSeq(n, 1, i)[e] = n[e]
    BY <1>1
  <2> DEFINE s == SubSeq(n, 1, i)
  <2>4. s \in Seq(K) /\ Len(s) = i
    BY <1>1
  <2> HIDE DEF s
  <2>5. /\ SubSeq(s, 1, j) \in Seq(K) /\ Len(SubSeq(s, 1, j)) = j
        /\ \A e \in 1..j : SubSeq(s, 1, j)[e] = s[e]
    BY <2>1, <2>4
  <2>6. \A e \in 1..j : s[e] = n[e]
    BY <2>1, <2>3 DEF s
  <2>7. SubSeq(s, 1, j) = SubSeq(n, 1, j)
    BY <2>2, <2>5, <2>6, SeqEqual
  <2> QED BY <2>7 DEF s
<1>3. \A j \in 0..i : j \in 0..(Len(n) - 1)
  BY <1>1
<1> QED BY <1>1, <1>2, <1>3 DEF LedBy, Held

(* What the frames say at a place of the stack.                            *)
LEMMA GuidedAt ==
    ASSUME NEW c, NEW S, NEW s \in Seq(S), Guided(c, s), NEW d \in 1..Len(s)
    PROVE  /\ s[d].k \in {"walk", "only", "mono"} => s[d].pc <= Len(c.tree[s[d].n]) + 1
           /\ s[d].k = "fn" /\ d # 1 /\ s[d - 1].k = "fn"
                => TypeIn(c.shape, s[d].n) \notin Looping
           /\ \A j \in 0..(Len(s[d].n) - 1) : \E e \in 1..(d - 1) :
                 Attends(s[e], SubSeq(s[d].n, 1, j))
<1> DEFINE u == SubSeq(s, 1, d - 1)
<1>1. Guide(c, u, s[d])
  BY DEF Guided
<1>2. Len(u) = d - 1 /\ \A e \in 1..(d - 1) : u[e] = s[e]
  OBVIOUS
<1> HIDE DEF u
<1>3. d # 1 => BelowOf(u) = s[d - 1]
  <2> SUFFICES ASSUME d # 1 PROVE BelowOf(u) = s[d - 1]
    OBVIOUS
  <2>1. d - 1 \in 1..(d - 1) /\ Len(u) # 0
    BY <1>2
  <2>2. u # <<>>
    BY <2>1
  <2> QED BY <1>2, <2>1, <2>2 DEF BelowOf, Last
<1> QED BY <1>1, <1>2, <1>3 DEF Guide, LedBy

\* A frame that has not begun stands above the node a: what is added under a is yet to come.
Covers(s, a) == \E e \in 1..Len(s) :
                   s[e].k \in {"walk", "mono"} /\ s[e].pc = 0 /\ Prefix(s[e].n, a)

\* At place d: a is what the handler there has for its root.
SafeTo(s, d, a) ==
    /\ \E e \in 1..d : /\ s[e].k \in {"walk", "mono"} /\ s[e].pc = 0 /\ Prefix(s[e].n, a)
                       /\ s[d].k \in {"mono", "each"} => Prefix(s[e].n, s[d].n)
    /\ \A j \in 0..Len(a) : \E e \in 1..d : Attends(s[e], SubSeq(a, 1, j))

LEMMA SafePlaces ==
    ASSUME NEW c, TreeOK(c.tree, Keys(c)), c.phase = "nodegen",
           NEW s \in Seq(FrameSet(c)), Guided(c, s), NEW hr,
           \A d \in 1..Len(s) :
              LET b == IF d = 1 THEN Bottom ELSE s[d - 1]
              IN  /\ FrameOK(c, s[d]) /\ Link(c, b, s[d])
                  /\ hr[d - 1] \in RootLogs(c) /\ hr[d] \in RootLogs(c)
                  /\ RootOn(c, b, s[d], hr[d - 1], hr[d])
    PROVE  \A d \in 1..Len(s) : s[d].k \in {"fn", "mono", "each"} => SafeTo(s, d, Last(hr[d]))
<1> DEFINE T == {d \in 1..Len(s) : s[d].k \in {"fn", "mono", "each"} /\ ~SafeTo(s, d, Last(hr[d]))}
<1>1. ASSUME NEW d \in 1..Len(s)
      PROVE  /\ s[d] \in FrameSet(c) /\ s[d].n \in Seq(Keys(c)) /\ s[d].n \in DOMAIN c.tree
             /\ Len(s[d].n) \in Nat /\ SubSeq(s[d].n, 1, Len(s[d].n)) = s[d].n
  <2>1. s[d] \in FrameSet(c)
    OBVIOUS
  <2>2. s[d].n \in DOMAIN c.tree
    BY <2>1 DEF FrameSet
  <2>3. s[d].n \in Seq(Keys(c))
    BY <2>2 DEF TreeOK
  <2> QED BY <2>1, <2>2, <2>3, SubSeqFull
<1>2. ASSUME T # {} PROVE FALSE
  <2>1. T \in SUBSET Nat
    OBVIOUS
  <2>2. PICK d \in T : \A e \in T : d <= e
    BY <1>2, <2>1, LeastOf
  <2>3. /\ d \in 1..Len(s) /\ ~SafeTo(s, d, Last(hr[d]))
        /\ (s[d].k = "fn" \/ s[d].k = "mono" \/ s[d].k = "each")
    BY <2>2
  <2>4. ASSUME NEW e \in 1..Len(s), e < d, s[e].k = "fn" \/ s[e].k = "mono" \/ s[e].k = "each"
        PROVE  SafeTo(s, e, Last(hr[e]))
    <3>1. e \notin T
      BY <2>2, <2>3, <2>4
    <3> QED BY <2>4, <3>1
  <2> HIDE DEF T
  <2>5. d # 1
    <3> SUFFICES ASSUME d = 1 PROVE FALSE
      OBVIOUS
    <3>1. Link(c, Bottom, s[1])
      BY <2>3
    <3>2. Bottom.k = "go"
      BY DEF Bottom, Frame
    <3> QED BY <2>3, <3>1, <3>2 DEF Link
  <2> DEFINE b == s[d - 1]
             f == s[d]
             r0 == hr[d - 1]
             r  == hr[d]
  <2>6. /\ d - 1 \in 1..Len(s) /\ d - 1 < d /\ Link(c, b, f) /\ RootOn(c, b, f, r0, r)
        /\ FrameOK(c, f) /\ FrameOK(c, b) /\ r0 \in RootLogs(c) /\ r \in RootLogs(c)
    BY <2>3, <2>5
  <2>7. \A e \in 1..(d - 1) : e \in 1..d
    BY <2>3
  <2>8. \A x : Last(Append(r0, x)) = x
    <3> TAKE x
    <3>1. r0 \in Seq(Roots(c) \cup {x}) /\ x \in Roots(c) \cup {x}
      BY <2>6 DEF RootLogs
    <3> QED BY <3>1, Appended
  <2>9. \A j \in 0..(Len(f.n) - 1) : \E e \in 1..(d - 1) : Attends(s[e], SubSeq(f.n, 1, j))
    BY <2>3, GuidedAt
  <2>10. \A j \in 0..(Len(b.n) - 1) : \E e \in 1..((d - 1) - 1) : Attends(s[e], SubSeq(b.n, 1, j))
    BY <2>6, GuidedAt
  <2>11. \A e \in 1..((d - 1) - 1) : e \in 1..d
    BY <2>3
  <2> DEFINE Leads(e, a) == s[e].k \in {"walk", "mono"} /\ s[e].pc = 0 /\ Prefix(s[e].n, a)
  <2>12. CASE f.k = "fn"
    <3>1. CASE b.k = "walk"
      <4>1. b.pc = 0 /\ f.n = b.n /\ Last(r) = f.n
        BY <2>6, <2>8, <2>12, <3>1 DEF Link, RootOn, RootHeld, Bottom, Frame
      <4>2. Prefix(b.n, f.n)
        BY <1>1, <2>3, <4>1 DEF Prefix
      <4>3. d - 1 \in 1..d
        BY <2>3, <2>5
      <4>4. ASSUME NEW j \in 0..Len(f.n)
            PROVE  \E e \in 1..d : Attends(s[e], SubSeq(f.n, 1, j))
        <5>1. CASE j = Len(f.n)
          <6>1. SubSeq(f.n, 1, j) = b.n
            BY <1>1, <2>3, <4>1, <5>1
          <6> QED BY <3>1, <4>3, <6>1 DEF Attends
        <5>2. CASE j # Len(f.n)
          <6>1. j \in 0..(Len(f.n) - 1)
            BY <1>1, <2>3, <5>2
          <6> QED BY <2>7, <2>9, <6>1
        <5> QED BY <5>1, <5>2
      <4> QED BY <2>3, <2>12, <3>1, <4>1, <4>2, <4>3, <4>4 DEF SafeTo
    <3>2. CASE b.k # "walk"
      <4>1. r = r0
        BY <2>6, <2>12, <3>2 DEF RootOn, RootHeld
      <4>2. b.k = "mono" \/ b.k = "fn"
        BY <2>6, <2>12, <3>2 DEF Link, Bottom, Frame
      <4>3. SafeTo(s, d - 1, Last(r))
        BY <2>4, <2>6, <4>1, <4>2
      <4> QED BY <2>3, <2>7, <2>12, <4>3 DEF SafeTo
    <3> QED BY <3>1, <3>2
  <2>13. CASE f.k = "each"
    <3>1. /\ b.k = "fn" /\ f.n = b.n /\ r = r0 /\ TypeIn(c.shape, f.n) \in Looping
      BY <2>6, <2>13 DEF Link, Bottom, Frame, RootOn, RootHeld, FrameOK, Looping
    <3>2. SafeTo(s, d - 1, Last(r))
      BY <2>4, <2>6, <3>1
    <3>3. d - 1 # 1
      <4> SUFFICES ASSUME d - 1 = 1 PROVE FALSE
        OBVIOUS
      <4>1. Link(c, Bottom, b)
        BY <2>6
      <4> QED BY <3>1, <4>1 DEF Link, Bottom, Frame
    <3> DEFINE a == s[(d - 1) - 1]
    <3>4. /\ (d - 1) - 1 \in 1..Len(s) /\ (d - 1) - 1 < d /\ Link(c, a, b) /\ (d - 1) - 1 \in 1..d
          /\ RootOn(c, a, b, hr[(d - 1) - 1], r0) /\ hr[(d - 1) - 1] \in RootLogs(c)
      <4> DEFINE i == d - 1
      <4>1. i \in 1..Len(s) /\ i # 1 /\ i < d /\ i \in Nat /\ d \in Nat
        BY <2>3, <2>6, <3>3
      <4>2. Link(c, s[i - 1], s[i]) /\ RootOn(c, s[i - 1], s[i], hr[i - 1], hr[i])
            /\ hr[i - 1] \in RootLogs(c)
        <5> HIDE DEF i
        <5> QED BY <4>1
      <4>3. i - 1 \in 1..Len(s) /\ i - 1 < d /\ i - 1 \in 1..d
        <5> HIDE DEF i
        <5> QED BY <4>1
      <4> QED BY <4>2, <4>3
    <3>5. a.k # "fn"
      BY <2>6, <3>1, <3>3, GuidedAt
    <3>6. (a.k = "walk" \/ a.k = "mono") /\ a.pc = 0 /\ a.n = f.n
      BY <3>1, <3>4, <3>5 DEF Link, Bottom, Frame
    <3>7. \E e \in 1..d : Leads(e, Last(r)) /\ Prefix(s[e].n, f.n)
      <4>1. Prefix(f.n, f.n)
        BY <1>1, <2>3 DEF Prefix
      <4>2. CASE a.k = "walk"
        <5>1. r = Append(hr[(d - 1) - 1], f.n)
          BY <3>1, <3>4, <4>2 DEF RootOn, RootHeld
        <5>2. Last(r) = f.n
          <6> DEFINE h == hr[(d - 1) - 1]
                     x == f.n
          <6>1. h \in Seq(Roots(c) \cup {x}) /\ x \in Roots(c) \cup {x}
            BY <3>4 DEF RootLogs
          <6>2. Last(Append(h, x)) = x
            <7> HIDE DEF h, x
            <7> QED BY <6>1, Appended
          <6> QED BY <5>1, <6>2
        <5> QED BY <3>4, <3>6, <4>1, <5>2
      <4>3. CASE a.k = "mono"
        <5>1. r = hr[(d - 1) - 1]
          BY <3>1, <3>4, <4>3 DEF RootOn, RootHeld
        <5>2. SafeTo(s, (d - 1) - 1, Last(r))
          BY <2>4, <3>4, <4>3, <5>1
        <5>3. PICK e \in 1..((d - 1) - 1) : Leads(e, Last(r)) /\ Prefix(s[e].n, a.n)
          BY <4>3, <5>2 DEF SafeTo
        <5> QED BY <2>11, <3>6, <5>3
      <4> QED BY <3>6, <4>2, <4>3
    <3> HIDE DEF a
    <3> QED BY <2>3, <2>7, <3>2, <3>7 DEF SafeTo
  <2>14. CASE f.k = "mono"
    <3>1. (b.k = "mono" \/ b.k = "each") /\ KidFrame(c, b, f)
      BY <2>6, <2>14 DEF Link, Bottom, Frame
    <3>2. SafeTo(s, d - 1, Last(r0))
      BY <2>4, <2>6, <3>1
    <3>3. PICK e \in 1..(d - 1) : Leads(e, Last(r0)) /\ Prefix(s[e].n, b.n)
      BY <3>1, <3>2 DEF SafeTo
    <3>4. Prefix(s[e].n, f.n)
      <4>1. PICK k \in Keys(c) : f.n = Append(b.n, k)
        <5>1. b.pc - 1 \in 1..Len(c.tree[b.n]) /\ f.n = Append(b.n, c.tree[b.n][b.pc - 1])
          BY <3>1 DEF KidFrame
        <5>2. c.tree[b.n] \in Seq(Keys(c))
          BY <1>1, <2>6 DEF TreeOK
        <5>3. c.tree[b.n][b.pc - 1] \in Keys(c)
          BY <5>1, <5>2
        <5> QED BY <5>1, <5>3
      <4>2. e \in 1..Len(s)
        BY <2>3
      <4>3. s[e].n \in Seq(Keys(c)) /\ b.n \in Seq(Keys(c)) /\ f.n \in Seq(Keys(c))
        BY <1>1, <2>3, <2>6, <4>2
      <4>4. Prefix(b.n, f.n)
        BY <4>1, <4>3, PrefixAppend
      <4> QED BY <3>3, <4>3, <4>4, PrefixTwice
    <3>5. e \in 1..d
      BY <2>7
    <3>6. CASE RootHeld(c, b, f)
      <4>1. Last(r) = f.n
        BY <2>6, <2>8, <3>6 DEF RootOn
      <4>2. ASSUME NEW j \in 0..Len(f.n)
            PROVE  \E i \in 1..d : Attends(s[i], SubSeq(f.n, 1, j))
        <5>1. CASE j = Len(f.n)
          <6>1. SubSeq(f.n, 1, j) = f.n /\ d \in 1..d
            BY <1>1, <2>3, <5>1
          <6> QED BY <2>14, <6>1 DEF Attends
        <5>2. CASE j # Len(f.n)
          <6>1. j \in 0..(Len(f.n) - 1)
            BY <1>1, <2>3, <5>2
          <6> QED BY <2>7, <2>9, <6>1
        <5> QED BY <5>1, <5>2
      <4> QED BY <2>3, <3>3, <3>4, <3>5, <4>1, <4>2 DEF SafeTo
    <3>7. CASE ~RootHeld(c, b, f)
      <4>1. r = r0
        BY <2>6, <3>7 DEF RootOn
      <4> QED BY <2>3, <2>7, <3>2, <3>3, <3>4, <3>5, <4>1 DEF SafeTo
    <3> QED BY <3>6, <3>7
  <2> QED BY <2>3, <2>12, <2>13, <2>14
<1> QED BY <1>2

\* The root of a handler: what stands above it will go through all that is added there.
LEMMA SafeRoot ==
    ASSUME NEW c, TreeOK(c.tree, Keys(c)), c.phase = "nodegen",
           NEW s, NEW r, NEW g, Stacked(c, s, r, g), Guided(c, s), s # <<>>, Last(s).k = "fn"
    PROVE  Covers(s, Last(r)) /\ Held(s, Last(r))
<1>1. s \in Seq(FrameSet(c))
  BY DEF Stacked
<1>2. PICK hr \in [0..Len(s) -> RootLogs(c)], hf \in [0..Len(s) -> FolderLogs(c)] :
          /\ hr[Len(s)] = r
          /\ \A d \in 1..Len(s) : On(c, IF d = 1 THEN Bottom ELSE s[d - 1], s[d],
                                     hr[d - 1], hf[d - 1], hr[d], hf[d])
  BY DEF Stacked
<1>3. ASSUME NEW d \in 1..Len(s)
      PROVE  LET b == IF d = 1 THEN Bottom ELSE s[d - 1]
             IN  /\ FrameOK(c, s[d]) /\ Link(c, b, s[d])
                 /\ hr[d - 1] \in RootLogs(c) /\ hr[d] \in RootLogs(c)
                 /\ RootOn(c, b, s[d], hr[d - 1], hr[d])
  <2>1. d - 1 \in 0..Len(s) /\ d \in 0..Len(s)
    BY <1>1
  <2> QED BY <1>2, <2>1 DEF On
<1>4. \A d \in 1..Len(s) : s[d].k \in {"fn", "mono", "each"} => SafeTo(s, d, Last(hr[d]))
  BY <1>1, <1>3, SafePlaces
<1>5. Len(s) \in 1..Len(s) /\ s[Len(s)].k = "fn"
  BY <1>1 DEF Last
<1>6. SafeTo(s, Len(s), Last(r))
  BY <1>2, <1>4, <1>5
<1> QED BY <1>5, <1>6 DEF SafeTo, Covers, Held

(* What growing leaves as it is.                                           *)
LEMMA SettledGrows ==
    ASSUME NEW c, NEW d, Grows(c, d), NEW n, NEW pc, SettledTo(c, n, pc)
    PROVE  SettledTo(d, n, pc)
<1>1. d.shape = c.shape /\ DOMAIN c.tree \subseteq DOMAIN d.tree
  BY DEF Grows, Extends
<1>2. HandlerOf(d, n) = HandlerOf(c, n)
  BY <1>1 DEF HandlerOf
<1>3. \A o : Target(d, n, o) = Target(c, n, o)
  BY <1>1 DEF Target
<1> QED BY <1>1, <1>2, <1>3 DEF SettledTo, Settled

LEMMA GuidedGrows ==
    ASSUME NEW c, NEW d, Grows(c, d), NEW s \in Seq(FrameSet(c)), Guided(c, s)
    PROVE  Guided(d, s)
<1> SUFFICES ASSUME NEW i \in 1..Len(s) PROVE Guide(d, SubSeq(s, 1, i - 1), s[i])
  BY DEF Guided
<1> DEFINE u == SubSeq(s, 1, i - 1)
           f == s[i]
<1>1. Guide(c, u, f) /\ f \in FrameSet(c)
  BY DEF Guided
<1>2. d.shape = c.shape
  BY DEF Grows
<1>3. /\ f.n \in DOMAIN c.tree /\ f.pc \in Nat /\ f.mark \in Nat
      /\ Len(c.tree[f.n]) \in Nat /\ Len(d.tree[f.n]) \in Nat
      /\ Len(c.tree[f.n]) <= Len(d.tree[f.n])
  <2> HIDE DEF f, u
  <2>1. f.n \in DOMAIN c.tree /\ f.pc \in Nat /\ f.mark \in Nat
    BY <1>1 DEF FrameSet
  <2> QED BY <2>1 DEF Grows, Extends, TreeOK
<1> HIDE DEF u, f
<1>4. Guide(d, u, f)
  <2>1. f.k \in {"walk", "only", "mono"} => f.pc <= Len(d.tree[f.n]) + 1
    BY <1>1, <1>3 DEF Guide
  <2>2. f.k = "fn" => f.mark <= Len(d.tree[f.n])
    BY <1>1, <1>3 DEF Guide
  <2>3. f.k = "fn" => SettledTo(d, f.n, f.pc)
    BY <1>1, SettledGrows DEF Guide
  <2> QED BY <1>1, <1>2, <2>1, <2>2, <2>3 DEF Guide
<1> QED BY <1>4 DEF u, f

LEMMA ReachesGrows ==
    ASSUME NEW c, NEW d, Grows(c, d), NEW f \in FrameSet(c), NEW m, Reaches(c, f, m)
    PROVE  Reaches(d, f, m)
<1>1. /\ f.n \in DOMAIN c.tree /\ f.pc \in Nat
      /\ Len(c.tree[f.n]) \in Nat /\ Len(d.tree[f.n]) \in Nat
      /\ Len(c.tree[f.n]) <= Len(d.tree[f.n])
      /\ \A i \in 1..Len(c.tree[f.n]) : d.tree[f.n][i] = c.tree[f.n][i]
  <2>1. f.n \in DOMAIN c.tree /\ f.pc \in Nat
    BY DEF FrameSet
  <2>2. TreeOK(c.tree, Keys(c)) /\ TreeOK(d.tree, Keys(c)) /\ Extends(c.tree, d.tree)
    BY DEF Grows
  <2>3. f.n \in DOMAIN d.tree /\ Len(c.tree[f.n]) <= Len(d.tree[f.n])
        /\ \A i \in 1..Len(c.tree[f.n]) : d.tree[f.n][i] = c.tree[f.n][i]
    BY <2>1, <2>2 DEF Extends
  <2>4. c.tree[f.n] \in Seq(Keys(c)) /\ d.tree[f.n] \in Seq(Keys(c))
    BY <2>1, <2>2, <2>3 DEF TreeOK
  <2>5. Len(c.tree[f.n]) \in Nat /\ Len(d.tree[f.n]) \in Nat
    BY <2>4
  <2> QED BY <2>1, <2>3, <2>5
<1>2. CASE f.k \in {"walk", "mono"} /\ f.pc = 0 /\ Prefix(f.n, m)
  BY <1>2 DEF Reaches
<1>3. CASE /\ f.k \in {"walk", "only", "mono"} /\ f.pc > 0
           /\ \E i \in f.pc..Len(c.tree[f.n]) : Prefix(Kid(c, f.n, i), m)
  <2>1. PICK i \in f.pc..Len(c.tree[f.n]) : Prefix(Kid(c, f.n, i), m)
    BY <1>3
  <2>2. i \in f.pc..Len(d.tree[f.n]) /\ i \in 1..Len(c.tree[f.n])
    BY <1>1, <1>3
  <2>3. Kid(d, f.n, i) = Kid(c, f.n, i)
    BY <1>1, <2>2 DEF Kid
  <2> QED BY <1>3, <2>1, <2>2, <2>3 DEF Reaches
<1> QED BY <1>2, <1>3 DEF Reaches

\* What tr_get makes of the tree.
LEMMA GrownParts ==
    ASSUME NEW K, NEW t, TreeOK(t, K), NEW p \in DOMAIN t, NEW k \in K
    PROVE  /\ \A m : m \in DOMAIN Grown(t, p, k) <=> m \in DOMAIN t \/ m = Append(p, k)
           /\ Append(p, k) \notin DOMAIN t =>
                 Len(Grown(t, p, k)[p]) = Len(t[p]) + 1 /\ Grown(t, p, k)[p][Len(t[p]) + 1] = k
           /\ Append(p, k) \in DOMAIN t => Grown(t, p, k) = t
<1> DEFINE q == Append(p, k)
<1>1. p \in Seq(K) /\ t[p] \in Seq(K)
  BY DEF TreeOK
<1>2. q # <<>> /\ Front(q) = p /\ Last(q) = k /\ Len(q) = Len(p) + 1
  BY <1>1, Appended
<1>3. q \in DOMAIN t <=> Contains(t[p], k)
  <2>1. ASSUME q \in DOMAIN t PROVE Contains(t[p], k)
    <3>1. Contains(t[Front(q)], Last(q))
      BY <1>2, <2>1 DEF TreeOK
    <3> QED BY <1>2, <3>1
  <2>2. ASSUME Contains(t[p], k) PROVE q \in DOMAIN t
    BY <2>2 DEF Contains, TreeOK
  <2> QED BY <2>1, <2>2
<1>4. CASE q \in DOMAIN t
  BY <1>3, <1>4 DEF Grown
<1>5. CASE q \notin DOMAIN t
  <2>1. Grown(t, p, k) = [m \in DOMAIN t \cup {q} |-> CASE m = p -> Append(t[p], k)
                                           [] m = q -> <<>> [] OTHER -> t[m]]
    BY <1>3, <1>5 DEF Grown
  <2>2. Len(Append(t[p], k)) = Len(t[p]) + 1 /\ Append(t[p], k)[Len(t[p]) + 1] = k
    BY <1>1, AppendProperties
  <2> HIDE DEF q
  <2>3. DOMAIN Grown(t, p, k) = DOMAIN t \cup {q} /\ Grown(t, p, k)[p] = Append(t[p], k)
    BY <1>5, <2>1
  <2> QED BY <1>5, <2>2, <2>3 DEF q
<1> QED BY <1>4, <1>5

\* After a call of tr_get under p every unmarked node is still reached, if the child was
\* there, or p is below a frame that has not begun, or p has a frame.
LEMMA ReachedGrows ==
    ASSUME NEW c, NEW d, Grows(c, d), NEW s \in Seq(FrameSet(c)), Guided(c, s),
           \A e \in 1..Len(s) : s[e].k = "only" => s[e].pc > 0,
           NEW p \in DOMAIN c.tree, NEW k \in Keys(c), d.tree = Grown(c.tree, p, k),
           \/ Append(p, k) \in DOMAIN c.tree
           \/ Covers(s, p)
           \/ \E e \in 1..Len(s) : Attends(s[e], p),
           NEW P, \A m \in DOMAIN c.tree \ P : Reached(c, s, m)
    PROVE  \A m \in DOMAIN d.tree \ P : Reached(d, s, m)
<1> DEFINE q == Append(p, k)
<1>1. TreeOK(c.tree, Keys(c)) /\ TreeOK(d.tree, Keys(c))
  BY DEF Grows
<1> DEFINE t == Grown(c.tree, p, k)
<1>2. /\ DOMAIN d.tree = DOMAIN c.tree \cup {q}
      /\ q \notin DOMAIN c.tree =>
            Len(d.tree[p]) = Len(c.tree[p]) + 1 /\ d.tree[p][Len(c.tree[p]) + 1] = k
      /\ Len(c.tree[p]) \in Nat
  <2>1. /\ \A m : m \in DOMAIN t <=> m \in DOMAIN c.tree \/ m = q
        /\ q \notin DOMAIN c.tree =>
              Len(t[p]) = Len(c.tree[p]) + 1 /\ t[p][Len(c.tree[p]) + 1] = k
    BY <1>1, GrownParts
  <2>2. d.tree = t
    OBVIOUS
  <2>3. Len(c.tree[p]) \in Nat
    BY <1>1 DEF TreeOK
  <2> HIDE DEF t, q
  <2> QED BY <2>1, <2>2, <2>3
<1> HIDE DEF t
<1>3. ASSUME NEW m, Reached(c, s, m) PROVE Reached(d, s, m)
  <2>1. PICK e \in 1..Len(s) : Reaches(c, s[e], m)
    BY <1>3 DEF Reached
  <2>2. s[e] \in FrameSet(c)
    OBVIOUS
  <2>3. Reaches(d, s[e], m)
    BY <2>1, <2>2, ReachesGrows
  <2> QED BY <2>3 DEF Reached
<1>4. p \in Seq(Keys(c)) /\ q \in Seq(Keys(c)) /\ Prefix(p, q) /\ Prefix(q, q)
  <2>1. p \in Seq(Keys(c))
    BY <1>1 DEF TreeOK
  <2>2. q \in Seq(Keys(c)) /\ Prefix(p, q)
    BY <2>1, Appended, PrefixAppend
  <2> HIDE DEF q
  <2>3. Prefix(q, q)
    BY <2>2, PrefixAppend
  <2> QED BY <2>1, <2>2, <2>3
<1>5. ASSUME q \notin DOMAIN c.tree PROVE Reached(d, s, q)
  <2>1. CASE Covers(s, p)
    <3>1. PICK e \in 1..Len(s) :
             s[e].k \in {"walk", "mono"} /\ s[e].pc = 0 /\ Prefix(s[e].n, p)
      BY <2>1 DEF Covers
    <3>2. s[e] \in FrameSet(c)
      OBVIOUS
    <3>3. s[e].n \in Seq(Keys(c))
      BY <1>1, <3>2 DEF FrameSet, TreeOK
    <3>4. Prefix(s[e].n, q)
      <4> HIDE DEF q
      <4> QED BY <1>4, <3>1, <3>3, PrefixTwice
    <3> QED BY <3>1, <3>4 DEF Reached, Reaches
  <2>2. CASE \E e \in 1..Len(s) : Attends(s[e], p)
    <3>1. PICK e \in 1..Len(s) : s[e].k \in {"walk", "only", "mono"} /\ s[e].n = p
      BY <2>2 DEF Attends
    <3>2. s[e] \in FrameSet(c) /\ (s[e].k = "only" => s[e].pc > 0) /\ s[e].pc <= Len(c.tree[p]) + 1
      BY <3>1, GuidedAt
    <3>3. Len(c.tree[p]) \in Nat /\ s[e].pc \in Nat
      BY <1>2, <3>2 DEF FrameSet
    <3>4. Len(d.tree[p]) = Len(c.tree[p]) + 1 /\ d.tree[p][Len(c.tree[p]) + 1] = k
      BY <1>2, <1>5
    <3>5. CASE s[e].pc = 0
      <4>1. s[e].k \in {"walk", "mono"}
        BY <3>1, <3>2, <3>5
      <4> QED BY <1>4, <3>1, <3>5, <4>1 DEF Reached, Reaches
    <3>6. CASE s[e].pc # 0
      <4>1. Len(c.tree[p]) + 1 \in s[e].pc..Len(d.tree[p])
        BY <3>2, <3>3, <3>4
      <4>2. Kid(d, p, Len(c.tree[p]) + 1) = q
        BY <3>4 DEF Kid
      <4>3. Reaches(d, s[e], q)
        <5>1. s[e].pc > 0
          BY <3>3, <3>6
        <5>2. \E i \in s[e].pc..Len(d.tree[s[e].n]) : Prefix(Kid(d, s[e].n, i), q)
          <6> HIDE DEF q
          <6> QED BY <1>4, <3>1, <4>1, <4>2
        <5> QED BY <3>1, <5>1, <5>2 DEF Reaches
      <4> QED BY <4>3 DEF Reached
    <3> QED BY <3>5, <3>6
  <2> QED BY <1>5, <2>1, <2>2
<1> HIDE DEF q
<1> QED BY <1>2, <1>3, <1>5

(* Frames that are replaced.                                               *)
LEMMA LedSame ==
    ASSUME NEW S, NEW u \in Seq(S), NEW f \in S, NEW e \in S, e.k = f.k, e.n = f.n, NEW n
    PROVE  /\ LedBy(Append(u, f), n) => LedBy(Append(u, e), n)
           /\ Held(Append(u, f), n) => Held(Append(u, e), n)
<1> DEFINE s == Append(u, f)
           t == Append(u, e)
<1>1. /\ Len(t) = Len(u) + 1 /\ Len(s) = Len(u) + 1
      /\ \A d \in 1..Len(u) : t[d] = u[d] /\ s[d] = u[d]
      /\ t[Len(u) + 1] = e /\ s[Len(u) + 1] = f
      /\ \A d \in 1..(Len(u) + 1) : d \in 1..Len(u) \/ d = Len(u) + 1
  <2>1. /\ Len(t) = Len(u) + 1
        /\ \A d \in 1..Len(u) : t[d] = u[d]
        /\ t[Len(u) + 1] = e
        /\ \A d \in 1..(Len(u) + 1) : d \in 1..Len(u) \/ d = Len(u) + 1
    BY FramesAppended
  <2>2. /\ Len(s) = Len(u) + 1
        /\ \A d \in 1..Len(u) : s[d] = u[d]
        /\ s[Len(u) + 1] = f
    BY FramesAppended
  <2> QED BY <2>1, <2>2
<1> HIDE DEF s, t
<1>2. \A a : \A d \in 1..Len(s) : Attends(s[d], a) => d \in 1..Len(t) /\ Attends(t[d], a)
  BY <1>1 DEF Attends
<1>3. /\ LedBy(s, n) => LedBy(t, n)
      /\ Held(s, n) => Held(t, n)
  BY <1>2 DEF LedBy, Held
<1> QED BY <1>3 DEF s, t

LEMMA HeldAppend ==
    ASSUME NEW S, NEW u \in Seq(S), NEW f \in S, NEW n, Held(u, n)
    PROVE  Held(Append(u, f), n)
<1> DEFINE t == Append(u, f)
<1>1. /\ Len(t) = Len(u) + 1
      /\ \A d \in 1..Len(u) : t[d] = u[d]
      /\ \A d \in 1..Len(u) : d \in 1..(Len(u) + 1)
  BY FramesAppended
<1> HIDE DEF t
<1>2. Held(t, n)
  BY <1>1 DEF Held
<1> QED BY <1>2 DEF t

\* A handler goes on, its operations up to there being settled.
LEMMA HandlerGoesOn ==
    ASSUME NEW c, NEW u \in Seq(FrameSet(c)), NEW f \in FrameSet(c), f.k = "fn",
           Guided(c, Append(u, f)), NEW p \in Nat, NEW m \in Nat, m <= Len(c.tree[f.n]),
           SettledTo(c, f.n, p)
    PROVE  /\ Guided(c, Append(u, Stepped(f, p, m)))
           /\ \A P : Calm(P, Append(u, Stepped(f, p, m))) <=> Calm(P, Append(u, f))
           /\ \A x : Reached(c, Append(u, Stepped(f, p, m)), x) <=> Reached(c, Append(u, f), x)
<1> DEFINE e == Stepped(f, p, m)
<1>1. e \in FrameSet(c) /\ e.k = "fn" /\ e.n = f.n /\ e.pc = p /\ e.mark = m
  <2>1. \A h \in FrameSet(c) : /\ Stepped(h, p, m) \in FrameSet(c)
           /\ Stepped(h, p, m).k = h.k /\ Stepped(h, p, m).n = h.n
           /\ Stepped(h, p, m).pc = p /\ Stepped(h, p, m).mark = m
    BY DEF Stepped, FrameSet
  <2> QED BY <2>1
<1> HIDE DEF e
<1>2. Guided(c, u) /\ Guide(c, u, f)
  BY GuidedAppend
<1>3. Guide(c, u, e)
  BY <1>1, <1>2 DEF Guide
<1>4. Guided(c, Append(u, e))
  BY <1>1, <1>2, <1>3, GuidedAppend
<1>5. ASSUME NEW P PROVE Calm(P, Append(u, e)) <=> Calm(P, Append(u, f))
  <2>1. Calm(P, Append(u, e)) <=> Calm(P, u) /\ (e.k = "fn" => e.n \in P)
    BY <1>1, CalmAppend
  <2>2. Calm(P, Append(u, f)) <=> Calm(P, u) /\ (f.k = "fn" => f.n \in P)
    BY CalmAppend
  <2> QED BY <1>1, <2>1, <2>2
<1>6. ASSUME NEW x PROVE Reached(c, Append(u, e), x) <=> Reached(c, Append(u, f), x)
  <2>1. Reached(c, Append(u, e), x) <=> Reached(c, u, x) \/ Reaches(c, e, x)
    BY <1>1, ReachedAppend
  <2>2. Reached(c, Append(u, f), x) <=> Reached(c, u, x) \/ Reaches(c, f, x)
    BY ReachedAppend
  <2>3. ~Reaches(c, e, x) /\ ~Reaches(c, f, x)
    BY <1>1 DEF Reaches
  <2> QED BY <2>1, <2>2, <2>3
<1> QED BY <1>4, <1>5, <1>6 DEF e

\* A loop starts the walk of its next child.
LEMMA LoopGoesOn ==
    ASSUME NEW c, TreeOK(c.tree, Keys(c)), NEW u \in Seq(FrameSet(c)), NEW f \in FrameSet(c),
           f.k # "fn", f.pc \in 1..Len(c.tree[f.n]), NEW m \in Nat,
           Guided(c, Append(u, f)), Held(Append(u, f), f.n),
           NEW g \in FrameSet(c), g.k = "walk" \/ g.k = "mono", g.pc = 0,
           g.n = Kid(c, f.n, f.pc)
    PROVE  LET t == Append(Append(u, Stepped(f, f.pc + 1, m)), g)
           IN  /\ Guided(c, t)
               /\ \A P : Calm(P, t) <=> Calm(P, Append(u, f))
               /\ \A x : Reached(c, Append(u, f), x) => Reached(c, t, x)
<1> DEFINE e == Stepped(f, f.pc + 1, m)
           v == Append(u, e)
           t == Append(v, g)
           n == f.n
<1>1. f.pc \in Nat /\ n \in DOMAIN c.tree /\ g.n \in DOMAIN c.tree
  BY DEF FrameSet
<1>2. Len(c.tree[n]) \in Nat /\ n \in Seq(Keys(c)) /\ c.tree[n] \in Seq(Keys(c))
      /\ f.pc <= Len(c.tree[n]) /\ 1 <= f.pc
  BY <1>1 DEF TreeOK
<1>3. e \in FrameSet(c) /\ e.k = f.k /\ e.n = f.n /\ e.pc = f.pc + 1 /\ e.mark = m
  <2> DEFINE p == f.pc + 1
  <2>1. p \in Nat
    BY <1>1
  <2> HIDE DEF p
  <2>2. \A h \in FrameSet(c) : /\ Stepped(h, p, m) \in FrameSet(c)
           /\ Stepped(h, p, m).k = h.k /\ Stepped(h, p, m).n = h.n
           /\ Stepped(h, p, m).pc = p /\ Stepped(h, p, m).mark = m
    BY <2>1 DEF Stepped, FrameSet
  <2>3. /\ Stepped(f, p, m) \in FrameSet(c)
        /\ Stepped(f, p, m).k = f.k /\ Stepped(f, p, m).n = f.n
        /\ Stepped(f, p, m).pc = p /\ Stepped(f, p, m).mark = m
    BY <2>2
  <2> QED BY <2>3 DEF p
<1> HIDE DEF e
<1>4. v \in Seq(FrameSet(c))
  BY <1>3
<1>5. Guided(c, u) /\ Guide(c, u, f)
  BY GuidedAppend
<1>6. Guide(c, u, e)
  BY <1>1, <1>2, <1>3, <1>5 DEF Guide
<1>7. Guided(c, v)
  BY <1>3, <1>5, <1>6, GuidedAppend
<1>8. LedBy(v, g.n)
  <2>1. Held(v, n)
    BY <1>3, LedSame
  <2>2. c.tree[n][f.pc] \in Keys(c)
    BY <1>2
  <2> HIDE DEF v
  <2>3. LedBy(v, Append(n, c.tree[n][f.pc]))
    BY <1>2, <2>1, <2>2, HeldLeads
  <2> QED BY <2>3 DEF Kid
<1>9. Guide(c, v, g)
  <2>1. Len(c.tree[g.n]) \in Nat
    BY <1>1 DEF TreeOK
  <2> HIDE DEF v
  <2> QED BY <1>8, <2>1 DEF Guide
<1>10. Guided(c, t)
  <2> HIDE DEF v
  <2> QED BY <1>4, <1>7, <1>9, GuidedAppend
<1>11. ASSUME NEW P PROVE Calm(P, t) <=> Calm(P, Append(u, f))
  <2>1. Calm(P, v) <=> Calm(P, u) /\ (e.k = "fn" => e.n \in P)
    BY <1>3, CalmAppend
  <2>2. Calm(P, Append(u, f)) <=> Calm(P, u) /\ (f.k = "fn" => f.n \in P)
    BY CalmAppend
  <2>3. Calm(P, t) <=> Calm(P, v) /\ (g.k = "fn" => g.n \in P)
    <3> HIDE DEF v
    <3> QED BY <1>4, CalmAppend
  <2> QED BY <1>3, <2>1, <2>2, <2>3
<1>12. ASSUME NEW x, Reached(c, Append(u, f), x) PROVE Reached(c, t, x)
  <2>1. Reached(c, v, x) <=> Reached(c, u, x) \/ Reaches(c, e, x)
    BY <1>3, ReachedAppend
  <2>2. Reached(c, u, x) \/ Reaches(c, f, x)
    BY <1>12, ReachedAppend
  <2>3. Reached(c, t, x) <=> Reached(c, v, x) \/ Reaches(c, g, x)
    <3> HIDE DEF v
    <3> QED BY <1>4, ReachedAppend
  <2>4. Reaches(c, f, x) => Reaches(c, e, x) \/ Reaches(c, g, x)
    <3> SUFFICES ASSUME Reaches(c, f, x) PROVE Reaches(c, e, x) \/ Reaches(c, g, x)
      OBVIOUS
    <3>1. f.k \in {"walk", "only", "mono"}
          /\ \E i \in f.pc..Len(c.tree[n]) : Prefix(Kid(c, n, i), x)
      BY <1>2 DEF Reaches
    <3>2. PICK i \in f.pc..Len(c.tree[n]) : Prefix(Kid(c, n, i), x)
      BY <3>1
    <3>3. CASE i = f.pc
      BY <3>2, <3>3 DEF Reaches
    <3>4. CASE i # f.pc
      <4>1. i \in (f.pc + 1)..Len(c.tree[n]) /\ f.pc + 1 > 0
        BY <1>2, <3>2, <3>4
      <4> QED BY <1>3, <3>1, <3>2, <4>1 DEF Reaches
    <3> QED BY <3>3, <3>4
  <2> QED BY <2>1, <2>2, <2>3, <2>4
<1> HIDE DEF v
<1> QED BY <1>10, <1>11, <1>12 DEF v, e

\* Below n the way to m goes through a child of n.
LEMMA WayDown ==
    ASSUME NEW c, TreeOK(c.tree, Keys(c)), NEW n \in DOMAIN c.tree, NEW m \in DOMAIN c.tree,
           Prefix(n, m), m # n
    PROVE  \E i \in 1..Len(c.tree[n]) : Prefix(Kid(c, n, i), m)
<1> DEFINE K == Keys(c)
           N == Len(n)
           q == SubSeq(m, 1, N + 1)
<1>1. n \in Seq(K) /\ m \in Seq(K) /\ N \in Nat /\ Len(m) \in Nat /\ N <= Len(m)
      /\ SubSeq(m, 1, N) = n
  BY DEF TreeOK, Prefix
<1>2. N # Len(m)
  <2>1. SubSeq(m, 1, Len(m)) = m
    BY <1>1, SubSeqFull
  <2> QED BY <1>1, <2>1
<1>3. N + 1 \in 0..Len(m) /\ N + 1 <= Len(m) /\ (N + 1) - 1 = N
  BY <1>1, <1>2
<1>4. q \in Seq(K) /\ Len(q) = N + 1
  BY <1>1, <1>3
<1>5. q \in DOMAIN c.tree
  BY <1>3 DEF TreeOK
<1>6. q # <<>>
  BY <1>1, <1>4
<1>7. SubSeq(q, 1, N) = n
  <2>1. \A j \in 1..N : q[j] = m[j]
    BY <1>1, <1>3
  <2>2. n \in Seq(K) /\ \A j \in 1..N : n[j] = m[j]
    <3>1. \A j \in 1..N : SubSeq(m, 1, N)[j] = m[j]
      BY <1>1
    <3> QED BY <1>1, <3>1
  <2> HIDE DEF q
  <2>3. SubSeq(q, 1, N) \in Seq(K) /\ Len(SubSeq(q, 1, N)) = N
        /\ \A j \in 1..N : SubSeq(q, 1, N)[j] = q[j]
    BY <1>1, <1>4
  <2> QED BY <1>1, <2>1, <2>2, <2>3, SeqEqual
<1> HIDE DEF q
<1>8. Front(q) = n
  BY <1>3, <1>4, <1>7 DEF Front
<1>9. Contains(c.tree[n], Last(q)) /\ Append(n, Last(q)) = q
  <2>1. Contains(c.tree[Front(q)], Last(q))
    BY <1>5, <1>6 DEF TreeOK
  <2>2. Append(Front(q), Last(q)) = q
    BY <1>4, <1>6, Split
  <2> QED BY <1>8, <2>1, <2>2
<1>10. PICK i \in 1..Len(c.tree[n]) : c.tree[n][i] = Last(q)
  BY <1>9 DEF Contains
<1>11. Prefix(q, m)
  BY <1>3, <1>4 DEF Prefix, q
<1> QED BY <1>9, <1>10, <1>11 DEF Kid

(* What nodegen has of its top frame.                                      *)
LEMMA GenTop ==
    ASSUME IInv, Generates, phase = "nodegen", NEW k, At(k)
    PROVE  /\ stack = Append(Under, Top) /\ Under \in Seq(FrameSet(Ctx)) /\ Top \in FrameSet(Ctx)
           /\ Top.k = k /\ Top.n \in Nodes /\ Top.pc \in Nat /\ Top.mark \in Nat
           /\ Len(child_list[Top.n]) \in Nat /\ stack \in Seq(FrameSet(Ctx))
           /\ TreeOK(Ctx.tree, Keys(Ctx)) /\ Ctx.tree = child_list /\ Ctx.phase = "nodegen"
           /\ Guided(Ctx, Append(Under, Top)) /\ Guided(Ctx, Under) /\ Guide(Ctx, Under, Top)
           /\ Chain(Ctx, Append(Under, Top)) /\ FrameOK(Ctx, Top) /\ Link(Ctx, BelowOf(Under), Top)
           /\ AllSettled(Ctx, pass) /\ Unmissed /\ Going /\ stack # <<>>
<1>1. /\ Going /\ stack # <<>> /\ Top \in FrameSet(Ctx) /\ Top.k = k /\ Top.n \in Nodes
      /\ Top.pc \in Nat /\ Top.mark \in Nat /\ TreeOK(child_list, Keys(Ctx))
      /\ Len(child_list[Top.n]) \in Nat /\ stack \in Seq(FrameSet(Ctx))
  BY TopWalk
<1>2. stack = Append(Under, Top) /\ Under \in Seq(FrameSet(Ctx))
  BY <1>1, Split DEF Under, Top
<1>3. Guided(Ctx, stack) /\ AllSettled(Ctx, pass) /\ Unmissed
  BY DEF Generates
<1>4. Guided(Ctx, Under) /\ Guide(Ctx, Under, Top)
  <2>1. Guided(Ctx, Append(Under, Top))
    BY <1>2, <1>3
  <2> QED BY <1>1, <1>2, <2>1, GuidedAppend
<1>5. Chain(Ctx, Append(Under, Top))
  BY <1>1, <1>2, KeptLogs, StackedChain
<1>6. FrameOK(Ctx, Top) /\ Link(Ctx, BelowOf(Under), Top)
  BY <1>1, Opened DEF On
<1> QED BY <1>1, <1>2, <1>3, <1>4, <1>5, <1>6, CtxParts

\* A step of nodegen that leaves the tree as it is.
LEMMA GenStays ==
    ASSUME Generates, phase = "nodegen", UNCHANGED <<shape, phase, child_list>>,
           Guided(Ctx, stack'), AllSettled(Ctx, pass'),
           found_count' = 0 /\ Calm(pass', stack') => found_count = 0 /\ Calm(pass, stack),
           pass \subseteq pass',
           \A m \in Nodes \ pass' : Reached(Ctx, stack, m) => Reached(Ctx, stack', m)
    PROVE  Generates'
<1>1. Ctx' = Ctx /\ Nodes' = Nodes
  BY DEF Ctx, Nodes
<1>2. Unmissed
  BY DEF Generates
<1>3. Unmissed'
  BY <1>1, <1>2 DEF Unmissed
<1> QED BY <1>1, <1>3 DEF Generates, Emitting

LEMMA GenSteps ==
    ASSUME Generates, phase = "nodegen", UNCHANGED <<shape, phase, child_list, pass, found_count>>,
           Guided(Ctx, stack'), Calm(pass, stack') => Calm(pass, stack),
           \A m : Reached(Ctx, stack, m) => Reached(Ctx, stack', m)
    PROVE  Generates'
BY GenStays DEF Generates

LEMMA GenOver ==
    ASSUME phase' \in Final
    PROVE  Generates'
BY DEF Generates, Final, Emitting

(* Nothing of an operation is left to do again, but of own and inject.     *)
LEMMA QuietStep ==
    ASSUME IInv, phase = "nodegen", NEW o, AtOp(o), o \notin {"own", "inject"},
           SettledTo(Ctx, Top.n, Top.pc)
    PROVE  SettledTo(Ctx, Top.n, Top.pc + 1)
<1> DEFINE H == HandlerOf(Ctx, Top.n)
<1>1. Top.n \in Nodes /\ Top.pc \in Nat /\ shape \in Shapes /\ TreeOK(child_list, Keys(Ctx))
  BY TopHandler DEF AtOp
<1>2. CASE TypeIn(shape, Top.n) \in Steered
  <2>1. Len(H) = 0
    BY <1>2, CtxParts DEF HandlerOf
  <2> HIDE DEF H
  <2> QED BY <2>1 DEF SettledTo, H
<1>3. CASE TypeIn(shape, Top.n) \notin Steered
  <2>1. Block(Top.n).type = TypeIn(shape, Top.n)
    BY <1>1, BlockOfNode
  <2>2. Program(Top.n) = H
    BY <1>3, <2>1, CtxParts DEF Program, HandlerOf, Steered, Block, KeyOf
  <2>3. H[Top.pc].op = o
    BY <2>2 DEF AtOp
  <2> HIDE DEF H
  <2>4. Settled(Ctx, Top.n, H[Top.pc])
    BY <2>3 DEF Settled
  <2>5. ASSUME NEW i \in 1..Len(H), i < Top.pc + 1 PROVE i < Top.pc \/ i = Top.pc
    BY <1>1, <2>5
  <2> QED BY <2>4, <2>5 DEF SettledTo, H
<1> QED BY <1>2, <1>3

\* A handler of nodegen that is left at its end has nothing to do again.
LEMMA QuietEnd ==
    ASSUME IInv, phase = "nodegen", At("fn"), Top.pc > Len(Program(Top.n)),
           SettledTo(Ctx, Top.n, Top.pc)
    PROVE  SettledTo(Ctx, Top.n, Len(HandlerOf(Ctx, Top.n)) + 1)
<1> DEFINE H == HandlerOf(Ctx, Top.n)
<1>1. Top.n \in Nodes /\ Top.pc \in Nat /\ shape \in Shapes /\ TreeOK(child_list, Keys(Ctx))
  BY TopHandler
<1>2. CASE TypeIn(shape, Top.n) \in Steered
  <2>1. Len(H) = 0
    BY <1>2, CtxParts DEF HandlerOf
  <2> HIDE DEF H
  <2> QED BY <2>1 DEF SettledTo, H
<1>3. CASE TypeIn(shape, Top.n) \notin Steered
  <2>1. Block(Top.n).type = TypeIn(shape, Top.n) /\ BlockOK(Block(Top.n), Keys(Ctx))
    BY <1>1, BlockOfNode
  <2>2. Program(Top.n) = H /\ H = Block(Top.n).nodegen
    BY <1>3, <2>1, CtxParts DEF Program, HandlerOf, Steered, Block, KeyOf
  <2>3. Len(H) \in Nat
    BY <2>1, <2>2 DEF BlockOK
  <2>4. \A i \in 1..Len(H) : i < Top.pc
    <3> HIDE DEF H
    <3> QED BY <1>1, <2>2, <2>3
  <2> HIDE DEF H
  <2> QED BY <2>4 DEF SettledTo, H
<1> QED BY <1>2, <1>3

\* A frame more forgets no node.
LEMMA FramePushed ==
    ASSUME NEW c, NEW S, NEW u \in Seq(S), NEW f \in S, Guided(c, u), Guide(c, u, f)
    PROVE  /\ Guided(c, Append(u, f))
           /\ \A P : Calm(P, Append(u, f)) => Calm(P, u)
           /\ \A m : Reached(c, u, m) => Reached(c, Append(u, f), m)
BY GuidedAppend, CalmAppend, ReachedAppend

\* Nor does a frame less, when it had none left to get to.
LEMMA FramePopped ==
    ASSUME NEW c, NEW S, NEW u \in Seq(S), NEW f \in S, Guided(c, Append(u, f)), f.k # "fn",
           \A m : ~Reaches(c, f, m)
    PROVE  /\ Guided(c, u)
           /\ \A P : Calm(P, u) => Calm(P, Append(u, f))
           /\ \A m : Reached(c, Append(u, f), m) => Reached(c, u, m)
BY GuidedAppend, CalmAppend, ReachedAppend

LEMMA StartsGen ==
    ASSUME IInv, Generates, phase = "nodegen", WalkStart \/ MonoStart
    PROVE  Generates'
<1> DEFINE F == Frame("fn", Top.n, 0)
<1>1. /\ At("walk") \/ At("mono")
      /\ stack' = Append(stack, F)
      /\ UNCHANGED <<shape, phase, child_list, pass, found_count>>
  BY DEF WalkStart, MonoStart, tree
<1>2. /\ stack = Append(Under, Top) /\ Under \in Seq(FrameSet(Ctx)) /\ Top \in FrameSet(Ctx)
      /\ Top.k = "walk" \/ Top.k = "mono"
      /\ Top.n \in Nodes /\ Len(child_list[Top.n]) \in Nat
      /\ stack \in Seq(FrameSet(Ctx)) /\ Guided(Ctx, stack) /\ Guide(Ctx, Under, Top) /\ stack # <<>>
      /\ Ctx.tree = child_list
  BY <1>1, GenTop
<1>3. F \in FrameSet(Ctx) /\ F.k = "fn" /\ F.n = Top.n /\ F.pc = 0 /\ F.mark = 0
  BY <1>2 DEF Frame, FrameSet, Kinds, Ctx, Nodes
<1> HIDE DEF F
<1>4. Guide(Ctx, stack, F)
  <2>1. LedBy(stack, Top.n)
    <3>1. LedBy(Under, Top.n)
      BY <1>2 DEF Guide
    <3>2. LedBy(Append(Under, Top), Top.n)
      BY <1>2, <3>1, LedAppend
    <3> QED BY <1>2, <3>2
  <2>2. BelowOf(stack) = Top
    BY <1>2 DEF BelowOf, Top
  <2>3. SettledTo(Ctx, Top.n, 0)
    BY DEF SettledTo
  <2> QED BY <1>2, <1>3, <2>1, <2>2, <2>3 DEF Guide
<1>5. /\ Guided(Ctx, stack') /\ (Calm(pass, stack') => Calm(pass, stack))
      /\ \A m : Reached(Ctx, stack, m) => Reached(Ctx, stack', m)
  BY <1>1, <1>2, <1>3, <1>4, FramePushed
<1> QED BY <1>1, <1>5, GenSteps

\* A handler goes on.
LEMMA GenMoved ==
    ASSUME IInv, Generates, phase = "nodegen", At("fn"), SettledTo(Ctx, Top.n, Top.pc + 1)
    PROVE  /\ Moved \in Seq(FrameSet(Ctx)) /\ Guided(Ctx, Moved) /\ LedBy(Moved, Top.n)
           /\ BelowOf(Moved).k = "fn" /\ \A n : LedBy(stack, n) => LedBy(Moved, n)
           /\ Calm(pass, Moved) <=> Calm(pass, stack)
           /\ \A m : Reached(Ctx, Moved, m) <=> Reached(Ctx, stack, m)
<1> DEFINE e == Stepped(Top, Top.pc + 1, Top.mark)
<1>1. /\ stack = Append(Under, Top) /\ Under \in Seq(FrameSet(Ctx)) /\ Top \in FrameSet(Ctx)
      /\ Top.k = "fn" /\ Top.n \in Nodes /\ Top.pc \in Nat /\ Top.mark \in Nat
      /\ Guided(Ctx, Append(Under, Top)) /\ Guide(Ctx, Under, Top)
      /\ Ctx.tree = child_list
  BY GenTop
<1>2. /\ Moved = Append(Under, e) /\ BelowOf(Moved) = e
      /\ e \in FrameSet(Ctx) /\ e.k = "fn" /\ e.n = Top.n
  BY HandlerMoved
<1>3. Top.mark <= Len(Ctx.tree[Top.n]) /\ LedBy(Under, Top.n)
  BY <1>1 DEF Guide
<1>4. /\ Guided(Ctx, Append(Under, e))
      /\ \A P : Calm(P, Append(Under, e)) <=> Calm(P, Append(Under, Top))
      /\ \A x : Reached(Ctx, Append(Under, e), x) <=> Reached(Ctx, Append(Under, Top), x)
  <2> DEFINE p == Top.pc + 1
             m == Top.mark
             c == Ctx
             f == Top
             u == Under
  <2>1. /\ u \in Seq(FrameSet(c)) /\ f \in FrameSet(c) /\ f.k = "fn" /\ Guided(c, Append(u, f))
        /\ p \in Nat /\ m \in Nat /\ m <= Len(c.tree[f.n]) /\ SettledTo(c, f.n, p)
    BY <1>1, <1>3
  <2> HIDE DEF p, m, c, f, u
  <2>2. /\ Guided(c, Append(u, Stepped(f, p, m)))
        /\ \A P : Calm(P, Append(u, Stepped(f, p, m))) <=> Calm(P, Append(u, f))
        /\ \A x : Reached(c, Append(u, Stepped(f, p, m)), x) <=> Reached(c, Append(u, f), x)
    BY <2>1, HandlerGoesOn
  <2> QED BY <2>2 DEF p, m, c, f, u
<1> HIDE DEF e
<1>5. LedBy(Moved, Top.n)
  BY <1>1, <1>2, <1>3, LedAppend
<1>6. ASSUME NEW n, LedBy(stack, n) PROVE LedBy(Moved, n)
  BY <1>1, <1>2, <1>6, LedSame
<1> QED BY <1>1, <1>2, <1>4, <1>5, <1>6

LEMMA FnCallGen ==
    ASSUME IInv, Generates, phase = "nodegen", FnCall
    PROVE  Generates'
<1>1. CASE phase' \in Final
  BY <1>1, GenOver
<1>2. CASE phase' \notin Final
  <2>1. /\ At("fn") /\ Top.pc = 0 /\ stack' = Moved
        /\ UNCHANGED <<shape, phase, child_list, pass, found_count>>
    BY <1>2 DEF FnCall, Throw, Answer, Final
  <2>2. SettledTo(Ctx, Top.n, Top.pc + 1)
    BY <2>1 DEF SettledTo
  <2>3. /\ Guided(Ctx, stack') /\ (Calm(pass, stack') => Calm(pass, stack))
        /\ \A m : Reached(Ctx, stack, m) => Reached(Ctx, stack', m)
    BY <2>1, <2>2, GenMoved
  <2> QED BY <2>1, <2>3, GenSteps
<1> QED BY <1>1, <1>2

\* Operations that neither add a node nor start a loop.
LEMMA FoldersGen ==
    ASSUME IInv, Generates, phase = "nodegen", EnterFolder \/ LeaveFolder
    PROVE  Generates'
<1>1. PICK o \in {"enter", "leave"} : AtOp(o)
  BY DEF EnterFolder, LeaveFolder
<1>2. At("fn") /\ stack' = Moved /\ UNCHANGED <<shape, phase, child_list, pass, found_count>>
  BY DEF EnterFolder, LeaveFolder, AtOp, tree
<1>3. SettledTo(Ctx, Top.n, Top.pc + 1)
  <2>1. SettledTo(Ctx, Top.n, Top.pc) /\ o # "own" /\ o # "inject"
    BY <1>1, <1>2, GenTop DEF Guide
  <2> QED BY <1>1, <2>1, QuietStep
<1>4. /\ Guided(Ctx, stack') /\ (Calm(pass, stack') => Calm(pass, stack))
      /\ \A m : Reached(Ctx, stack, m) => Reached(Ctx, stack', m)
  BY <1>2, <1>3, GenMoved
<1> QED BY <1>2, <1>4, GenSteps

LEMMA MarkGen ==
    ASSUME IInv, Generates, phase = "nodegen", Mark
    PROVE  Generates'
<1> DEFINE p == Top.pc + 1
           m == Len(child_list[Top.n])
<1>1. AtOp("mark") /\ At("fn") /\ UNCHANGED <<shape, phase, child_list, pass, found_count>>
  BY DEF Mark, AtOp, tree
<1>2. /\ stack = Append(Under, Top) /\ Under \in Seq(FrameSet(Ctx)) /\ Top \in FrameSet(Ctx)
      /\ Top.k = "fn" /\ p \in Nat /\ m \in Nat /\ m <= Len(Ctx.tree[Top.n])
      /\ Guided(Ctx, Append(Under, Top)) /\ SettledTo(Ctx, Top.n, Top.pc)
  BY <1>1, GenTop DEF Guide
<1>3. SettledTo(Ctx, Top.n, p)
  BY <1>1, <1>2, QuietStep
<1>4. stack' = Append(Under, Stepped(Top, p, m))
  BY <1>2 DEF Mark, Stepped, FrameSet
<1> HIDE DEF p, m
<1>5. /\ Guided(Ctx, Append(Under, Stepped(Top, p, m)))
      /\ \A P : Calm(P, Append(Under, Stepped(Top, p, m))) <=> Calm(P, Append(Under, Top))
      /\ \A x : Reached(Ctx, Append(Under, Stepped(Top, p, m)), x) <=> Reached(Ctx, Append(Under, Top), x)
  BY <1>2, <1>3, HandlerGoesOn
<1> QED BY <1>1, <1>2, <1>4, <1>5, GenSteps

\* A handler starts a loop over its children.
LEMMA LoopGen ==
    ASSUME IInv, Generates, phase = "nodegen", NEW o \in {"only", "rest", "each"}, AtOp(o),
           UNCHANGED <<shape, phase, child_list, pass, found_count>>,
           NEW F \in FrameSet(Ctx), F.k = "only" \/ F.k = "each", F.n = Top.n,
           F.k = "only" => F.pc <= Len(child_list[Top.n]) + 1,
           stack' = Append(Moved, F)
    PROVE  Generates'
<1>1. At("fn")
  BY DEF AtOp
<1>2. SettledTo(Ctx, Top.n, Top.pc) /\ Ctx.tree = child_list
  BY <1>1, GenTop DEF Guide
<1>3. SettledTo(Ctx, Top.n, Top.pc + 1)
  BY <1>2, QuietStep
<1>4. /\ Moved \in Seq(FrameSet(Ctx)) /\ Guided(Ctx, Moved) /\ LedBy(Moved, Top.n)
      /\ Calm(pass, Moved) <=> Calm(pass, stack)
      /\ \A m : Reached(Ctx, Moved, m) <=> Reached(Ctx, stack, m)
  BY <1>1, <1>3, GenMoved
<1>5. Guide(Ctx, Moved, F)
  BY <1>2, <1>4 DEF Guide
<1>6. /\ Guided(Ctx, stack') /\ (Calm(pass, stack') => Calm(pass, Moved))
      /\ \A m : Reached(Ctx, Moved, m) => Reached(Ctx, stack', m)
  BY <1>4, <1>5, FramePushed
<1> QED BY <1>4, <1>6, GenSteps

LEMMA LoopsGen ==
    ASSUME IInv, Generates, phase = "nodegen", WalkOnly \/ WalkRest \/ EachProject
    PROVE  Generates'
<1>1. At("fn")
  BY DEF WalkOnly, WalkRest, EachProject, AtOp
<1>2. /\ Top.n \in Nodes /\ Top.mark \in Nat /\ Len(child_list[Top.n]) \in Nat
      /\ Top.mark <= Len(child_list[Top.n])
  BY <1>1, GenTop DEF Guide
<1>3. CASE WalkOnly \/ WalkRest
  <2>1. PICK o \in {"only", "rest"}, p \in {1, Top.mark + 1} :
          /\ AtOp(o) /\ stack' = Append(Moved, Frame("only", Top.n, p))
          /\ UNCHANGED <<shape, phase, child_list, pass, found_count>>
    BY <1>3 DEF WalkOnly, WalkRest, Call, tree
  <2> DEFINE F == Frame("only", Top.n, p)
  <2>2. F \in FrameSet(Ctx) /\ F.k = "only" /\ F.n = Top.n /\ F.pc = p
    BY <1>2 DEF Frame, FrameSet, Kinds, Ctx, Nodes
  <2>3. p <= Len(child_list[Top.n]) + 1
    BY <1>2
  <2> HIDE DEF F
  <2>4. stack' = Append(Moved, F)
    BY <2>1 DEF F
  <2> QED BY <2>1, <2>2, <2>3, <2>4, LoopGen
<1>4. CASE EachProject
  <2> DEFINE F == [Frame("each", Top.n, 1) EXCEPT !.mark = Len(child_list[Top.n])]
  <2>1. /\ AtOp("each") /\ stack' = Append(Moved, F)
        /\ UNCHANGED <<shape, phase, child_list, pass, found_count>>
    BY <1>4 DEF EachProject, Call, tree
  <2>2. F \in FrameSet(Ctx) /\ F.k = "each" /\ F.n = Top.n
    BY <1>2 DEF Frame, FrameSet, Kinds, Ctx, Nodes
  <2> HIDE DEF F
  <2> QED BY <2>1, <2>2, LoopGen
<1> QED BY <1>3, <1>4

(* Loops.                                                                  *)

\* A project or a monorepo is walked where its handler is at work.
LEMMA LoopingWalked ==
    ASSUME NEW c, NEW s, Chain(c, s), Guided(c, s), NEW d \in 1..Len(s), s[d].k = "fn",
           TypeIn(c.shape, s[d].n) \in Looping
    PROVE  d - 1 \in 1..Len(s) /\ Attends(s[d - 1], s[d].n)
<1>1. s \in Seq(FrameSet(c)) /\ Link(c, IF d = 1 THEN Bottom ELSE s[d - 1], s[d])
  BY DEF Chain
<1>2. d # 1
  BY <1>1 DEF Link, Bottom, Frame
<1>3. d - 1 \in 1..Len(s) /\ Link(c, s[d - 1], s[d])
  BY <1>1, <1>2
<1>4. s[d - 1].k # "fn"
  BY <1>1, <1>2, GuidedAt
<1>5. s[d - 1].k \in {"walk", "mono"} /\ s[d - 1].n = s[d].n
  BY <1>3, <1>4 DEF Link, Bottom, Frame
<1> QED BY <1>3, <1>5 DEF Attends

\* A node whose children are walked is walked with all its ancestors.
LEMMA LoopHeld ==
    ASSUME IInv, Generates, phase = "nodegen", NEW k \in {"walk", "only", "mono", "each"}, At(k)
    PROVE  Held(stack, Top.n)
<1>1. /\ stack = Append(Under, Top) /\ Under \in Seq(FrameSet(Ctx)) /\ Top \in FrameSet(Ctx)
      /\ Top.k = k /\ Top.n \in Nodes /\ stack \in Seq(FrameSet(Ctx)) /\ TreeOK(child_list, Keys(Ctx))
      /\ Guided(Ctx, stack) /\ LedBy(Under, Top.n) /\ Chain(Ctx, stack) /\ FrameOK(Ctx, Top)
      /\ Link(Ctx, BelowOf(Under), Top) /\ shape \in Shapes /\ stack # <<>>
  BY GenTop DEF Guide, IInv
<1>2. LedBy(stack, Top.n)
  <2>1. LedBy(Append(Under, Top), Top.n)
    BY <1>1, LedAppend
  <2> QED BY <1>1, <2>1
<1>3. Len(stack) \in 1..Len(stack) /\ stack[Len(stack)] = Top /\ Len(stack) = Len(Under) + 1
  BY <1>1, FramesAppended DEF Top, Last
<1>4. \E e \in 1..Len(stack) : Attends(stack[e], Top.n)
  <2>1. CASE k # "each"
    BY <1>1, <1>3, <2>1 DEF Attends
  <2>2. CASE k = "each"
    <3> DEFINE d == Len(Under)
    <3>1. /\ BelowOf(Under).k = "fn" /\ BelowOf(Under).n = Top.n
          /\ TypeIn(shape, Top.n) \in Looping
      BY <1>1, <2>2, CtxParts DEF Link, Bottom, Frame, FrameOK, Looping
    <3>2. Under # <<>>
      BY <3>1 DEF BelowOf, Bottom, Frame
    <3>3. d \in 1..Len(stack) /\ stack[d] = Last(Under)
      <4>1. Len(Under) \in 1..Len(Under)
        BY <1>1, <3>2
      <4>2. Append(Under, Top)[Len(Under)] = Under[Len(Under)]
        BY <1>1, <4>1, FramesAppended
      <4> QED BY <1>1, <1>3, <4>1, <4>2 DEF Last
    <3>4. BelowOf(Under) = Last(Under)
      BY <3>2 DEF BelowOf
    <3> HIDE DEF d
    <3>5. d - 1 \in 1..Len(stack) /\ Attends(stack[d - 1], stack[d].n)
      BY <1>1, <3>1, <3>3, <3>4, LoopingWalked, CtxParts
    <3> QED BY <3>1, <3>3, <3>4, <3>5
  <2> QED BY <2>1, <2>2
<1>5. PICK x \in Keys(Ctx) : TRUE
  BY <1>1, BlockOfNode
<1>6. Top.n \in Seq(Keys(Ctx))
  BY <1>1, BlockOfNode
<1> QED BY <1>2, <1>4, <1>6, HeldLeads

LEMMA KidsGen ==
    ASSUME IInv, Generates, phase = "nodegen", KidOfWalk \/ KidOfMono \/ KidOfEach
    PROVE  Generates'
<1>1. CASE phase' \in Final
  BY <1>1, GenOver
<1>2. CASE phase' \notin Final
  <2>1. PICK k \in {"walk", "only", "mono", "each"} : At(k)
    BY DEF KidOfWalk, KidOfMono, KidOfEach
  <2>2. /\ stack = Append(Under, Top) /\ Under \in Seq(FrameSet(Ctx)) /\ Top \in FrameSet(Ctx)
        /\ Top.k = k /\ Top.n \in Nodes /\ Top.pc \in Nat /\ Top.mark \in Nat
        /\ Len(child_list[Top.n]) \in Nat /\ TreeOK(Ctx.tree, Keys(Ctx)) /\ Ctx.tree = child_list
        /\ Guided(Ctx, Append(Under, Top)) /\ FrameOK(Ctx, Top)
    BY <2>1, GenTop
  <2>3. Held(Append(Under, Top), Top.n)
    BY <2>1, <2>2, LoopHeld
  <2>4. MoreKids /\ Top.pc \in 1..Len(Ctx.tree[Top.n])
    <3>1. KidOfWalk \/ KidOfMono => MoreKids
      BY DEF KidOfWalk, KidOfMono
    <3>2. KidOfEach => MoreKids
      BY <2>2 DEF KidOfEach, At, FrameOK, MoreKids
    <3> QED BY <2>2, <3>1, <3>2 DEF MoreKids
  <2>5. NextKid \in Nodes /\ NextKid = Kid(Ctx, Top.n, Top.pc)
    BY <2>1, <2>2, <2>4, NextKidIsNode DEF NextKid, Kid
  <2>6. PICK m \in {Top.mark, 1}, g \in {"walk", "mono"} :
           /\ stack' = Append(Append(Under, Stepped(Top, Top.pc + 1, m)), Frame(g, NextKid, 0))
           /\ UNCHANGED <<shape, phase, child_list, pass, found_count>>
    <3>1. Moved = Append(Under, Stepped(Top, Top.pc + 1, Top.mark))
      BY <2>2, SteppedTop
    <3>2. KidOfWalk => /\ stack' = Append(Moved, Frame("walk", NextKid, 0))
                       /\ UNCHANGED <<shape, phase, child_list, pass, found_count>>
      BY DEF KidOfWalk, Call, tree
    <3>3. KidOfEach => /\ stack' = Append(Moved, Frame("mono", NextKid, 0))
                       /\ UNCHANGED <<shape, phase, child_list, pass, found_count>>
      BY <1>2 DEF KidOfEach, Call, tree, Throw, Answer, Final
    <3>4. KidOfMono => /\ stack' = Append(Append(Under, [Top EXCEPT !.pc = @ + 1, !.mark = 1]),
                                          Frame("mono", NextKid, 0))
                       /\ UNCHANGED <<shape, phase, child_list, pass, found_count>>
      BY DEF KidOfMono, tree
    <3>5. [Top EXCEPT !.pc = @ + 1, !.mark = 1] = Stepped(Top, Top.pc + 1, 1)
      BY <2>2 DEF Stepped, FrameSet
    <3> QED BY <3>1, <3>2, <3>3, <3>4, <3>5
  <2> DEFINE G == Frame(g, NextKid, 0)
  <2>7. /\ G \in FrameSet(Ctx) /\ (G.k = "walk" \/ G.k = "mono")
        /\ G.pc = 0 /\ G.n = Kid(Ctx, Top.n, Top.pc)
    BY <2>5 DEF Frame, FrameSet, Kinds, Ctx, Nodes
  <2> HIDE DEF G
  <2> DEFINE t == Append(Append(Under, Stepped(Top, Top.pc + 1, m)), G)
  <2>8. m \in Nat /\ Top.k # "fn" /\ stack' = t
    BY <2>2, <2>6 DEF G
  <2>9. /\ Guided(Ctx, t)
        /\ \A P : Calm(P, t) <=> Calm(P, Append(Under, Top))
        /\ \A x : Reached(Ctx, Append(Under, Top), x) => Reached(Ctx, t, x)
    <3> DEFINE c == Ctx
               u == Under
               f == Top
    <3>1. /\ TreeOK(c.tree, Keys(c)) /\ u \in Seq(FrameSet(c)) /\ f \in FrameSet(c)
          /\ f.k # "fn" /\ f.pc \in 1..Len(c.tree[f.n]) /\ m \in Nat
          /\ Guided(c, Append(u, f)) /\ Held(Append(u, f), f.n)
          /\ G \in FrameSet(c) /\ (G.k = "walk" \/ G.k = "mono") /\ G.pc = 0
          /\ G.n = Kid(c, f.n, f.pc)
      <4>1. /\ TreeOK(c.tree, Keys(c)) /\ u \in Seq(FrameSet(c)) /\ f \in FrameSet(c)
            /\ Guided(c, Append(u, f)) /\ Held(Append(u, f), f.n)
        BY <2>2, <2>3
      <4>2. f.k # "fn" /\ f.pc \in 1..Len(c.tree[f.n]) /\ m \in Nat
        BY <2>4, <2>8
      <4>3. /\ G \in FrameSet(c) /\ (G.k = "walk" \/ G.k = "mono") /\ G.pc = 0
            /\ G.n = Kid(c, f.n, f.pc)
        BY <2>7
      <4> QED BY <4>1, <4>2, <4>3
    <3> HIDE DEF c, u, f
    <3>2. LET w == Append(Append(u, Stepped(f, f.pc + 1, m)), G)
          IN  /\ Guided(c, w)
              /\ \A P : Calm(P, w) <=> Calm(P, Append(u, f))
              /\ \A x : Reached(c, Append(u, f), x) => Reached(c, w, x)
      BY <3>1, LoopGoesOn
    <3> QED BY <3>2 DEF c, u, f
  <2> QED BY <2>2, <2>6, <2>8, <2>9, GenSteps
<1> QED BY <1>1, <1>2

LEMMA EndsGen ==
    ASSUME IInv, Generates, phase = "nodegen", WalkEnd \/ MonoEnd \/ EachEnd
    PROVE  Generates'
<1>1. PICK k \in {"walk", "only", "mono", "each"} : At(k) /\ (k # "each" => NoMoreKids)
  BY DEF WalkEnd, MonoEnd, EachEnd
<1>2. stack' = Under /\ UNCHANGED <<shape, phase, child_list, pass, found_count>>
  BY DEF WalkEnd, MonoEnd, EachEnd, Return, tree
<1>3. /\ stack = Append(Under, Top) /\ Under \in Seq(FrameSet(Ctx)) /\ Top \in FrameSet(Ctx)
      /\ Top.k = k /\ Top.n \in Nodes /\ Top.pc \in Nat /\ Len(child_list[Top.n]) \in Nat
      /\ Guided(Ctx, Append(Under, Top)) /\ Ctx.tree = child_list
  BY <1>1, GenTop
<1>4. \A m : ~Reaches(Ctx, Top, m)
  <2>1. k # "each" => Top.pc > Len(child_list[Top.n])
    BY <1>1 DEF NoMoreKids
  <2>2. k # "each" => Top.pc # 0 /\ \A i \in Top.pc..Len(child_list[Top.n]) : FALSE
    BY <1>3, <2>1
  <2> QED BY <1>3, <2>2 DEF Reaches
<1>5. /\ Guided(Ctx, stack') /\ (Calm(pass, stack') => Calm(pass, stack))
      /\ \A m : Reached(Ctx, stack, m) => Reached(Ctx, stack', m)
  <2>1. Top.k # "fn"
    BY <1>3
  <2> QED BY <1>2, <1>3, <1>4, <2>1, FramePopped
<1> QED BY <1>2, <1>5, GenSteps

\* The handler returned: its node is marked, and a walk goes on to the children.
LEMMA FnReturnGen ==
    ASSUME IInv, Generates, phase = "nodegen", FnReturn
    PROVE  Generates'
<1> DEFINE n == Top.n
           b == Last(Under)
           U == Front(Under)
<1>1. /\ At("fn") /\ Top.pc > Len(Program(n)) /\ stack' = Below(n)
      /\ UNCHANGED <<shape, phase, child_list>>
      /\ IF n \notin pass THEN pass' = pass \cup {n} /\ found_count' = found_count + 1
         ELSE UNCHANGED <<pass, found_count>>
  BY DEF FnReturn
<1>2. /\ stack = Append(Under, Top) /\ Under \in Seq(FrameSet(Ctx)) /\ Top \in FrameSet(Ctx)
      /\ Top.k = "fn" /\ n \in Nodes /\ TreeOK(Ctx.tree, Keys(Ctx)) /\ Ctx.tree = child_list
      /\ Guided(Ctx, Under) /\ SettledTo(Ctx, n, Top.pc) /\ AllSettled(Ctx, pass)
      /\ Len(child_list[n]) \in Nat /\ found_count \in Nat
  BY <1>1, GenTop DEF Guide, IInv
<1>3. /\ Under # <<>> /\ b \in FrameSet(Ctx)
      /\ \/ b.k \in {"walk", "mono"} /\ b.pc = 0 /\ b.n = n
         \/ b.k = "fn"
  BY <1>1, Caller
<1>4. U \in Seq(FrameSet(Ctx)) /\ Under = Append(U, b)
  BY <1>2, <1>3, Split
<1>5. AllSettled(Ctx, pass') /\ pass \subseteq pass'
  <2>1. SettledTo(Ctx, n, Len(HandlerOf(Ctx, n)) + 1)
    BY <1>1, <1>2, QuietEnd
  <2> QED BY <1>1, <1>2, <2>1 DEF AllSettled
<1>6. found_count' = 0 => found_count = 0 /\ pass' = pass /\ n \in pass
  BY <1>1, <1>2
<1>7. n \in pass'
  BY <1>1
<1>8. /\ \A P : Calm(P, stack) <=> Calm(P, Under) /\ n \in P
      /\ \A m : Reached(Ctx, stack, m) => Reached(Ctx, Under, m)
  <2>1. \A m : ~Reaches(Ctx, Top, m)
    BY <1>2 DEF Reaches
  <2> QED BY <1>2, <2>1, CalmAppend, ReachedAppend
<1>9. /\ Guided(Ctx, stack') /\ \A P : Calm(P, stack') => Calm(P, Under)
      /\ \A m \in Nodes \ pass' : Reached(Ctx, Under, m) => Reached(Ctx, stack', m)
  <2>1. CASE b.k = "fn"
    <3>1. stack' = Under
      BY <1>1, <2>1 DEF Below
    <3> QED BY <1>2, <3>1
  <2>2. CASE b.k = "walk" \/ b.k = "mono"
    <3> DEFINE e == Stepped(b, 1, b.mark)
    <3>1. b.pc = 0 /\ b.n = n /\ b.mark \in Nat
      BY <1>3, <2>2 DEF FrameSet
    <3>2. stack' = Append(U, [b EXCEPT !.pc = 1])
      BY <1>1, <1>3, <2>2 DEF Below, Processed
    <3>3. e \in FrameSet(Ctx) /\ e.k = b.k /\ e.n = n /\ e.pc = 1 /\ [b EXCEPT !.pc = 1] = e
      <4> HIDE DEF b
      <4>1. 1 \in Nat
        OBVIOUS
      <4>2. [b EXCEPT !.pc = 1] = Stepped(b, 1, b.mark)
        BY <1>3, <4>1, SteppedOnce
      <4>3. /\ Stepped(b, 1, b.mark) \in FrameSet(Ctx) /\ Stepped(b, 1, b.mark).k = b.k
            /\ Stepped(b, 1, b.mark).n = b.n /\ Stepped(b, 1, b.mark).pc = 1
        BY <1>3, <3>1 DEF Stepped, FrameSet
      <4> QED BY <3>1, <4>2, <4>3
    <3> HIDE DEF e, b, U
    <3>4. stack' = Append(U, e)
      BY <3>2, <3>3
    <3>5. Guided(Ctx, U) /\ Guide(Ctx, U, b)
      BY <1>2, <1>3, <1>4, GuidedAppend
    <3>6. Guide(Ctx, U, e)
      BY <1>2, <2>2, <3>1, <3>3, <3>5 DEF Guide
    <3>7. Guided(Ctx, stack')
      BY <1>4, <3>3, <3>4, <3>5, <3>6, GuidedAppend
    <3>8. ASSUME NEW P, Calm(P, stack') PROVE Calm(P, Under)
      <4>1. Calm(P, Append(U, e)) <=> Calm(P, U) /\ (e.k = "fn" => e.n \in P)
        BY <1>4, <3>3, CalmAppend
      <4>2. Calm(P, Append(U, b)) <=> Calm(P, U) /\ (b.k = "fn" => b.n \in P)
        BY <1>3, <1>4, CalmAppend
      <4> QED BY <1>4, <2>2, <3>4, <3>8, <4>1, <4>2
    <3>9. ASSUME NEW m \in Nodes \ pass', Reached(Ctx, Under, m) PROVE Reached(Ctx, stack', m)
      <4>1. Reached(Ctx, U, m) \/ Reaches(Ctx, b, m)
        BY <1>3, <1>4, <3>9, ReachedAppend
      <4>2. Reached(Ctx, stack', m) <=> Reached(Ctx, U, m) \/ Reaches(Ctx, e, m)
        BY <1>4, <3>3, <3>4, ReachedAppend
      <4>3. ASSUME Reaches(Ctx, b, m) PROVE Reaches(Ctx, e, m)
        <5>1. Prefix(n, m) /\ m # n /\ m \in DOMAIN Ctx.tree /\ n \in DOMAIN Ctx.tree
          BY <1>2, <1>7, <3>1, <4>3 DEF Reaches, Nodes
        <5>2. PICK i \in 1..Len(Ctx.tree[n]) : Prefix(Kid(Ctx, n, i), m)
          BY <1>2, <5>1, WayDown
        <5> QED BY <2>2, <3>3, <5>2 DEF Reaches
      <4> QED BY <4>1, <4>2, <4>3
    <3> QED BY <3>7, <3>8, <3>9
  <2> QED BY <1>3, <2>1, <2>2
<1>10. ASSUME found_count' = 0, Calm(pass', stack') PROVE found_count = 0 /\ Calm(pass, stack)
  BY <1>6, <1>8, <1>9, <1>10
<1>11. \A m \in Nodes \ pass' : Reached(Ctx, stack, m) => Reached(Ctx, stack', m)
  BY <1>8, <1>9
<1> QED BY <1>1, <1>5, <1>9, <1>10, <1>11, GenStays

-----------------------------------------------------------------------------
(* Passes.                                                                 *)

\* The walk of the root gets to every node.
LEMMA RootWalk ==
    ASSUME NEW c, TreeOK(c.tree, Keys(c))
    PROVE  Guided(c, WalkRoot) /\ \A m \in DOMAIN c.tree : Reached(c, WalkRoot, m)
<1> DEFINE F == Frame("walk", DocRoot, 0)
<1>1. F.k = "walk" /\ F.n = <<>> /\ F.pc = 0 /\ WalkRoot = Append(<<>>, F) /\ <<>> \in Seq({F})
  BY DEF Frame, DocRoot, WalkRoot
<1> HIDE DEF F
<1>2. Guided(c, <<>>)
  BY DEF Guided
<1>3. Guide(c, <<>>, F)
  <2>1. <<>> \in DOMAIN c.tree /\ Len(c.tree[<<>>]) \in Nat
    BY DEF TreeOK
  <2> QED BY <1>1, <2>1 DEF Guide, LedBy
<1>4. Guided(c, WalkRoot)
  BY <1>1, <1>2, <1>3, GuidedAppend
<1>5. ASSUME NEW m \in DOMAIN c.tree PROVE Reached(c, WalkRoot, m)
  <2>1. m \in Seq(Keys(c))
    BY DEF TreeOK
  <2>2. Prefix(<<>>, m)
    BY <2>1 DEF Prefix
  <2>3. Reaches(c, F, m)
    BY <1>1, <2>2 DEF Reaches
  <2> QED BY <1>1, <2>3, ReachedAppend
<1> QED BY <1>4, <1>5

LEMMA LoadGen ==
    ASSUME IInv, Generates, Load
    PROVE  Generates'
<1>1. phase = "load" /\ TreeOK(child_list, Keys(Ctx)) /\ pass = {} /\ pass' = pass
      /\ child_list' = child_list /\ shape' = shape
  BY DEF IInv, Going, Load, PhaseDone, Final, Generates, tree
<1>2. CASE phase' \in Final
  BY <1>2, GenOver
<1>3. CASE phase' \notin Final
  <2>1. phase' = "nodegen" /\ stack' = WalkRoot
    BY <1>3 DEF Load, Final
  <2>2. TreeOK(Ctx'.tree, Keys(Ctx')) /\ DOMAIN Ctx'.tree = Nodes'
    BY <1>1 DEF Ctx, Keys, Nodes
  <2>3. /\ Guided(Ctx', WalkRoot)
        /\ \A m \in Nodes' : Reached(Ctx', WalkRoot, m)
    BY <2>2, RootWalk
  <2>4. AllSettled(Ctx', pass')
    BY <1>1 DEF AllSettled
  <2> QED BY <2>1, <2>3, <2>4 DEF Generates, Unmissed, Emitting
<1> QED BY <1>2, <1>3

LEMMA NodegenPassGen ==
    ASSUME IInv, Generates, NodegenPass
    PROVE  Generates'
<1>1. /\ phase = "nodegen" /\ stack = <<>> /\ TreeOK(child_list, Keys(Ctx)) /\ found_count \in Nat
      /\ UNCHANGED <<shape, child_list, pass>> /\ AllSettled(Ctx, pass) /\ Unmissed
  BY DEF IInv, Going, NodegenPass, PhaseDone, Final, Generates
<1>2. CASE found_count > 0
  <2>1. stack' = WalkRoot /\ phase' = phase
    BY <1>2 DEF NodegenPass
  <2>2. Ctx' = Ctx /\ Nodes' = Nodes /\ DOMAIN Ctx.tree = Nodes /\ TreeOK(Ctx.tree, Keys(Ctx))
    BY <1>1, <2>1 DEF Ctx, Nodes
  <2>3. Guided(Ctx, WalkRoot) /\ \A m \in Nodes : Reached(Ctx, WalkRoot, m)
    BY <2>2, RootWalk
  <2> QED BY <1>1, <2>1, <2>2, <2>3 DEF Generates, Unmissed, Emitting
<1>3. CASE ~(found_count > 0)
  <2>1. phase' = "check" /\ Nodes' = Nodes
    BY <1>1, <1>3 DEF NodegenPass, Nodes
  <2>2. found_count = 0 /\ Calm(pass, stack) /\ \A m : ~Reached(Ctx, stack, m)
    BY <1>1, <1>3 DEF Calm, Reached
  <2>3. Nodes \subseteq pass
    BY <1>1, <2>2 DEF Unmissed
  <2> QED BY <1>1, <2>1, <2>3 DEF Generates
<1> QED BY <1>2, <1>3

-----------------------------------------------------------------------------
(* What the handlers add.                                                  *)

LEMMA NearestSame ==
    ASSUME NEW n, NEW type
    PROVE  TypeFilterSearch(n, type) = NearestIn(shape, n, type)
BY DEF TypeFilterSearch, NearestIn, Block, KeyOf, TypeIn

LEMMA NearestPart ==
    ASSUME NEW s, NEW n, Len(n) \in Nat, NEW type, NearestIn(s, n, type) # Null
    PROVE  \E i \in 0..Len(n) : /\ NearestIn(s, n, type) = SubSeq(n, 1, i)
                                /\ TypeIn(s, SubSeq(n, 1, i)) = type
<1> DEFINE hit == {i \in 0..Len(n) : TypeIn(s, SubSeq(n, 1, i)) = type}
<1>1. hit # {} /\ NearestIn(s, n, type) = SubSeq(n, 1, Max(hit))
  BY DEF NearestIn
<1>2. Max(hit) \in hit
  BY <1>1, MaxOf
<1> QED BY <1>1, <1>2

\* The operation of a handler of nodegen that adds a node.
LEMMA OpHandled ==
    ASSUME IInv, NEW o \in Makes, AtOp(o)
    PROVE  /\ phase = "nodegen" /\ Op.op = o /\ Top.pc \in 1..Len(HandlerOf(Ctx, Top.n))
           /\ HandlerOf(Ctx, Top.n)[Top.pc] = Op
           /\ o = "run" => TypeIn(shape, Append(curr_root, Op.key)) \notin Looping
           /\ \A p : o = "inject" /\ p \in Nodes /\ Append(p, Op.to) \in Nodes
                       => TypeIn(shape, Append(p, Op.to)) \notin Looping /\ Op.to \in Keys(Ctx)
<1>1. phase = "nodegen" /\ Block(Top.n).type \notin Steered /\ At("fn")
      /\ Op.key \in Keys(Ctx) /\ Op.op = o
  BY MakesInNodegen DEF AtOp, Op
<1>2. Top.n \in Nodes /\ shape \in Shapes /\ TreeOK(child_list, Keys(Ctx))
  BY <1>1, TopHandler
<1>3. Block(Top.n).type = TypeIn(shape, Top.n) /\ KeyOf(Top.n) \in Keys(Ctx)
      /\ BlockOK(Block(Top.n), Keys(Ctx))
  BY <1>2, BlockOfNode
<1>4. Program(Top.n) = Block(Top.n).nodegen /\ HandlerOf(Ctx, Top.n) = Block(Top.n).nodegen
  BY <1>1, <1>3, CtxParts DEF Program, HandlerOf, Steered, Block, KeyOf
<1>5. Block(Top.n) \in Range(shape.block) /\ Op \in Range(Block(Top.n).nodegen)
  <2>1. KeyOf(Top.n) \in DOMAIN shape.block
    BY <1>3, CtxParts DEF Keys
  <2>2. Block(Top.n) \in Range(shape.block)
    BY <2>1 DEF Block, Range
  <2>3. Top.pc \in DOMAIN Block(Top.n).nodegen /\ Op = Block(Top.n).nodegen[Top.pc]
    BY <1>3, <1>4 DEF AtOp, Op, BlockOK
  <2> QED BY <2>2, <2>3 DEF Range
<1>6. /\ o = "inject" /\ Op.to \in DOMAIN shape.block => shape.block[Op.to].type \notin Looping
      /\ o = "run" => shape.block[Op.key].type \notin Looping
  BY <1>1, <1>2, <1>5, ShapesAssumption DEF CalledOK
<1>7. \A p, k : p \in Nodes /\ k \in Keys(Ctx) => TypeIn(shape, Append(p, k)) = shape.block[k].type
  <2> SUFFICES ASSUME NEW p \in Nodes, NEW k \in Keys(Ctx)
               PROVE  TypeIn(shape, Append(p, k)) = shape.block[k].type
    OBVIOUS
  <2>1. p \in Seq(Keys(Ctx))
    BY <1>2, BlockOfNode
  <2>2. Append(p, k) # <<>> /\ Last(Append(p, k)) = k
    BY <2>1, Appended
  <2> QED BY <2>2 DEF TypeIn, KeyIn, DocRoot
<1>8. ASSUME o = "run" PROVE TypeIn(shape, Append(curr_root, Op.key)) \notin Looping
  BY <1>1, <1>6, <1>7, <1>8, RootIsNode
<1>9. ASSUME NEW p, o = "inject", p \in Nodes, Append(p, Op.to) \in Nodes
      PROVE  TypeIn(shape, Append(p, Op.to)) \notin Looping /\ Op.to \in Keys(Ctx)
  <2>1. p \in Seq(Keys(Ctx)) /\ Append(p, Op.to) \in Seq(Keys(Ctx))
    BY <1>2, <1>9, BlockOfNode
  <2>2. Op.to \in Keys(Ctx)
    <3>1. Len(p) + 1 \in 1..Len(Append(p, Op.to)) /\ Append(p, Op.to)[Len(p) + 1] = Op.to
      BY <2>1
    <3> DEFINE q == Append(p, Op.to)
               i == Len(p) + 1
    <3> HIDE DEF q, i
    <3>2. q \in Seq(Keys(Ctx)) /\ i \in 1..Len(q) /\ q[i] = Op.to
      BY <2>1, <3>1 DEF q, i
    <3> QED BY <3>2
  <2> QED BY <1>6, <1>7, <1>9, <2>2, CtxParts DEF Keys
<1> QED BY <1>1, <1>4, <1>8, <1>9 DEF AtOp, Op

\* The tree after a handler added to it.
LEMMA MadeGrows ==
    ASSUME IInv, NEW o \in Makes, AtOp(o), MadeOnly,
           TreeOK(child_list', Keys(Ctx)), Extends(child_list, child_list')
    PROVE  /\ Grows(Ctx, Ctx') /\ Ctx'.tree = child_list' /\ Ctx'.shape = shape /\ Ctx'.phase = phase
           /\ DOMAIN Ctx'.tree = Nodes' /\ phase' = phase /\ shape' = shape /\ Nodes \subseteq Nodes'
           /\ pass' = pass /\ found_count' = found_count /\ phase = "nodegen"
           /\ FrameSet(Ctx) \subseteq FrameSet(Ctx') /\ TreeOK(child_list, Keys(Ctx))
           /\ stack \in Seq(FrameSet(Ctx)) /\ At("fn")
<1>1. phase = "nodegen" /\ At("fn")
  BY MakesInNodegen DEF AtOp
<1>2. TreeOK(child_list, Keys(Ctx)) /\ stack \in Seq(FrameSet(Ctx))
  BY <1>1, TopWalk
<1>3. shape' = shape /\ phase' = phase /\ pass' = pass /\ found_count' = found_count
  BY DEF MadeOnly
<1>4. /\ Ctx'.tree = child_list' /\ Ctx'.shape = shape /\ Ctx'.phase = phase
      /\ Keys(Ctx') = Keys(Ctx)
  BY <1>3 DEF Ctx, Keys
<1>5. Grows(Ctx, Ctx')
  BY <1>1, <1>2, <1>4, CtxParts DEF Grows
<1>6. DOMAIN child_list \subseteq DOMAIN child_list'
  BY DEF Extends
<1>7. FrameSet(Ctx) \subseteq FrameSet(Ctx') /\ Nodes \subseteq Nodes' /\ DOMAIN Ctx'.tree = Nodes'
  BY <1>4, <1>6, CtxParts DEF FrameSet, Nodes
<1> QED BY <1>1, <1>2, <1>3, <1>4, <1>5, <1>7

\* A handler of nodegen added nodes, and may call the handler of one.
LEMMA MakingGen ==
    ASSUME IInv, Generates, NEW o \in Makes, AtOp(o), MadeOnly,
           TreeOK(child_list', Keys(Ctx)), Extends(child_list, child_list'),
           SettledTo(Ctx', Top.n, Top.pc + 1),
           found_count = 0 /\ Calm(pass, stack) =>
               \A m \in Nodes' \ pass : Reached(Ctx', stack, m),
           \/ stack' = Moved
           \/ \E n \in Nodes' : /\ stack' = Append(Moved, Frame("fn", n, 0))
                                /\ TypeIn(shape, n) \notin Looping /\ LedBy(stack, n)
    PROVE  Generates'
<1> DEFINE d == Ctx'
           u == Under
           f == Top
           p == Top.pc + 1
           m == Top.mark
<1>1. /\ Grows(Ctx, d) /\ d.tree = child_list' /\ d.shape = shape /\ DOMAIN d.tree = Nodes'
      /\ phase' = phase /\ pass' = pass /\ found_count' = found_count /\ phase = "nodegen"
      /\ FrameSet(Ctx) \subseteq FrameSet(d) /\ At("fn")
  BY MadeGrows
<1>2. /\ stack = Append(u, f) /\ u \in Seq(FrameSet(Ctx)) /\ f \in FrameSet(Ctx)
      /\ f.k = "fn" /\ p \in Nat /\ m \in Nat /\ Guided(Ctx, Append(u, f)) /\ AllSettled(Ctx, pass)
      /\ stack \in Seq(FrameSet(Ctx))
  BY <1>1, GenTop
<1>3. /\ Moved = Append(u, Stepped(f, p, m)) /\ BelowOf(Moved) = Stepped(f, p, m)
      /\ Stepped(f, p, m).k = "fn" /\ Stepped(f, p, m) \in FrameSet(Ctx) /\ Stepped(f, p, m).n = f.n
  BY <1>1, HandlerMoved
<1>4. SettledTo(d, f.n, p)
  OBVIOUS
<1>5. u \in Seq(FrameSet(d)) /\ f \in FrameSet(d) /\ Stepped(f, p, m) \in FrameSet(d)
  <2> HIDE DEF d, u, f, p, m
  <2> QED BY <1>1, <1>2, <1>3
<1> HIDE DEF d, u, f, p, m
<1>6. Guided(d, Append(u, f))
  <2>1. Append(u, f) \in Seq(FrameSet(Ctx))
    BY <1>2
  <2> QED BY <1>1, <1>2, <2>1, GuidedGrows
<1>7. m <= Len(d.tree[f.n])
  BY <1>2, <1>5, <1>6, GuidedAppend DEF Guide, m, f
<1>8. /\ Guided(d, Moved)
      /\ \A P : Calm(P, Moved) <=> Calm(P, stack)
      /\ \A x : Reached(d, Moved, x) <=> Reached(d, stack, x)
  <2>1. /\ Guided(d, Append(u, Stepped(f, p, m)))
        /\ \A P : Calm(P, Append(u, Stepped(f, p, m))) <=> Calm(P, Append(u, f))
        /\ \A x : Reached(d, Append(u, Stepped(f, p, m)), x) <=> Reached(d, Append(u, f), x)
    BY <1>2, <1>4, <1>5, <1>6, <1>7, HandlerGoesOn
  <2> QED BY <1>2, <1>3, <2>1
<1>9. /\ Guided(d, stack') /\ \A P : Calm(P, stack') => Calm(P, stack)
      /\ \A x : Reached(d, stack, x) => Reached(d, stack', x)
  <2>1. CASE stack' = Moved
    BY <1>8, <2>1
  <2>2. ASSUME NEW n \in Nodes', stack' = Append(Moved, Frame("fn", n, 0)),
               TypeIn(shape, n) \notin Looping, LedBy(stack, n)
        PROVE  /\ Guided(d, stack') /\ \A P : Calm(P, stack') => Calm(P, stack)
               /\ \A x : Reached(d, stack, x) => Reached(d, stack', x)
    <3> DEFINE F == Frame("fn", n, 0)
    <3>1. F \in FrameSet(d) /\ F.k = "fn" /\ F.n = n /\ F.pc = 0 /\ F.mark = 0
      BY <1>1 DEF Frame, FrameSet, Kinds
    <3> HIDE DEF F
    <3>2. LedBy(Moved, n)
      BY <1>2, <1>3, <2>2, LedSame, CtxParts
    <3>3. Len(d.tree[n]) \in Nat
      BY <1>1 DEF Grows, TreeOK
    <3>4. SettledTo(d, n, 0)
      BY DEF SettledTo
    <3>5. Guide(d, Moved, F)
      BY <1>1, <2>2, <3>1, <3>2, <3>3, <3>4 DEF Guide
    <3>6. stack' = Append(Moved, F) /\ Moved \in Seq(FrameSet(d))
      BY <1>3, <1>5, <2>2 DEF F
    <3> HIDE DEF Moved
    <3>7. /\ Guided(d, Append(Moved, F)) /\ \A P : Calm(P, Append(Moved, F)) => Calm(P, Moved)
          /\ \A x : Reached(d, Moved, x) => Reached(d, Append(Moved, F), x)
      BY <1>8, <3>1, <3>5, <3>6, FramePushed
    <3> QED BY <1>8, <3>6, <3>7
  <2> QED BY <2>1, <2>2
<1>10. AllSettled(d, pass)
  <2>1. \A n : HandlerOf(d, n) = HandlerOf(Ctx, n)
    BY <1>1, CtxParts DEF HandlerOf
  <2> QED BY <1>1, <1>2, <2>1, SettledGrows DEF AllSettled
<1>11. found_count' = 0 /\ Calm(pass', stack') => \A x \in Nodes' \ pass' : Reached(d, stack', x)
  BY <1>1, <1>9 DEF d
<1> QED BY <1>1, <1>9, <1>10, <1>11 DEF Generates, Unmissed, Emitting, d

\* An operation that adds its node is settled after it.
LEMMA MadeSettled ==
    ASSUME IInv, Generates, NEW o \in Makes, AtOp(o), MadeOnly,
           TreeOK(child_list', Keys(Ctx)), Extends(child_list, child_list'),
           o = "own" => Append(Top.n, Op.key) \in Nodes',
           o = "inject" => Append(Target(Ctx, Top.n, Op), Op.key) \in Nodes'
    PROVE  SettledTo(Ctx', Top.n, Top.pc + 1)
<1> DEFINE d == Ctx'
           n == Top.n
           p == Top.pc
           x == Op
<1>1. /\ Grows(Ctx, d) /\ d.shape = shape /\ DOMAIN d.tree = Nodes' /\ phase = "nodegen" /\ At("fn")
  BY MadeGrows
<1>2. SettledTo(Ctx, n, p) /\ p \in Nat /\ Ctx.shape = shape
  BY <1>1, GenTop, CtxParts DEF Guide
<1>3. x.op = o /\ p \in 1..Len(HandlerOf(Ctx, n)) /\ HandlerOf(Ctx, n)[p] = x
  BY OpHandled
<1>4. /\ o = "own" => Append(n, x.key) \in DOMAIN d.tree
      /\ o = "inject" => Append(Target(Ctx, n, x), x.key) \in DOMAIN d.tree
  BY <1>1
<1> HIDE DEF d, n, p, x
<1>5. HandlerOf(d, n) = HandlerOf(Ctx, n) /\ Target(d, n, x) = Target(Ctx, n, x)
  BY <1>1, <1>2 DEF HandlerOf, Target
<1>6. SettledTo(d, n, p)
  BY <1>1, <1>2, SettledGrows
<1>7. Settled(d, n, x)
  BY <1>3, <1>4, <1>5 DEF Settled
<1>8. ASSUME NEW i \in 1..Len(HandlerOf(d, n)), i < p + 1 PROVE i < p \/ i = p
  BY <1>2, <1>8
<1>9. SettledTo(d, n, p + 1)
  BY <1>3, <1>5, <1>6, <1>7, <1>8 DEF SettledTo
<1> QED BY <1>9 DEF d, n, p

\* One call of tr_get: the child was there, or what stands on the stack will get to it.
LEMMA OneMade ==
    ASSUME IInv, Generates, NEW o \in Makes, AtOp(o), MadeOnly,
           NEW p \in Nodes, NEW k \in Keys(Ctx), TrGet(p, k),
           o = "own" => Append(Top.n, Op.key) \in Nodes',
           o = "inject" => Append(Target(Ctx, Top.n, Op), Op.key) \in Nodes',
           found_count = 0 /\ Calm(pass, stack) =>
               \/ Append(p, k) \in Nodes
               \/ Covers(stack, p)
               \/ \E e \in 1..Len(stack) : Attends(stack[e], p),
           \/ stack' = Moved
           \/ \E n \in Nodes' : /\ stack' = Append(Moved, Frame("fn", n, 0))
                                /\ TypeIn(shape, n) \notin Looping /\ LedBy(stack, n)
    PROVE  Generates'
<1>1. At("fn") /\ phase = "nodegen"
  BY MakesInNodegen DEF AtOp
<1>2. /\ TreeOK(child_list, Keys(Ctx)) /\ Guided(Ctx, stack) /\ Chain(Ctx, stack)
      /\ stack \in Seq(FrameSet(Ctx)) /\ Ctx.tree = child_list /\ Unmissed
  BY <1>1, GenTop
<1>3. child_list' = Grown(child_list, p, k)
  BY DEF TrGet
<1>4. TreeOK(child_list', Keys(Ctx)) /\ Extends(child_list, child_list')
  BY <1>2, <1>3, GrownTree DEF Nodes
<1>5. SettledTo(Ctx', Top.n, Top.pc + 1)
  BY <1>4, MadeSettled
<1>6. \A e \in 1..Len(stack) : stack[e].k = "only" => stack[e].pc > 0
  BY <1>2 DEF Chain, FrameOK
<1>7. ASSUME found_count = 0, Calm(pass, stack)
      PROVE  \A m \in Nodes' \ pass : Reached(Ctx', stack, m)
  <2> DEFINE c == Ctx
             d == Ctx'
             s == stack
             P == pass
  <2>1. /\ Grows(c, d) /\ d.tree = Grown(c.tree, p, k) /\ DOMAIN d.tree = Nodes'
    BY <1>2, <1>3, <1>4, MadeGrows
  <2>2. /\ s \in Seq(FrameSet(c)) /\ Guided(c, s) /\ p \in DOMAIN c.tree /\ k \in Keys(c)
        /\ \A e \in 1..Len(s) : s[e].k = "only" => s[e].pc > 0
    BY <1>2, <1>6 DEF Nodes
  <2>3. \/ Append(p, k) \in DOMAIN c.tree
        \/ Covers(s, p)
        \/ \E e \in 1..Len(s) : Attends(s[e], p)
    BY <1>2, <1>7 DEF Nodes
  <2>4. \A m \in DOMAIN c.tree \ P : Reached(c, s, m)
    BY <1>2, <1>7 DEF Unmissed, Nodes
  <2>5. Nodes' \ pass = DOMAIN d.tree \ P
    BY <2>1
  <2> HIDE DEF c, d, s, P
  <2>6. \A m \in DOMAIN d.tree \ P : Reached(d, s, m)
    BY <2>1, <2>2, <2>3, <2>4, ReachedGrows
  <2> QED BY <2>5, <2>6 DEF d, s
<1> QED BY <1>4, <1>5, <1>7, MakingGen

\* The root of a handler of nodegen.
LEMMA RootSafe ==
    ASSUME IInv, Generates, phase = "nodegen", At("fn")
    PROVE  Covers(stack, curr_root) /\ Held(stack, curr_root) /\ curr_root \in Nodes
<1>1. /\ Going /\ stack # <<>> /\ Guided(Ctx, stack) /\ TreeOK(Ctx.tree, Keys(Ctx))
      /\ Ctx.phase = "nodegen" /\ Top.k = "fn"
  BY GenTop DEF Generates
<1>2. Stacked(Ctx, stack, RootLog, FolderLog) /\ Last(RootLog) = curr_root
  BY <1>1, Opened DEF Going
<1>3. Last(stack).k = "fn"
  BY <1>1 DEF Top
<1>4. Covers(stack, Last(RootLog)) /\ Held(stack, Last(RootLog))
  BY <1>1, <1>2, <1>3, SafeRoot
<1> QED BY <1>2, <1>4, RootIsNode

LEMMA MakeHereGen == ASSUME IInv, Generates, MakeHere PROVE Generates'
<1>1. /\ AtOp("make") /\ TrGet(curr_root, Op.key) /\ stack' = Moved /\ MadeOnly
      /\ "make" \in Makes
  BY DEF MakeHere, Makes
<1>2. phase = "nodegen" /\ At("fn") /\ Op.key \in Keys(Ctx)
  BY <1>1, MakesInNodegen DEF AtOp
<1>3. Covers(stack, curr_root) /\ curr_root \in Nodes
  BY <1>2, RootSafe
<1> QED BY <1>1, <1>2, <1>3, OneMade

LEMMA MakeOwnGen == ASSUME IInv, Generates, MakeOwn PROVE Generates'
<1>1. /\ AtOp("own") /\ TrGet(Top.n, Op.key) /\ stack' = Moved /\ MadeOnly
      /\ "own" \in Makes
  BY DEF MakeOwn, Makes
<1>2. phase = "nodegen" /\ At("fn") /\ Op.key \in Keys(Ctx)
  BY <1>1, MakesInNodegen DEF AtOp
<1>3. Top.n \in Nodes /\ TreeOK(child_list, Keys(Ctx)) /\ AllSettled(Ctx, pass) /\ stack # <<>>
      /\ stack \in Seq(FrameSet(Ctx)) /\ Top.k = "fn" /\ Ctx.tree = child_list
  BY <1>2, GenTop
<1>4. Append(Top.n, Op.key) \in Nodes'
  BY <1>1, <1>2, <1>3, GrownTree DEF TrGet, Nodes
<1>5. Calm(pass, stack) => Append(Top.n, Op.key) \in Nodes
  <2> SUFFICES ASSUME Calm(pass, stack) PROVE Append(Top.n, Op.key) \in Nodes
    OBVIOUS
  <2>1. Top.n \in pass
    <3>1. Len(stack) \in 1..Len(stack) /\ Top = stack[Len(stack)]
      BY <1>3 DEF Top, Last
    <3> QED BY <1>3, <3>1 DEF Calm
  <2>2. SettledTo(Ctx, Top.n, Len(HandlerOf(Ctx, Top.n)) + 1)
    BY <1>3, <2>1 DEF AllSettled
  <2>3. Op.op = "own" /\ Top.pc \in 1..Len(HandlerOf(Ctx, Top.n)) /\ HandlerOf(Ctx, Top.n)[Top.pc] = Op
    BY <1>1, OpHandled
  <2>4. Top.pc < Len(HandlerOf(Ctx, Top.n)) + 1
    BY <2>3
  <2>5. Settled(Ctx, Top.n, Op)
    BY <2>2, <2>3, <2>4 DEF SettledTo
  <2> QED BY <1>3, <2>3, <2>5 DEF Settled, Nodes
<1> QED BY <1>1, <1>2, <1>3, <1>4, <1>5, OneMade

LEMMA MakeAboveGen == ASSUME IInv, Generates, MakeAbove PROVE Generates'
<1> DEFINE p == TypeFilterSearch(curr_root, Op.type)
<1>1. AtOp("above") /\ "above" \in Makes
  BY DEF MakeAbove, Makes
<1>2. phase = "nodegen" /\ At("fn") /\ Op.key \in Keys(Ctx) /\ TreeOK(child_list, Keys(Ctx))
      /\ shape \in Shapes
  BY <1>1, MakesInNodegen, TopHandler DEF AtOp
<1>3. Held(stack, curr_root) /\ curr_root \in Nodes /\ Len(curr_root) \in Nat
  <2>1. Held(stack, curr_root) /\ curr_root \in Nodes
    BY <1>2, RootSafe
  <2> QED BY <1>2, <2>1, BlockOfNode
<1>4. CASE p = Null
  <2>1. Throw
    BY <1>4 DEF MakeAbove
  <2> QED BY <2>1, ThrowEnds, GenOver
<1>5. CASE p # Null
  <2>1. TrGet(p, Op.key) /\ stack' = Moved /\ MadeOnly
    BY <1>5 DEF MakeAbove
  <2>2. p \in Nodes
    BY <1>2, <1>3, <1>5, NearestIsNode DEF Keys, Ctx
  <2>3. PICK i \in 0..Len(curr_root) : p = SubSeq(curr_root, 1, i)
    BY <1>3, <1>5, NearestSame, NearestPart
  <2> HIDE DEF p
  <2>4. \E e \in 1..Len(stack) : Attends(stack[e], p)
    BY <1>3, <2>3 DEF Held
  <2> QED BY <1>1, <1>2, <2>1, <2>2, <2>4, OneMade
<1> QED BY <1>4, <1>5

LEMMA RunMadeGen == ASSUME IInv, Generates, RunMade PROVE Generates'
<1> DEFINE n == Append(curr_root, Op.key)
<1>1. /\ AtOp("run") /\ TrGet(curr_root, Op.key) /\ MadeOnly /\ "run" \in Makes
      /\ stack' = Append(Moved, Frame("fn", n, 0))
  BY DEF RunMade, Makes, Call
<1>2. phase = "nodegen" /\ At("fn") /\ Op.key \in Keys(Ctx) /\ TreeOK(child_list, Keys(Ctx))
      /\ shape \in Shapes
  BY <1>1, MakesInNodegen, TopHandler DEF AtOp
<1>3. Covers(stack, curr_root) /\ Held(stack, curr_root) /\ curr_root \in Nodes
      /\ curr_root \in Seq(Keys(Ctx))
  BY <1>2, RootSafe, BlockOfNode
<1>4. n \in Nodes'
  BY <1>1, <1>2, <1>3, GrownTree DEF TrGet, Nodes
<1>5. LedBy(stack, n)
  BY <1>2, <1>3, HeldLeads
<1>6. TypeIn(shape, n) \notin Looping
  BY <1>1, OpHandled
<1> HIDE DEF n
<1> QED BY <1>1, <1>2, <1>3, <1>4, <1>5, <1>6, OneMade

\* Two calls of tr_get, the second below what the first made.
LEMMA MakeWrappedGen == ASSUME IInv, Generates, MakeWrapped PROVE Generates'
<1> DEFINE t == Grown(child_list, curr_root, Op.in)
           q == Append(curr_root, Op.in)
<1>1. /\ AtOp("wrap") /\ stack' = Moved /\ MadeOnly /\ "wrap" \in Makes
      /\ child_list' = Grown(t, q, Op.key)
  BY DEF MakeWrapped, Makes
<1>2. phase = "nodegen" /\ At("fn") /\ Op.key \in Keys(Ctx) /\ Op.in \in Keys(Ctx)
      /\ shape \in Shapes
  BY <1>1, MakesInNodegen, TopHandler DEF AtOp
<1>3. /\ TreeOK(child_list, Keys(Ctx)) /\ Guided(Ctx, stack) /\ Chain(Ctx, stack)
      /\ stack \in Seq(FrameSet(Ctx)) /\ Ctx.tree = child_list /\ Unmissed
  BY <1>2, GenTop
<1>4. Covers(stack, curr_root) /\ curr_root \in Nodes /\ curr_root \in Seq(Keys(Ctx))
  BY <1>2, <1>3, RootSafe, BlockOfNode
<1>5. TreeOK(t, Keys(Ctx)) /\ Extends(child_list, t) /\ q \in DOMAIN t
  BY <1>2, <1>3, <1>4, GrownTree DEF Nodes
<1>6. Prefix(curr_root, q) /\ q \in Seq(Keys(Ctx))
  BY <1>2, <1>4, PrefixAppend
<1>7. Covers(stack, q)
  <2>1. PICK e \in 1..Len(stack) : stack[e].k \in {"walk", "mono"} /\ stack[e].pc = 0
                                   /\ Prefix(stack[e].n, curr_root)
    BY <1>4 DEF Covers
  <2>2. stack[e].n \in Nodes
    <3>1. stack[e] \in FrameSet(Ctx)
      BY <1>3
    <3> QED BY <3>1, CtxParts DEF FrameSet, Nodes
  <2>3. stack[e].n \in Seq(Keys(Ctx))
    BY <1>2, <1>3, <2>2, BlockOfNode
  <2> HIDE DEF q
  <2>4. Prefix(stack[e].n, q)
    BY <1>4, <1>6, <2>1, <2>3, PrefixTwice
  <2> QED BY <2>1, <2>4 DEF Covers
<1> HIDE DEF t, q
<1>8. TreeOK(child_list', Keys(Ctx)) /\ Extends(t, child_list')
  BY <1>1, <1>2, <1>5, GrownTree
<1>9. Extends(child_list, child_list')
  BY <1>3, <1>5, <1>8, ExtendsTwice
<1>10. SettledTo(Ctx', Top.n, Top.pc + 1)
  BY <1>1, <1>8, <1>9, MadeSettled
<1>11. \A e \in 1..Len(stack) : stack[e].k = "only" => stack[e].pc > 0
  BY <1>3 DEF Chain, FrameOK
<1>12. ASSUME found_count = 0, Calm(pass, stack)
       PROVE  \A m \in Nodes' \ pass : Reached(Ctx', stack, m)
  <2> DEFINE c == Ctx
             b == [tree |-> t, shape |-> shape, phase |-> phase]
             d == Ctx'
             s == stack
             P == pass
             p == curr_root
             i == Op.in
             k == Op.key
  <2>1. /\ Keys(b) = Keys(c) /\ b.tree = t /\ b.shape = c.shape /\ b.phase = c.phase
    BY CtxParts DEF Keys
  <2>2. /\ d.tree = child_list' /\ Keys(d) = Keys(c) /\ d.shape = c.shape /\ d.phase = c.phase
        /\ DOMAIN d.tree = Nodes'
    BY <1>1, CtxParts DEF Keys, Ctx, MadeOnly, Nodes
  <2>3. Grows(c, b) /\ Grows(b, d) /\ b.tree = Grown(c.tree, p, i) /\ d.tree = Grown(b.tree, q, k)
    BY <1>1, <1>2, <1>3, <1>5, <1>8, <2>1, <2>2, CtxParts DEF Grows, t
  <2>4. /\ s \in Seq(FrameSet(c)) /\ Guided(c, s) /\ p \in DOMAIN c.tree /\ i \in Keys(c)
        /\ Covers(s, p) /\ \A m \in DOMAIN c.tree \ P : Reached(c, s, m)
        /\ \A e \in 1..Len(s) : s[e].k = "only" => s[e].pc > 0
    BY <1>2, <1>3, <1>4, <1>11, <1>12 DEF Nodes, Unmissed
  <2>5. s \in Seq(FrameSet(b)) /\ q \in DOMAIN b.tree /\ k \in Keys(b) /\ Covers(s, q)
    <3>1. FrameSet(c) \subseteq FrameSet(b)
      BY <1>5, <2>1, CtxParts DEF FrameSet, Extends
    <3> HIDE DEF c, b
    <3>2. s \in Seq(FrameSet(b))
      BY <2>4, <3>1
    <3> QED BY <1>2, <1>5, <1>7, <2>1, <3>2 DEF c
  <2>6. Nodes' \ pass = DOMAIN d.tree \ P
    BY <2>2
  <2> HIDE DEF c, b, d, s, P, p, i, k
  <2>7. \A m \in DOMAIN b.tree \ P : Reached(b, s, m)
    BY <2>3, <2>4, ReachedGrows
  <2>8. Guided(b, s)
    BY <2>3, <2>4, GuidedGrows
  <2>9. \A m \in DOMAIN d.tree \ P : Reached(d, s, m)
    BY <2>3, <2>4, <2>5, <2>7, <2>8, ReachedGrows
  <2> QED BY <2>6, <2>9 DEF d, s
<1> QED BY <1>1, <1>8, <1>9, <1>10, <1>12, MakingGen

\* inject_to: above the project there are its walks, and at the project its own or the
\* handler's.  What a marked handler injects is there already.
LEMMA InjectToGen == ASSUME IInv, Generates, InjectTo PROVE Generates'
<1> DEFINE p == TypeFilterSearch(Top.n, "project")
           q == Append(p, Op.to)
<1>1. AtOp("inject") /\ "inject" \in Makes
  BY DEF InjectTo, Makes
<1>2. phase = "nodegen" /\ At("fn") /\ Op.key \in Keys(Ctx) /\ shape \in Shapes
  BY <1>1, MakesInNodegen, TopHandler DEF AtOp
<1>3. /\ Top.n \in Nodes /\ TreeOK(child_list, Keys(Ctx)) /\ AllSettled(Ctx, pass) /\ stack # <<>>
      /\ stack \in Seq(FrameSet(Ctx)) /\ Top.k = "fn" /\ Ctx.tree = child_list
      /\ stack = Append(Under, Top) /\ Under \in Seq(FrameSet(Ctx)) /\ Top \in FrameSet(Ctx)
      /\ Guided(Ctx, stack) /\ LedBy(Under, Top.n) /\ Chain(Ctx, stack)
  BY <1>2, GenTop DEF Guide, Generates
<1>4. Top.n \in Seq(Keys(Ctx)) /\ Len(Top.n) \in Nat
  BY <1>2, <1>3, BlockOfNode
<1>5. CASE p = Null \/ ~Contains(child_list[p], Op.to)
  <2>1. Throw
    BY <1>5 DEF InjectTo
  <2> QED BY <2>1, ThrowEnds, GenOver
<1>6. CASE ~(p = Null \/ ~Contains(child_list[p], Op.to))
  <2>1. TrGet(q, Op.key) /\ MadeOnly /\ stack' = Append(Moved, Frame("fn", q, 0))
    BY <1>6 DEF InjectTo, Call
  <2>2. p \in Nodes
    BY <1>3, <1>6, NearestIsNode DEF Keys, Ctx
  <2>3. q \in Nodes
    BY <1>3, <1>6, <2>2 DEF Contains, TreeOK, Nodes
  <2>4. PICK i \in 0..Len(Top.n) : p = SubSeq(Top.n, 1, i) /\ TypeIn(shape, p) = "project"
    <3>1. NearestIn(shape, Top.n, "project") = p /\ p # Null
      BY <1>6, NearestSame
    <3> HIDE DEF p
    <3>2. \E i \in 0..Len(Top.n) :
             /\ NearestIn(shape, Top.n, "project") = SubSeq(Top.n, 1, i)
             /\ TypeIn(shape, SubSeq(Top.n, 1, i)) = "project"
      BY <1>4, <3>1, NearestPart
    <3> QED BY <3>1, <3>2
  <2>5. q = Target(Ctx, Top.n, Op)
    BY NearestSame, CtxParts DEF Target
  <2> HIDE DEF p
  <2>6. TypeIn(shape, q) \notin Looping /\ Op.to \in Keys(Ctx)
    BY <1>1, <2>2, <2>3, OpHandled
  <2>7. Len(stack) \in 1..Len(stack) /\ Top = stack[Len(stack)]
    BY <1>3 DEF Top, Last
  <2>8. p \in Seq(Keys(Ctx))
    BY <1>2, <1>3, <2>2, BlockOfNode
  <2>9. Held(stack, p)
    <3>1. CASE i = Len(Top.n)
      <4>1. p = Top.n
        BY <1>4, <2>4, <3>1, SubSeqFull
      <4> DEFINE N == Len(stack)
      <4>2. N \in 1..Len(stack) /\ stack[N].k = "fn" /\ stack[N].n = Top.n
            /\ TypeIn(Ctx.shape, stack[N].n) \in Looping
        BY <1>3, <2>4, <2>7, <4>1, CtxParts DEF Looping
      <4> HIDE DEF N
      <4>3. N - 1 \in 1..Len(stack) /\ Attends(stack[N - 1], p)
        BY <1>3, <4>1, <4>2, LoopingWalked
      <4>4. LedBy(stack, p)
        BY <1>3, <4>1, LedAppend
      <4> QED BY <2>6, <2>8, <4>3, <4>4, HeldLeads
    <3>2. CASE i # Len(Top.n)
      <4>1. i \in 0..(Len(Top.n) - 1)
        BY <1>4, <3>2
      <4>2. Held(Under, p)
        BY <1>3, <1>4, <2>4, <4>1, LedPart
      <4> QED BY <1>3, <4>2, HeldAppend
    <3> QED BY <3>1, <3>2
  <2>10. LedBy(stack, q)
    BY <2>6, <2>8, <2>9, HeldLeads DEF q
  <2>11. ASSUME Calm(pass, stack) PROVE Append(q, Op.key) \in Nodes
    <3>1. Top.n \in pass
      BY <1>3, <2>7, <2>11 DEF Calm
    <3>2. SettledTo(Ctx, Top.n, Len(HandlerOf(Ctx, Top.n)) + 1)
      BY <1>3, <3>1 DEF AllSettled
    <3>3. Op.op = "inject" /\ Top.pc \in 1..Len(HandlerOf(Ctx, Top.n))
          /\ HandlerOf(Ctx, Top.n)[Top.pc] = Op
      BY <1>1, OpHandled
    <3>4. Top.pc < Len(HandlerOf(Ctx, Top.n)) + 1
      BY <3>3
    <3>5. Settled(Ctx, Top.n, Op)
      BY <3>2, <3>3, <3>4 DEF SettledTo
    <3> QED BY <1>3, <2>5, <3>3, <3>5 DEF Settled, Nodes
  <2> HIDE DEF q
  <2>12. /\ TreeOK(child_list', Keys(Ctx)) /\ Extends(child_list, child_list')
         /\ Append(q, Op.key) \in Nodes'
    BY <1>2, <1>3, <2>1, <2>3, GrownTree DEF TrGet, Nodes
  <2>13. q \in Nodes' /\ Append(Target(Ctx, Top.n, Op), Op.key) \in Nodes'
    BY <2>3, <2>5, <2>12 DEF Extends, Nodes
  <2> QED BY <1>1, <1>2, <2>1, <2>3, <2>6, <2>10, <2>11, <2>13, OneMade
<1> QED BY <1>5, <1>6

-----------------------------------------------------------------------------
LEMMA NextGen == IInv /\ Generates /\ [Next]_vars => Generates'
<1> SUFFICES ASSUME IInv, Generates, [Next]_vars PROVE Generates'
  OBVIOUS
<1>1. CASE Making
  BY <1>1, MakeHereGen, MakeWrappedGen, MakeOwnGen, MakeAboveGen, RunMadeGen, InjectToGen
     DEF Making
<1>2. CASE Handler /\ ~Making /\ phase = "nodegen"
  BY <1>2, FnCallGen, FoldersGen, MarkGen, LoopsGen, FnReturnGen DEF Handler
<1>3. CASE Walk /\ phase = "nodegen"
  BY <1>3, StartsGen, KidsGen, EndsGen DEF Walk
<1>4. CASE Load \/ NodegenPass
  BY <1>4, LoadGen, NodegenPassGen
<1>5. CASE phase' \in Final
  BY <1>5, GenOver
<1>6. CASE UNCHANGED vars
  BY <1>6 DEF vars, tree, Generates, Unmissed, Ctx, Nodes
<1>7. CASE (Check \/ NextPhase) /\ phase' \notin Final
  <2>1. /\ phase \in {"check"} \cup Emitting /\ phase' \in Emitting
        /\ UNCHANGED <<child_list, pass>>
    BY <1>7 DEF Check, NextPhase, PhaseDone, Throw, Answer, Emitting, Final, tree
  <2> QED BY <2>1 DEF Generates, Emitting, Nodes
<1>8. CASE (Handler \/ Walk) /\ ~Making /\ phase # "nodegen" /\ phase' \notin Final
  <2>1. PICK k \in Kinds : At(k)
    BY <1>8 DEF Handler, Walk, FnCall, WalkOnly, Mark, WalkRest, EnterFolder, LeaveFolder,
                EachProject, FnReturn, AtOp, WalkStart, MonoStart, KidOfWalk, KidOfMono, KidOfEach,
                WalkEnd, MonoEnd, EachEnd, Kinds
  <2>2. phase \in Emitting
    BY <1>8, <2>1, TopWalk
  <2>3. phase' = phase /\ child_list' = child_list /\ pass' = pass
    BY <1>8, <2>2 DEF Handler, Walk, FnCall, WalkOnly, Mark, WalkRest, EnterFolder, LeaveFolder,
                EachProject, FnReturn, WalkStart, MonoStart, KidOfWalk, KidOfMono, KidOfEach,
                WalkEnd, MonoEnd, EachEnd, Throw, Answer, Final, tree
  <2> QED BY <2>2, <2>3 DEF Generates, Emitting, Nodes
<1>9. CASE Finish
  BY <1>9, GenOver DEF Finish, Answer, Final
<1> QED BY <1>1, <1>2, <1>3, <1>4, <1>5, <1>6, <1>7, <1>8, <1>9 DEF Next, Go, Over

(* When the loop `while found_count` of nodegen ends, the nodegen handler  *)
(* of every node has run to its end: of those that a block call, a wrap,   *)
(* a walk_fn or an inject_to of a handler added to what the walk had left  *)
(* as well as of those that the gen files declare.                         *)
THEOREM EverythingGenerated == Spec => []AllGenerated
<1>1. Init => Generates
  BY DEF Init, Generates, Emitting
<1>2. Generates => AllGenerated
  BY DEF Generates, AllGenerated
<1>3. Spec => []Generates
  BY <1>1, IInvAlways, NextGen, PTL DEF Spec
<1> QED BY <1>2, <1>3, PTL
=============================================================================
