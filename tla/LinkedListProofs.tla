-------------------------- MODULE LinkedListProofs --------------------------
(***************************************************************************)
(* Proofs about llist.c for every set of addresses and every set of data:  *)
(* the nodes stay one chain, and the calls do to the data along it what    *)
(* ListOfData says.                                                        *)
(***************************************************************************)
EXTENDS LinkedList, FiniteSetTheorems, WellFoundedInduction, SequenceTheorems, TLAPS

USE NodeAssumption, DatumAssumption
-----------------------------------------------------------------------------
(* Induction up to a bound, as the existence of a least counterexample.    *)

\* Every set of natural numbers that is not empty has a least element: the
\* intervals from 0 to its elements have a least one by inclusion.
LEMMA LeastNat ==
  ASSUME NEW T \in SUBSET Nat, T # {}
  PROVE  \E x \in T : \A y \in T : x <= y
<1> DEFINE Upto == {0 .. n : n \in T}
           R == StrictSubsetOrdering(Nat)
           F == FiniteSubsetsOf(Nat)
<1>1. \A n \in Nat : 0 .. n \in F
  <2> SUFFICES ASSUME NEW n \in Nat PROVE 0 .. n \in F
    OBVIOUS
  <2>1. IsFiniteSet(0 .. n) /\ 0 .. n \in SUBSET Nat
    BY FS_Interval
  <2> QED
    BY <2>1 DEF FiniteSubsetsOf
<1>2. IsWellFoundedOn(R, F)
  BY FS_StrictSubsetOrderingWellFounded
<1>3. PICK B \in Upto : \A C \in Upto : ~(<<C, B>> \in R)
  <2> HIDE DEF F, R
  <2>1. Upto \subseteq F /\ Upto # {}
    BY <1>1
  <2> HIDE DEF Upto
  <2> QED
    BY <1>2, <2>1, WFMin
<1>4. PICK x \in T : B = 0 .. x
  OBVIOUS
<1>5. ASSUME NEW y \in T, y < x PROVE FALSE
  <2>1. 0 .. y \subseteq 0 .. x /\ 0 .. y # 0 .. x
    BY <1>5
  <2>2. <<0 .. y, 0 .. x>> \in R
    BY <2>1 DEF StrictSubsetOrdering
  <2> QED
    BY <1>3, <1>4, <2>2
<1> QED
  BY <1>5

LEMMA UpTo ==
  ASSUME NEW n \in Nat, NEW G, 0 \in G,
         \A m \in 0 .. n - 1 : m \in G => m + 1 \in G
  PROVE  n \in G
<1> DEFINE T == {m \in 0 .. n : m \notin G}
<1> SUFFICES ASSUME n \notin G PROVE FALSE
  OBVIOUS
<1>1. T \in SUBSET Nat /\ n \in T
  OBVIOUS
<1>2. PICK x \in T : \A y \in T : x <= y
  BY <1>1, LeastNat
<1>3. x # 0 /\ x - 1 \in 0 .. n - 1 /\ x - 1 \in 0 .. n /\ x \in Nat
  BY <1>2
<1>4. x - 1 \in G
  BY <1>2, <1>3
<1>5. x - 1 + 1 \in G
  BY <1>3, <1>4
<1> QED
  BY <1>2, <1>3, <1>5

-----------------------------------------------------------------------------
(* Sequences with one element more or less.                                *)

Put(s, k, x) == SubSeq(s, 1, k) \o <<x>> \o SubSeq(s, k + 1, Len(s))
Cut(s, k)    == SubSeq(s, 1, k) \o SubSeq(s, k + 2, Len(s))

LEMMA FrontRight ==
  ASSUME NEW S, NEW s \in Seq(S), NEW k \in 0 .. Len(s)
  PROVE  /\ SubSeq(s, 1, k) \in Seq(S) /\ Len(SubSeq(s, 1, k)) = k
         /\ \A i \in 1 .. k : SubSeq(s, 1, k)[i] = s[i]
         /\ k = 0 <=> SubSeq(s, 1, k) = <<>>
  OBVIOUS

LEMMA BackRight ==
  ASSUME NEW S, NEW s \in Seq(S), NEW k \in 1 .. Len(s) + 1
  PROVE  /\ SubSeq(s, k, Len(s)) \in Seq(S) /\ Len(SubSeq(s, k, Len(s))) = Len(s) - k + 1
         /\ \A i \in 1 .. Len(s) - k + 1 : SubSeq(s, k, Len(s))[i] = s[k + i - 1]
  OBVIOUS

LEMMA PutRight ==
  ASSUME NEW S, NEW s \in Seq(S), NEW k \in 0 .. Len(s), NEW x \in S
  PROVE  /\ Put(s, k, x) \in Seq(S) /\ Len(Put(s, k, x)) = Len(s) + 1
         /\ \A i \in 1 .. Len(s) + 1 :
              Put(s, k, x)[i] = IF i <= k THEN s[i] ELSE IF i = k + 1 THEN x ELSE s[i - 1]
<1> DEFINE front == SubSeq(s, 1, k)
           back  == SubSeq(s, k + 1, Len(s))
           start == front \o <<x>>
<1>1. /\ front \in Seq(S) /\ Len(front) = k
      /\ \A i \in 1 .. k : front[i] = s[i]
  BY FrontRight
<1>2. /\ back \in Seq(S) /\ Len(back) = Len(s) - k
      /\ \A i \in 1 .. Len(s) - k : back[i] = s[k + i]
  <2>1. k + 1 \in 1 .. Len(s) + 1
    OBVIOUS
  <2> QED
    BY <2>1, BackRight
<1> HIDE DEF front, back
<1>3. /\ start \in Seq(S) /\ Len(start) = k + 1
      /\ \A i \in 1 .. k + 1 : start[i] = IF i <= k THEN s[i] ELSE x
  BY <1>1
<1>4. Put(s, k, x) = start \o back
  BY DEF Put, front, back
<1> HIDE DEF start
<1> DEFINE all == start \o back
<1>5. /\ all \in Seq(S) /\ Len(all) = Len(start) + Len(back)
      /\ \A i \in 1 .. Len(start) + Len(back) :
           all[i] = IF i <= Len(start) THEN start[i] ELSE back[i - Len(start)]
  <2>1. start \in Seq(S) /\ back \in Seq(S)
    BY <1>2, <1>3
  <2> QED
    BY <2>1, ConcatProperties
<1>6. Put(s, k, x) = all
  BY <1>4
<1> HIDE DEF all
<1>7. Len(all) = Len(s) + 1 /\ Len(s) \in Nat
  BY <1>2, <1>3, <1>5
<1> DEFINE n == Len(s)
<1>8. /\ n \in Nat /\ k \in 0 .. n /\ Len(start) + Len(back) = n + 1
      /\ \A i \in 1 .. n + 1 : all[i] = IF i <= k + 1 THEN start[i] ELSE back[i - (k + 1)]
      /\ \A i \in 1 .. n - k : back[i] = s[k + i]
  BY <1>2, <1>3, <1>5, <1>7
<1> HIDE DEF n
<1>9. ASSUME NEW i \in 1 .. n + 1
      PROVE  all[i] = IF i <= k THEN s[i] ELSE IF i = k + 1 THEN x ELSE s[i - 1]
  <2>1. CASE i <= k + 1
    BY <1>3, <1>8, <2>1
  <2>2. CASE i > k + 1
    <3>1. all[i] = back[i - (k + 1)] /\ i - (k + 1) \in 1 .. n - k
      BY <1>8, <2>2
    <3>2. back[i - (k + 1)] = s[k + (i - (k + 1))]
      BY <1>8, <3>1
    <3>3. k + (i - (k + 1)) = i - 1
      BY <1>8
    <3> QED
      BY <1>8, <2>2, <3>1, <3>2, <3>3
  <2> QED
    BY <1>8, <2>1, <2>2
<1> QED
  BY <1>5, <1>6, <1>7, <1>9 DEF n

LEMMA CutRight ==
  ASSUME NEW S, NEW s \in Seq(S), NEW k \in 0 .. Len(s) - 1
  PROVE  /\ Cut(s, k) \in Seq(S) /\ Len(Cut(s, k)) = Len(s) - 1
         /\ \A i \in 1 .. Len(s) - 1 : Cut(s, k)[i] = IF i <= k THEN s[i] ELSE s[i + 1]
<1> DEFINE front == SubSeq(s, 1, k)
           back  == SubSeq(s, k + 2, Len(s))
<1>1. /\ front \in Seq(S) /\ Len(front) = k
      /\ \A i \in 1 .. k : front[i] = s[i]
  BY FrontRight
<1>2. /\ back \in Seq(S) /\ Len(back) = Len(s) - k - 1
      /\ \A i \in 1 .. Len(s) - k - 1 : back[i] = s[k + 1 + i]
  <2>1. k + 2 \in 1 .. Len(s) + 1
    OBVIOUS
  <2> QED
    BY <2>1, BackRight
<1> HIDE DEF front, back
<1>3. Cut(s, k) = front \o back
  BY DEF Cut, front, back
<1> QED
  BY <1>1, <1>2, <1>3

\* An element more in front or behind, and one less.
LEMMA PutEnds ==
  ASSUME NEW S, NEW s \in Seq(S), NEW x \in S
  PROVE  Put(s, 0, x) = <<x>> \o s /\ Put(s, Len(s), x) = Append(s, x)
<1> DEFINE Is(k) ==
             /\ Put(s, k, x) \in Seq(S) /\ Len(Put(s, k, x)) = Len(s) + 1
             /\ \A i \in 1 .. Len(s) + 1 :
                  Put(s, k, x)[i] = IF i <= k THEN s[i] ELSE IF i = k + 1 THEN x ELSE s[i - 1]
<1>0. \A k \in 0 .. Len(s) : Is(k)
  BY PutRight
<1>1. Put(s, 0, x) = <<x>> \o s
  <2>1. /\ Put(s, 0, x) \in Seq(S) /\ Len(Put(s, 0, x)) = Len(s) + 1
        /\ \A i \in 1 .. Len(s) + 1 : Put(s, 0, x)[i] = IF i = 1 THEN x ELSE s[i - 1]
    <3>1. Is(0)
      <4> HIDE DEF Is
      <4> QED
        BY <1>0
    <3> QED
      BY <3>1
  <2>2. /\ <<x>> \o s \in Seq(S) /\ Len(<<x>> \o s) = Len(s) + 1
        /\ \A i \in 1 .. Len(s) + 1 : (<<x>> \o s)[i] = IF i = 1 THEN x ELSE s[i - 1]
    OBVIOUS
  <2> QED
    BY <2>1, <2>2, SeqEqual
<1>2. Put(s, Len(s), x) = Append(s, x)
  <2>1. /\ Put(s, Len(s), x) \in Seq(S) /\ Len(Put(s, Len(s), x)) = Len(s) + 1
        /\ \A i \in 1 .. Len(s) + 1 :
             Put(s, Len(s), x)[i] = IF i = Len(s) + 1 THEN x ELSE s[i]
    <3>1. Is(Len(s))
      <4> HIDE DEF Is
      <4> QED
        BY <1>0
    <3> QED
      BY <3>1
  <2>2. /\ Append(s, x) \in Seq(S) /\ Len(Append(s, x)) = Len(s) + 1
        /\ \A i \in 1 .. Len(s) + 1 : Append(s, x)[i] = IF i = Len(s) + 1 THEN x ELSE s[i]
    OBVIOUS
  <2> QED
    BY <2>1, <2>2, SeqEqual
<1> QED
  BY <1>1, <1>2

LEMMA CutEnds ==
  ASSUME NEW S, NEW s \in Seq(S), s # <<>>
  PROVE  /\ Cut(s, 0) = SubSeq(s, 2, Len(s))
         /\ Cut(s, Len(s) - 1) = SubSeq(s, 1, Len(s) - 1)
<1>1. Cut(s, 0) = SubSeq(s, 2, Len(s))
  <2>1. /\ Cut(s, 0) \in Seq(S) /\ Len(Cut(s, 0)) = Len(s) - 1
        /\ \A i \in 1 .. Len(s) - 1 : Cut(s, 0)[i] = s[i + 1]
    BY CutRight
  <2> QED
    BY <2>1, BackRight, SeqEqual
<1>2. Cut(s, Len(s) - 1) = SubSeq(s, 1, Len(s) - 1)
  <2>1. /\ Cut(s, Len(s) - 1) \in Seq(S) /\ Len(Cut(s, Len(s) - 1)) = Len(s) - 1
        /\ \A i \in 1 .. Len(s) - 1 : Cut(s, Len(s) - 1)[i] = s[i]
    BY CutRight
  <2> QED
    BY <2>1, FrontRight, SeqEqual
<1> QED
  BY <1>1, <1>2

-----------------------------------------------------------------------------
(* The chain of nodes, and the walks along it.                             *)

At(c, i) == IF i \in 1 .. Len(c) THEN c[i] ELSE NULL

\* From *list on, the nodes of c follow each other.
Linked(c) ==
  /\ c \in Seq(Node)
  /\ head = At(c, 1)
  /\ \A i \in 1 .. Len(c) : next[c[i]] = At(c, i + 1)

\* They are the allocated nodes, each once.
Chain(c) ==
  /\ Linked(c)
  /\ \A i, j \in 1 .. Len(c) : c[i] = c[j] => i = j
  /\ heap = {c[i] : i \in 1 .. Len(c)}

\* Where a walk goes from the end of a path, and what it makes of the path.
Onward(path) == IF path = <<>> THEN head ELSE next[path[Len(path)]]
Walked(to, passed, limit, path) ==
  IF Len(path) < limit /\ Onward(path) \in passed THEN to[Append(path, Onward(path))]
  ELSE path

LEMMA OnwardRight ==
  ASSUME NEW c, Linked(c), NEW k \in 0 .. Len(c)
  PROVE  /\ Onward(SubSeq(c, 1, k)) = At(c, k + 1)
         /\ Following(SubSeq(c, 1, k)) = At(c, k + 1)
<1>1. /\ SubSeq(c, 1, k) \in Seq(Node) /\ Len(SubSeq(c, 1, k)) = k
      /\ \A i \in 1 .. k : SubSeq(c, 1, k)[i] = c[i]
      /\ k = 0 <=> SubSeq(c, 1, k) = <<>>
  BY FrontRight DEF Linked
<1>2. Onward(SubSeq(c, 1, k)) = At(c, k + 1)
  <2>1. CASE k = 0
    BY <1>1, <2>1 DEF Onward, Linked
  <2>2. CASE k # 0
    <3>1. k \in 1 .. k /\ k \in 1 .. Len(c)
      BY <2>2
    <3> QED
      BY <1>1, <2>2, <3>1 DEF Onward, Linked
  <2> QED
    BY <2>1, <2>2
<1> QED
  BY <1>2 DEF Onward, Following

\* The recursion of a walk defines a function: it ends where the limit is.
LEMMA WalkDefined ==
  ASSUME NEW passed \in SUBSET Node, NEW limit \in Nat
  PROVE  \E to : /\ Walk(passed, limit) = to[<<>>]
                /\ \A path \in Seq(Node) : to[path] = Walked(to, passed, limit, path)
<1> DEFINE Good(g, m) ==
             \A p \in Seq(Node) : Len(p) >= limit - m => g[p] = Walked(g, passed, limit, p)
           G == {m \in 0 .. limit : \E g : Good(g, m)}
<1>1. 0 \in G
  <2> DEFINE g == [p \in Seq(Node) |-> p]
  <2>1. Good(g, 0)
    <3> SUFFICES ASSUME NEW p \in Seq(Node), Len(p) >= limit - 0
                 PROVE  g[p] = Walked(g, passed, limit, p)
      OBVIOUS
    <3>1. ~(Len(p) < limit)
      OBVIOUS
    <3> QED
      BY <3>1 DEF Walked
  <2>2. \E f : Good(f, 0)
    <3> HIDE DEF g
    <3>1. WITNESS g
    <3> QED
      BY <2>1
  <2> QED
    BY <2>2
<1>2. ASSUME NEW m \in 0 .. limit - 1, m \in G PROVE m + 1 \in G
  <2>1. PICK g : Good(g, m)
    BY <1>2
  <2> DEFINE h == [p \in Seq(Node) |-> Walked(g, passed, limit, p)]
  <2>2. ASSUME NEW p \in Seq(Node), Len(p) >= limit - m PROVE h[p] = g[p]
    BY <2>1, <2>2
  <2>3. ASSUME NEW p \in Seq(Node), Len(p) >= limit - (m + 1)
        PROVE  h[p] = Walked(h, passed, limit, p)
    <3>1. CASE Len(p) < limit /\ Onward(p) \in passed
      <4>1. /\ Append(p, Onward(p)) \in Seq(Node)
            /\ Len(Append(p, Onward(p))) >= limit - m
        BY <2>3, <3>1
      <4>2. h[Append(p, Onward(p))] = g[Append(p, Onward(p))]
        BY <2>2, <4>1
      <4> QED
        BY <3>1, <4>2 DEF Walked
    <3>2. CASE ~(Len(p) < limit /\ Onward(p) \in passed)
      BY <3>2 DEF Walked
    <3> QED
      BY <3>1, <3>2
  <2> HIDE DEF h
  <2> QED
    BY <2>3
<1>3. limit \in G
  <2> HIDE DEF G
  <2> QED
    BY <1>1, <1>2, UpTo
<1>4. PICK g : Good(g, limit)
  BY <1>3
<1> DEFINE h == [path \in Seq(Node) |-> g[path]]
<1>5. ASSUME NEW path \in Seq(Node) PROVE g[path] = Walked(h, passed, limit, path)
  <2>1. g[path] = Walked(g, passed, limit, path)
    BY <1>4
  <2>2. Len(path) < limit /\ Onward(path) \in passed =>
          Append(path, Onward(path)) \in Seq(Node)
    OBVIOUS
  <2> QED
    BY <2>1, <2>2 DEF Walked
<1>6. h = [path \in Seq(Node) |-> Walked(h, passed, limit, path)]
  BY <1>5
<1> DEFINE Is(to) == to = [path \in Seq(Node) |-> Walked(to, passed, limit, path)]
           w == CHOOSE to : Is(to)
<1>7. Is(w)
  <2> HIDE DEF h
  <2> QED
    BY <1>6
<1>8. Walk(passed, limit) = w[<<>>]
  BY DEF Walk, Walked, Onward
<1> HIDE DEF w
<1>9. \A path \in Seq(Node) : w[path] = Walked(w, passed, limit, path)
  BY <1>7
<1> QED
  BY <1>8, <1>9

\* Where a walk along a chain ends: at the limit, or in front of a node that
\* is not among passed, or behind the last node.
Stops(c, passed, limit, k) ==
  /\ k \in 0 .. Len(c) /\ k <= limit
  /\ \A i \in 1 .. k : c[i] \in passed
  /\ k = limit \/ At(c, k + 1) \notin passed

LEMMA WalkStops ==
  ASSUME NEW c, Linked(c), NEW passed \in SUBSET Node, NEW limit \in Nat, NEW k,
         Stops(c, passed, limit, k)
  PROVE  Walk(passed, limit) = SubSeq(c, 1, k)
<1> USE DEF Stops
<1>1. PICK to : /\ Walk(passed, limit) = to[<<>>]
                /\ \A path \in Seq(Node) : to[path] = Walked(to, passed, limit, path)
  BY WalkDefined
<1> DEFINE front(j) == SubSeq(c, 1, j)
           G == {m \in 0 .. k : to[front(k - m)] = front(k)}
<1>2. \A j \in 0 .. Len(c) : /\ front(j) \in Seq(Node) /\ Len(front(j)) = j
                             /\ Onward(front(j)) = At(c, j + 1)
  BY FrontRight, OnwardRight DEF Linked
<1>3. \A j \in 0 .. Len(c) - 1 : Append(front(j), c[j + 1]) = front(j + 1)
  BY DEF Linked
<1>4. \A j \in 0 .. Len(c) - 1 : At(c, j + 1) = c[j + 1]
  BY DEF At
<1>5. front(0) = <<>>
  BY FrontRight DEF Linked
<1>6. Len(c) \in Nat
  BY DEF Linked
<1> HIDE DEF front
<1>7. 0 \in G
  <2>1. to[front(k)] = Walked(to, passed, limit, front(k))
    BY <1>1, <1>2
  <2>2. ~(Len(front(k)) < limit /\ Onward(front(k)) \in passed)
    BY <1>2
  <2> QED
    BY <2>1, <2>2 DEF Walked
<1>8. ASSUME NEW m \in 0 .. k - 1, m \in G PROVE m + 1 \in G
  <2> DEFINE j == k - (m + 1)
  <2>1. j \in 0 .. Len(c) - 1 /\ j \in 0 .. Len(c) /\ j + 1 = k - m /\ j < limit /\ j + 1 \in 1 .. k
    BY <1>6
  <2>2. to[front(j + 1)] = front(k)
    BY <1>8, <2>1
  <2>3. m + 1 \in 0 .. k
    OBVIOUS
  <2> HIDE DEF j
  <2>4. to[front(j)] = Walked(to, passed, limit, front(j))
    BY <1>1, <1>2, <2>1
  <2>5. Len(front(j)) < limit /\ Onward(front(j)) = c[j + 1] /\ c[j + 1] \in passed
    BY <1>2, <1>4, <2>1
  <2>6. to[front(j)] = to[front(j + 1)]
    BY <1>3, <2>1, <2>4, <2>5 DEF Walked
  <2>7. to[front(k - (m + 1))] = front(k)
    BY <2>2, <2>6 DEF j
  <2> QED
    BY <2>3, <2>7
<1>9. k \in G
  <2> HIDE DEF G
  <2> QED
    BY <1>7, <1>8, UpTo
<1>10. to[front(k - k)] = front(k) /\ k - k = 0
  BY <1>9
<1>11. to[<<>>] = front(k)
  BY <1>5, <1>10
<1> QED
  BY <1>1, <1>11 DEF front

LEMMA WalkAll ==
  ASSUME NEW limit \in Nat, NEW c, Linked(c), NEW k \in 0 .. Len(c), k <= limit,
         k = limit \/ At(c, k + 1) \notin Node
  PROVE  Walk(Node, limit) = SubSeq(c, 1, k)
<1>1. \A i \in 1 .. k : c[i] \in Node
  BY DEF Linked
<1>2. Stops(c, Node, limit, k)
  BY <1>1 DEF Stops
<1>3. Node \in SUBSET Node
  OBVIOUS
<1> QED
  BY <1>2, <1>3, WalkStops

\* A chain has as many elements as nodes are allocated.
LEMMA ChainSize ==
  ASSUME NEW c, Chain(c)
  PROVE  /\ heap \subseteq Node /\ Len(c) \in Nat
         /\ Cardinality(heap) = Len(c) /\ Len(c) <= Cardinality(Node)
         /\ Cardinality(Node) \in Nat
<1>1. Len(c) \in Nat /\ c \in [1 .. Len(c) -> Node] /\ heap \subseteq Node
  BY DEF Chain, Linked
<1>2. c \in [1 .. Len(c) -> heap]
  BY <1>1 DEF Chain
<1>3. c \in Bijection(1 .. Len(c), heap)
  <2>1. \A i, j \in 1 .. Len(c) : c[i] = c[j] => i = j
    BY DEF Chain
  <2>2. \A t \in heap : \E i \in 1 .. Len(c) : c[i] = t
    BY DEF Chain
  <2> DEFINE D == 1 .. Len(c)
  <2>0. c \in [D -> heap] /\ (\A i, j \in D : c[i] = c[j] => i = j)
        /\ \A t \in heap : \E i \in D : c[i] = t
    BY <1>2, <2>1, <2>2
  <2> HIDE DEF D
  <2>5. c \in Injection(D, heap)
    BY <2>0 DEF Injection, IsInjective
  <2>6. c \in Surjection(D, heap)
    BY <2>0 DEF Surjection
  <2>3. c \in Injection(1 .. Len(c), heap)
    BY <2>5 DEF D
  <2>4. c \in Surjection(1 .. Len(c), heap)
    BY <2>6 DEF D
  <2> QED
    BY <2>3, <2>4 DEF Bijection
<1>4. IsFiniteSet(1 .. Len(c)) /\ Cardinality(1 .. Len(c)) = Len(c)
  BY <1>1, FS_Interval
<1>5. ExistsBijection(1 .. Len(c), heap)
  BY <1>3 DEF ExistsBijection
<1>6. Cardinality(heap) = Len(c)
  BY <1>4, <1>5, FS_Bijection
<1>7. Cardinality(heap) <= Cardinality(Node)
  BY <1>1, FS_Subset
<1>8. Cardinality(Node) \in Nat
  BY FS_CardinalityType
<1> QED
  BY <1>1, <1>6, <1>7, <1>8

\* The walk through all nodes is the chain, and a walk of so many nodes is
\* that much of it.
LEMMA WholeRight ==
  ASSUME NEW c
  PROVE  Chain(c) => Whole = c
<1> SUFFICES ASSUME Chain(c) PROVE Whole = c
  OBVIOUS
<1>1. Len(c) \in Nat /\ Len(c) <= Cardinality(Node) /\ Cardinality(Node) \in Nat
  BY ChainSize
<1>2. Linked(c) /\ Len(c) \in 0 .. Len(c) /\ At(c, Len(c) + 1) \notin Node
  BY <1>1 DEF Chain, At
<1>4. Walk(Node, Cardinality(Node)) = SubSeq(c, 1, Len(c))
  BY <1>1, <1>2, WalkAll
<1>5. SubSeq(c, 1, Len(c)) = c
  BY <1>2 DEF Linked
<1> QED
  BY <1>4, <1>5 DEF Whole

LEMMA PositionRight ==
  ASSUME NEW c, Chain(c), NEW n \in Nat
  PROVE  Walk(Node, n) = SubSeq(c, 1, IF n < Len(c) THEN n ELSE Len(c))
<1> DEFINE k == IF n < Len(c) THEN n ELSE Len(c)
<1>1. Len(c) \in Nat /\ Linked(c)
  BY DEF Chain, Linked
<1>2. k \in 0 .. Len(c) /\ k <= n
  BY <1>1
<1>4. k = n \/ At(c, k + 1) \notin Node
  BY <1>1 DEF At
<1> HIDE DEF k
<1>5. Walk(Node, n) = SubSeq(c, 1, k)
  BY <1>1, <1>2, <1>4, WalkAll
<1> QED
  BY <1>5 DEF k

-----------------------------------------------------------------------------
(* What the calls do to the chain, and to the data along it.               *)

Along(c) == [i \in 1 .. Len(c) |-> data[c[i]]]

DataOK == data \in [Node -> Datum \cup {NULL}] /\ next \in [Node -> Node \cup {NULL}]

LEMMA AlongRight ==
  ASSUME DataOK, NEW c \in Seq(Node)
  PROVE  Along(c) \in Seq(Datum \cup {NULL}) /\ Len(Along(c)) = Len(c)
<1>1. /\ Len(c) \in Nat
      /\ \A i \in 1 .. Len(c) : data[c[i]] \in Datum \cup {NULL}
  BY DEF DataOK
<1> QED
  BY <1>1 DEF Along

\* A node that was not allocated is put into the chain where it is linked.
LEMMA Inserted ==
  ASSUME DataOK, NEW c, Chain(c), NEW k \in 0 .. Len(c), NEW d \in Datum,
         Insert(SubSeq(c, 1, k), d)
  PROVE  \E n \in Node : /\ Chain(Put(c, k, n))' /\ DataOK'
                         /\ Along(Put(c, k, n))' = Put(Along(c), k, d)
<1> DEFINE path == SubSeq(c, 1, k)
<1>1. PICK n \in Node \ heap :
        /\ heap' = heap \cup {n}
        /\ data' = [data EXCEPT ![n] = d]
        /\ IF path = <<>> THEN head' = n /\ next' = [next EXCEPT ![n] = head]
           ELSE /\ next' = [next EXCEPT ![n] = Following(path), ![path[Len(path)]] = n]
                /\ UNCHANGED head
  BY DEF Insert
<1>2. /\ c \in Seq(Node) /\ Len(c) \in Nat /\ head = At(c, 1)
      /\ \A i \in 1 .. Len(c) : c[i] \in Node /\ c[i] # n /\ next[c[i]] = At(c, i + 1)
      /\ \A i, j \in 1 .. Len(c) : c[i] = c[j] => i = j
      /\ heap = {c[i] : i \in 1 .. Len(c)}
  BY <1>1 DEF Chain, Linked
<1>3. /\ Following(path) = At(c, k + 1) /\ Len(path) = k
      /\ k = 0 <=> path = <<>>
      /\ k # 0 => path[Len(path)] = c[k]
  <2>1. Following(path) = At(c, k + 1)
    BY OnwardRight DEF Chain
  <2>2. /\ Len(path) = k /\ \A i \in 1 .. k : path[i] = c[i]
        /\ k = 0 <=> path = <<>>
    BY <1>2, FrontRight
  <2> QED
    BY <2>1, <2>2
<1> HIDE DEF path
<1> DEFINE b == Put(c, k, n)
           m == Len(c)
<1>4. /\ b \in Seq(Node) /\ Len(b) = Len(c) + 1
      /\ \A i \in 1 .. Len(c) + 1 :
           b[i] = IF i <= k THEN c[i] ELSE IF i = k + 1 THEN n ELSE c[i - 1]
  BY <1>1, <1>2, PutRight
<1>5. /\ m \in Nat /\ k \in 0 .. m /\ c \in Seq(Node) /\ Len(c) = m /\ head = At(c, 1)
      /\ \A i \in 1 .. m : c[i] \in Node /\ c[i] # n /\ next[c[i]] = At(c, i + 1)
      /\ \A i, j \in 1 .. m : c[i] = c[j] => i = j
      /\ heap = {c[i] : i \in 1 .. m}
  BY <1>2
<1>6. /\ b \in Seq(Node) /\ Len(b) = m + 1
      /\ \A i \in 1 .. m + 1 : i <= k => b[i] = c[i]
      /\ \A i \in 1 .. m + 1 : i = k + 1 => b[i] = n
      /\ \A i \in 1 .. m + 1 : i > k + 1 => b[i] = c[i - 1]
  <2> HIDE DEF b
  <2> QED
    BY <1>4, <1>5
<1> HIDE DEF b, m
<1>7. m \in Nat /\ k \in Nat /\ k <= m /\ Len(b) = m + 1
  BY <1>5, <1>6
<1>8. next' \in [Node -> Node \cup {NULL}] /\ DataOK'
  <2>1. head \in Node \cup {NULL} /\ Following(path) \in Node \cup {NULL}
    BY <1>5, <1>3 DEF At
  <2> QED
    BY <1>1, <2>1 DEF DataOK
<1>9. /\ next'[n] = At(c, k + 1)
      /\ k # 0 => next'[c[k]] = n
      /\ \A i \in 1 .. m : i # k => next'[c[i]] = At(c, i + 1)
      /\ head' = IF k = 0 THEN n ELSE At(c, 1)
  <2>1. CASE k = 0
    BY <1>1, <1>5, <1>3, <2>1 DEF DataOK
  <2>2. CASE k # 0
    <3>1. next' = [next EXCEPT ![n] = At(c, k + 1), ![c[k]] = n] /\ head' = head
      BY <1>1, <1>3, <2>2
    <3>2. k \in 1 .. m
      BY <1>5, <2>2
    <3> QED
      BY <1>1, <1>5, <2>2, <3>1, <3>2 DEF DataOK
  <2> QED
    BY <2>1, <2>2
<1>10. \A i \in 1 .. Len(b) + 1 :
        At(b, i) = IF i <= k THEN c[i] ELSE IF i = k + 1 THEN n ELSE At(c, i - 1)
  BY <1>5, <1>6 DEF At
<1>11. Linked(b)'
  <2>1. head' = At(b, 1)
    BY <1>5, <1>6, <1>9, <1>10 DEF At
  <2>2. ASSUME NEW i \in 1 .. Len(b) PROVE next'[b[i]] = At(b, i + 1)
    <3>1. CASE i < k
      <4>1. b[i] = c[i] /\ At(b, i + 1) = c[i + 1] /\ At(c, i + 1) = c[i + 1]
        BY <1>5, <1>6, <1>10, <3>1 DEF At
      <4> QED
        BY <1>5, <1>6, <1>9, <3>1, <4>1
    <3>2. CASE i = k
      BY <1>5, <1>6, <1>9, <1>10, <3>2
    <3>3. CASE i = k + 1
      BY <1>5, <1>6, <1>9, <1>10, <3>3
    <3>4. CASE i > k + 1
      <4>1. i \in 1 .. m + 1 /\ i - 1 \in 1 .. m /\ i - 1 # k /\ i + 1 \in 1 .. Len(b) + 1
            /\ i + 1 - 1 = i /\ i - 1 + 1 = i
        BY <1>7, <3>4
      <4>2. b[i] = c[i - 1]
        BY <1>6, <3>4, <4>1
      <4>3. At(b, i + 1) = At(c, i)
        BY <1>7, <1>10, <3>4, <4>1
      <4> QED
        BY <1>9, <4>1, <4>2, <4>3
    <3> QED
      BY <1>5, <1>6, <3>1, <3>2, <3>3, <3>4
  <2> QED
    BY <1>6, <2>1, <2>2 DEF Linked, At
<1>12. \A i, j \in 1 .. Len(b) : b[i] = b[j] => i = j
  <2> DEFINE from(i) == IF i <= k THEN i ELSE i - 1
  <2>0. Len(b) = m + 1 /\ k + 1 \in 1 .. m + 1
    BY <1>7
  <2>1. ASSUME NEW i \in 1 .. m + 1, i # k + 1
        PROVE  b[i] = c[from(i)] /\ from(i) \in 1 .. m /\ b[i] # n
    <3>1. CASE i <= k
      <4>1. b[i] = c[i] /\ from(i) = i /\ i \in 1 .. m
        BY <1>6, <1>7, <3>1
      <4> QED
        BY <1>5, <4>1
    <3>2. CASE i > k + 1
      <4>1. b[i] = c[i - 1] /\ from(i) = i - 1 /\ i - 1 \in 1 .. m
        BY <1>6, <1>7, <3>2
      <4> QED
        BY <1>5, <4>1
    <3> QED
      BY <1>7, <2>1, <3>1, <3>2
  <2>2. \A i \in 1 .. m + 1 : i = k + 1 => b[i] = n
    BY <1>6
  <2>3. ASSUME NEW i \in 1 .. m + 1, NEW j \in 1 .. m + 1, i # k + 1, j # k + 1,
               from(i) = from(j)
        PROVE  i = j
    BY <1>7, <2>3
  <2> HIDE DEF from
  <2>4. ASSUME NEW i \in 1 .. m + 1, NEW j \in 1 .. m + 1, b[i] = b[j] PROVE i = j
    <3>1. CASE i = k + 1 \/ j = k + 1
      BY <2>1, <2>2, <2>4, <3>1
    <3>2. CASE i # k + 1 /\ j # k + 1
      <4>1. c[from(i)] = c[from(j)] /\ from(i) \in 1 .. m /\ from(j) \in 1 .. m
        BY <2>1, <2>4, <3>2
      <4>2. from(i) = from(j)
        BY <1>5, <4>1
      <4> QED
        BY <2>3, <3>2, <4>2
    <3> QED
      BY <3>1, <3>2
  <2> QED
    BY <2>0, <2>4
<1>13. heap' = {b[i] : i \in 1 .. Len(b)}
  <2>1. ASSUME NEW x \in heap' PROVE \E i \in 1 .. Len(b) : b[i] = x
    <3>1. CASE x = n
      BY <1>5, <1>6, <3>1
    <3>2. CASE x # n
      <4>1. PICK i \in 1 .. m : x = c[i]
        BY <1>1, <1>5, <3>2
      <4>2. CASE i <= k
        <5>1. i \in 1 .. m + 1 /\ i \in 1 .. Len(b)
          BY <1>5, <1>6, <4>2
        <5>2. b[i] = c[i]
          BY <1>6, <4>2, <5>1
        <5> QED
          BY <4>1, <5>1, <5>2
      <4>3. CASE i > k
        <5>1. i + 1 \in 1 .. Len(b) /\ b[i + 1] = c[i + 1 - 1] /\ i + 1 - 1 = i
          BY <1>5, <1>6, <4>3
        <5> QED
          BY <4>1, <5>1
      <4> QED
        BY <4>2, <4>3
    <3> QED
      BY <3>1, <3>2
  <2>2. ASSUME NEW i \in 1 .. Len(b) PROVE b[i] \in heap'
    <3>1. CASE i = k + 1
      BY <1>1, <1>6, <3>1
    <3>2. CASE i <= k
      BY <1>1, <1>5, <1>6, <3>2
    <3>3. CASE i > k + 1
      <4>1. i - 1 \in 1 .. m /\ b[i] = c[i - 1]
        BY <1>5, <1>6, <3>3
      <4> QED
        BY <1>1, <1>5, <4>1
    <3> QED
      BY <1>5, <1>6, <3>1, <3>2, <3>3
  <2> QED
    BY <2>1, <2>2
<1>14. Chain(b)'
  BY <1>11, <1>12, <1>13 DEF Chain
<1>15. Along(b)' = Put(Along(c), k, d)
  <2> DEFINE e == Along(c)
             a == Along(b)'
             p == Put(e, k, d)
  <2>1. /\ e \in Seq(Datum \cup {NULL}) /\ Len(e) = m
        /\ \A i \in 1 .. m : e[i] = data[c[i]]
    BY <1>5, AlongRight DEF Along
  <2>2. /\ a \in Seq(Datum \cup {NULL}) /\ Len(a) = m + 1
        /\ \A i \in 1 .. m + 1 : a[i] = data'[b[i]]
    <3>1. \A i \in 1 .. Len(b) : data'[b[i]] \in Datum \cup {NULL}
      BY <1>6, <1>8 DEF DataOK
    <3>2. a = [i \in 1 .. Len(b) |-> data'[b[i]]]
      BY DEF Along
    <3> HIDE DEF a
    <3> QED
      BY <1>5, <1>6, <3>1, <3>2
  <2> HIDE DEF e
  <2>3. /\ p \in Seq(Datum \cup {NULL}) /\ Len(p) = Len(e) + 1
        /\ \A i \in 1 .. Len(e) + 1 :
             p[i] = IF i <= k THEN e[i] ELSE IF i = k + 1 THEN d ELSE e[i - 1]
    <3> DEFINE D == Datum \cup {NULL}
    <3>1. e \in Seq(D) /\ k \in 0 .. Len(e) /\ d \in D
      BY <1>5, <2>1
    <3>2. /\ p \in Seq(D) /\ Len(p) = Len(e) + 1
          /\ \A i \in 1 .. Len(e) + 1 :
               p[i] = IF i <= k THEN e[i] ELSE IF i = k + 1 THEN d ELSE e[i - 1]
      <4> HIDE DEF D
      <4> QED
        BY <3>1, PutRight
    <3> QED
      BY <3>2
  <2> HIDE DEF a, p
  <2>4. ASSUME NEW i \in 1 .. m + 1 PROVE a[i] = p[i]
    <3>1. CASE i <= k
      <4>1. b[i] = c[i]
        BY <1>6, <3>1
      <4>2. i \in 1 .. m
        BY <1>7, <3>1
      <4> QED
        BY <1>1, <1>5, <2>1, <2>2, <2>3, <3>1, <4>1, <4>2 DEF DataOK
    <3>2. CASE i = k + 1
      <4>1. b[i] = n
        BY <1>5, <1>6, <3>2
      <4> QED
        BY <1>1, <1>5, <2>1, <2>2, <2>3, <3>2, <4>1 DEF DataOK
    <3>3. CASE i > k + 1
      <4>1. b[i] = c[i - 1] /\ i - 1 \in 1 .. m /\ c[i - 1] # n
        BY <1>5, <1>6, <3>3
      <4>2. p[i] = e[i - 1] /\ e[i - 1] = data[c[i - 1]]
        BY <1>5, <2>1, <2>3, <3>3, <4>1
      <4> QED
        BY <1>1, <1>5, <2>2, <4>1, <4>2 DEF DataOK
    <3> QED
      BY <3>1, <3>2, <3>3
  <2>5. a = p
    BY <2>1, <2>2, <2>3, <2>4, SeqEqual
  <2> QED
    BY <2>5 DEF a, p, e
<1> QED
  BY <1>8, <1>14, <1>15 DEF b

\* The node behind a part of the chain is taken out of it.
LEMMA Removed ==
  ASSUME DataOK, NEW c, Chain(c), NEW k \in 0 .. Len(c) - 1, Remove(SubSeq(c, 1, k))
  PROVE  /\ Chain(Cut(c, k))' /\ DataOK'
         /\ Along(Cut(c, k))' = Cut(Along(c), k)
<1> DEFINE path == SubSeq(c, 1, k)
           m == Len(c)
           n == c[k + 1]
           b == Cut(c, k)
<1>1. /\ m \in Nat /\ k \in Nat /\ k + 1 <= m /\ c \in Seq(Node) /\ Len(c) = m
      /\ head = At(c, 1)
      /\ \A i \in 1 .. m : c[i] \in Node /\ next[c[i]] = At(c, i + 1)
      /\ \A i, j \in 1 .. m : c[i] = c[j] => i = j
      /\ heap = {c[i] : i \in 1 .. m}
  BY DEF Chain, Linked
<1>2. /\ Following(path) = n /\ n \in Node
      /\ \A i \in 1 .. m : i # k + 1 => c[i] # n
      /\ k = 0 <=> path = <<>>
      /\ k # 0 => path[Len(path)] = c[k]
  <2>1. k \in 0 .. Len(c) /\ k + 1 \in 1 .. Len(c)
    BY <1>1
  <2>2. Following(path) = At(c, k + 1)
    BY <2>1, OnwardRight DEF Chain
  <2>3. At(c, k + 1) = n
    BY <2>1 DEF At
  <2>4. /\ Len(path) = k /\ \A i \in 1 .. k : path[i] = c[i]
        /\ k = 0 <=> path = <<>>
    <3>1. c \in Seq(Node)
      BY <1>1
    <3> HIDE DEF m, n, b
    <3> QED
      BY <2>1, <3>1, FrontRight
  <2>5. n \in Node /\ \A i \in 1 .. m : i # k + 1 => c[i] # n
    BY <1>1, <2>1
  <2>6. k # 0 => path[Len(path)] = c[k]
    <3> HIDE DEF path
    <3> QED
      BY <1>1, <2>4
  <2> HIDE DEF path, m, n
  <2> QED
    BY <2>2, <2>3, <2>4, <2>5, <2>6
<1>3. /\ b \in Seq(Node) /\ Len(b) = m - 1
      /\ \A i \in 1 .. m - 1 : i <= k => b[i] = c[i]
      /\ \A i \in 1 .. m - 1 : i > k => b[i] = c[i + 1]
  <2>1. /\ b \in Seq(Node) /\ Len(b) = Len(c) - 1
        /\ \A i \in 1 .. Len(c) - 1 : b[i] = IF i <= k THEN c[i] ELSE c[i + 1]
    BY <1>1, CutRight
  <2> HIDE DEF b
  <2> QED
    BY <1>1, <2>1
<1> HIDE DEF path, m, n, b
<1>4. /\ heap' = heap \ {n} /\ data' = [data EXCEPT ![n] = NULL]
      /\ k = 0 => head' = next[n] /\ next' = [next EXCEPT ![n] = NULL]
      /\ k # 0 => head' = head /\ next' = [next EXCEPT ![c[k]] = next[n], ![n] = NULL]
  <2>1. Remove(path)
    BY DEF path
  <2> QED
    BY <1>2, <2>1 DEF Remove, Unlink
<1>5. next[n] = At(c, k + 2)
  <2>1. k + 1 \in 1 .. m /\ k + 1 + 1 = k + 2
    BY <1>1
  <2> QED
    BY <1>1, <2>1 DEF n
<1>6. /\ k # 0 => next'[c[k]] = At(c, k + 2)
      /\ \A i \in 1 .. m : i # k /\ i # k + 1 => next'[c[i]] = At(c, i + 1)
      /\ head' = IF k = 0 THEN At(c, 2) ELSE At(c, 1)
      /\ DataOK'
  <2>1. At(c, k + 2) \in Node \cup {NULL}
    BY <1>1 DEF At
  <2>2. CASE k = 0
    <3>1. next' = [next EXCEPT ![n] = NULL] /\ head' = At(c, 2)
      BY <1>4, <1>5, <2>2
    <3> QED
      BY <1>1, <1>2, <1>4, <2>2, <3>1 DEF DataOK
  <2>3. CASE k # 0
    <3>1. next' = [next EXCEPT ![c[k]] = At(c, k + 2), ![n] = NULL] /\ head' = head
      BY <1>4, <1>5, <2>3
    <3>2. k \in 1 .. m /\ k # k + 1
      BY <1>1, <2>3
    <3> QED
      BY <1>1, <1>2, <1>4, <2>1, <2>3, <3>1, <3>2 DEF DataOK
  <2> QED
    BY <2>2, <2>3
<1>7. \A i \in 1 .. m : At(b, i) = IF i <= k THEN At(c, i) ELSE At(c, i + 1)
  <2> SUFFICES ASSUME NEW i \in 1 .. m
               PROVE  At(b, i) = IF i <= k THEN At(c, i) ELSE At(c, i + 1)
    OBVIOUS
  <2>1. CASE i <= k
    <3>1. i \in 1 .. m - 1
      BY <1>1, <2>1
    <3> QED
      BY <1>1, <1>3, <2>1, <3>1 DEF At
  <2>2. CASE i > k /\ i < m
    <3>1. i \in 1 .. m - 1 /\ i + 1 \in 1 .. m /\ ~(i <= k)
      BY <1>1, <2>2
    <3> QED
      BY <1>1, <1>3, <2>2, <3>1 DEF At
  <2>3. CASE i = m
    BY <1>1, <1>3, <2>3 DEF At
  <2> QED
    BY <1>1, <2>1, <2>2, <2>3
<1>8. Linked(b)'
  <2>1. head' = At(b, 1)
    BY <1>1, <1>6, <1>7
  <2>2. ASSUME NEW i \in 1 .. Len(b) PROVE next'[b[i]] = At(b, i + 1)
    <3>1. i \in 1 .. m - 1 /\ i \in 1 .. m /\ i + 1 \in 1 .. m
      BY <1>1, <1>3
    <3>2. CASE i < k
      <4>1. b[i] = c[i] /\ At(b, i + 1) = At(c, i + 1) /\ i # k /\ i # k + 1
        BY <1>1, <1>3, <1>7, <3>1, <3>2
      <4> QED
        BY <1>6, <3>1, <4>1
    <3>3. CASE i = k
      <4>1. b[i] = c[k] /\ k # 0
        BY <1>3, <3>1, <3>3
      <4>2. At(b, i + 1) = At(c, k + 2)
        <5>1. i + 1 + 1 = k + 2 /\ ~(i + 1 <= k)
          BY <1>1, <3>3
        <5>2. At(b, i + 1) = At(c, i + 1 + 1)
          BY <1>7, <3>1, <5>1
        <5> QED
          BY <5>1, <5>2
      <4> QED
        BY <1>6, <4>1, <4>2
    <3>4. CASE i > k
      <4>1. b[i] = c[i + 1] /\ i + 1 # k /\ i + 1 # k + 1
        BY <1>1, <1>3, <3>1, <3>4
      <4>2. At(b, i + 1) = At(c, i + 1 + 1)
        BY <1>1, <1>7, <3>1, <3>4
      <4> QED
        BY <1>6, <3>1, <4>1, <4>2
    <3> QED
      BY <1>1, <3>1, <3>2, <3>3, <3>4
  <2> QED
    BY <1>3, <2>1, <2>2 DEF Linked, At
<1> DEFINE from(i) == IF i <= k THEN i ELSE i + 1
<1>9. /\ \A i \in 1 .. Len(b) : b[i] = c[from(i)] /\ from(i) \in 1 .. m /\ from(i) # k + 1
      /\ \A i, j \in 1 .. Len(b) : from(i) = from(j) => i = j
      /\ \A j \in 1 .. m : j # k + 1 => \E i \in 1 .. Len(b) : from(i) = j
  <2>1. \A i \in 1 .. Len(b) : b[i] = c[from(i)] /\ from(i) \in 1 .. m /\ from(i) # k + 1
    BY <1>1, <1>3
  <2>2. ASSUME NEW i \in 1 .. Len(b), NEW j \in 1 .. Len(b), from(i) = from(j) PROVE i = j
    <3>1. i \in Int /\ j \in Int /\ k \in Int
      BY <1>1, <1>3
    <3> QED
      BY <2>2, <3>1
  <2>3. ASSUME NEW j \in 1 .. m, j # k + 1 PROVE \E i \in 1 .. Len(b) : from(i) = j
    <3>1. CASE j <= k
      <4>1. j \in 1 .. Len(b) /\ from(j) = j
        BY <1>1, <1>3, <3>1
      <4> QED
        BY <4>1
    <3>2. CASE j > k
      <4>1. /\ j - 1 \in 1 .. Len(b) /\ ~(j - 1 <= k) /\ (j - 1) + 1 = j
            /\ from(j - 1) = IF j - 1 <= k THEN j - 1 ELSE (j - 1) + 1
        BY <1>1, <1>3, <2>3, <3>2
      <4> QED
        BY <4>1
    <3> QED
      BY <1>1, <3>1, <3>2
  <2> QED
    BY <2>1, <2>2, <2>3
<1> HIDE DEF from
<1>10. \A i, j \in 1 .. Len(b) : b[i] = b[j] => i = j
  <2> SUFFICES ASSUME NEW i \in 1 .. Len(b), NEW j \in 1 .. Len(b), b[i] = b[j]
               PROVE  from(i) = from(j)
    BY <1>9
  <2>1. c[from(i)] = c[from(j)] /\ from(i) \in 1 .. m /\ from(j) \in 1 .. m
    BY <1>9
  <2> QED
    BY <1>1, <2>1
<1>11. heap' = {b[i] : i \in 1 .. Len(b)}
  <2>1. ASSUME NEW x \in heap' PROVE \E i \in 1 .. Len(b) : b[i] = x
    <3>1. PICK j \in 1 .. m : x = c[j]
      BY <1>1, <1>4
    <3>2. j # k + 1
      BY <1>4, <3>1 DEF n
    <3> QED
      BY <1>9, <3>1, <3>2
  <2>2. ASSUME NEW i \in 1 .. Len(b) PROVE b[i] \in heap'
    BY <1>1, <1>2, <1>4, <1>9
  <2> QED
    BY <2>1, <2>2
<1>12. Chain(b)'
  BY <1>8, <1>10, <1>11 DEF Chain
<1>13. Along(b)' = Cut(Along(c), k)
  <2> DEFINE D == Datum \cup {NULL}
             e == Along(c)
             a == Along(b)'
             p == Cut(e, k)
  <2>1. /\ e \in Seq(D) /\ Len(e) = m
        /\ \A i \in 1 .. m : e[i] = data[c[i]]
    BY <1>1, AlongRight DEF Along
  <2>2. /\ a \in Seq(D) /\ Len(a) = m - 1
        /\ \A i \in 1 .. m - 1 : a[i] = data'[b[i]]
    <3>1. \A i \in 1 .. Len(b) : data'[b[i]] \in D
      BY <1>3, <1>6 DEF DataOK
    <3>2. a = [i \in 1 .. Len(b) |-> data'[b[i]]]
      BY DEF Along
    <3> HIDE DEF a, D
    <3> QED
      BY <1>1, <1>3, <3>1, <3>2
  <2> HIDE DEF e, D
  <2>3. /\ p \in Seq(D) /\ Len(p) = Len(e) - 1
        /\ \A i \in 1 .. Len(e) - 1 : p[i] = IF i <= k THEN e[i] ELSE e[i + 1]
    <3>1. k \in 0 .. Len(e) - 1
      BY <1>1, <2>1
    <3> QED
      BY <2>1, <3>1, CutRight
  <2> HIDE DEF a, p
  <2>4. ASSUME NEW i \in 1 .. m - 1 PROVE a[i] = p[i]
    <3>1. from(i) \in 1 .. m /\ c[from(i)] # n /\ b[i] = c[from(i)]
      BY <1>2, <1>3, <1>9
    <3>2. a[i] = data[c[from(i)]]
      BY <1>1, <1>4, <2>2, <3>1 DEF DataOK
    <3>3. p[i] = e[from(i)]
      BY <2>1, <2>3 DEF from
    <3> QED
      BY <2>1, <3>1, <3>2, <3>3
  <2>5. a = p
    BY <1>1, <2>1, <2>2, <2>3, <2>4, SeqEqual
  <2> QED
    BY <2>5 DEF a, p, e
<1> QED
  BY <1>6, <1>12, <1>13 DEF b

\* The nodes stay as they are.
LEMMA Kept ==
  ASSUME DataOK, NEW c, Chain(c), Unchanged
  PROVE  Chain(c)' /\ DataOK' /\ Along(c)' = Along(c)
<1>1. Chain(c)' /\ DataOK'
  BY DEF Unchanged, Chain, Linked, DataOK
<1>2. Along(c)' = Along(c)
  BY DEF Unchanged, Along
<1> QED
  BY <1>1, <1>2

\* The first node, and the first datum.
LEMMA FirstRight ==
  ASSUME DataOK, NEW c, Chain(c)
  PROVE  /\ head = NULL <=> Along(c) = <<>>
         /\ head # NULL => /\ c # <<>> /\ Len(c) \in Nat \ {0} /\ head = c[1] /\ head \in Node
                           /\ Along(c)[1] = data[head]
<1>1. /\ c \in Seq(Node) /\ Len(c) \in Nat /\ head = At(c, 1)
      /\ \A i \in 1 .. Len(c) : c[i] \in Node
  BY DEF Chain, Linked
<1>2. Along(c) \in Seq(Datum \cup {NULL}) /\ Len(Along(c)) = Len(c)
  BY <1>1, AlongRight
<1>3. head = NULL <=> Len(c) = 0
  BY <1>1 DEF At
<1>4. Along(c) = <<>> <=> Len(c) = 0
  BY <1>2
<1>5. ASSUME head # NULL
      PROVE  /\ c # <<>> /\ Len(c) \in Nat \ {0} /\ head = c[1] /\ head \in Node
             /\ Along(c)[1] = data[head]
  <2>1. Len(c) \in Nat \ {0} /\ 1 \in 1 .. Len(c)
    BY <1>1, <1>3, <1>5
  <2>2. head = c[1] /\ head \in Node /\ c # <<>>
    BY <1>1, <2>1 DEF At
  <2>3. Along(c)[1] = data[c[1]]
    BY <2>1 DEF Along
  <2> QED
    BY <2>1, <2>2, <2>3
<1> QED
  BY <1>3, <1>4, <1>5

\* An empty first node is filled.
LEMMA Filled ==
  ASSUME DataOK, NEW c, Chain(c), head # NULL, NEW d \in Datum, FillHead(d)
  PROVE  /\ Chain(c)' /\ DataOK'
         /\ Along(c)' = <<d>> \o SubSeq(Along(c), 2, Len(Along(c)))
<1>1. /\ c \in Seq(Node) /\ Len(c) \in Nat \ {0} /\ head = c[1] /\ head \in Node
      /\ \A i, j \in 1 .. Len(c) : c[i] = c[j] => i = j
      /\ \A i \in 1 .. Len(c) : c[i] \in Node
  BY FirstRight DEF Chain, Linked
<1>2. data' = [data EXCEPT ![head] = d]
  BY DEF FillHead
<1>3. Chain(c)' /\ DataOK'
  <2>1. head' = head /\ next' = next /\ heap' = heap
    BY DEF FillHead
  <2> QED
    BY <1>1, <1>2, <2>1 DEF Chain, Linked, DataOK
<1>4. Along(c)' = <<d>> \o SubSeq(Along(c), 2, Len(Along(c)))
  <2> DEFINE D == Datum \cup {NULL}
             m == Len(c)
             e == Along(c)
             a == Along(c)'
             back == SubSeq(e, 2, Len(e))
             p == <<d>> \o back
  <2>1. /\ e \in Seq(D) /\ Len(e) = m
        /\ \A i \in 1 .. m : e[i] = data[c[i]]
    BY <1>1, AlongRight DEF Along
  <2>2. /\ a \in Seq(D) /\ Len(a) = m
        /\ \A i \in 1 .. m : a[i] = data'[c[i]]
    <3>1. \A i \in 1 .. m : data'[c[i]] \in D
      BY <1>1, <1>3 DEF DataOK
    <3>2. a = [i \in 1 .. m |-> data'[c[i]]]
      BY DEF Along
    <3> HIDE DEF a, D
    <3> QED
      BY <1>1, <3>1, <3>2
  <2>3. d \in D /\ m \in Nat \ {0}
    BY <1>1
  <2> HIDE DEF e, D, m
  <2>4. /\ back \in Seq(D) /\ Len(back) = m - 1
        /\ \A i \in 1 .. m - 1 : back[i] = e[2 + i - 1]
    <3>1. 2 \in 1 .. Len(e) + 1
      BY <2>1, <2>3
    <3> QED
      BY <2>1, <2>3, <3>1, BackRight
  <2> HIDE DEF back
  <2>5. /\ p \in Seq(D) /\ Len(p) = m /\ p[1] = d
        /\ \A i \in 2 .. m : p[i] = back[i - 1]
    BY <2>3, <2>4
  <2> HIDE DEF a, p
  <2>6. ASSUME NEW i \in 1 .. m PROVE a[i] = p[i]
    <3>1. CASE i = 1
      BY <1>1, <1>2, <2>2, <2>3, <2>5, <3>1 DEF DataOK
    <3>2. CASE i # 1
      <4>1. i \in 2 .. m /\ i - 1 \in 1 .. m - 1 /\ 2 + (i - 1) - 1 = i /\ 1 \in 1 .. m
        BY <2>3, <3>2
      <4>2. p[i] = e[i]
        BY <2>4, <2>5, <4>1
      <4>3. c[i] # c[1]
        BY <1>1, <3>2, <4>1 DEF m
      <4> QED
        BY <1>1, <1>2, <2>1, <2>2, <4>2, <4>3 DEF DataOK, m
    <3> QED
      BY <3>1, <3>2
  <2>7. a = p
    BY <2>2, <2>3, <2>5, <2>6, SeqEqual
  <2> QED
    BY <2>7 DEF a, p, back, e
<1> QED
  BY <1>3, <1>4

-----------------------------------------------------------------------------
(* The invariant, and the calls one by one.                                *)

\* The allocated nodes are a chain from *list on, and there are none when
\* there is no list.
ListInv ==
  /\ list \in BOOLEAN /\ DataOK
  /\ ~list => heap = {}
  /\ \E c : Chain(c)

\* What ListOfData sees.
Seen == [i \in 1 .. Len(Whole) |-> data[Whole[i]]]

LEMMA SeenRight ==
  \A c : Chain(c) => Seen = Along(c)
<1> SUFFICES ASSUME NEW c, Chain(c) PROVE Seen = Along(c)
  OBVIOUS
<1>1. Whole = c
  BY WholeRight
<1> QED
  BY <1>1 DEF Seen, Along

LEMMA SeenNext ==
  (\A c : Chain(c) => Seen = Along(c))'
  BY SeenRight, PTL

\* A call that leaves a chain keeps the invariant, and the data along the new
\* chain are what ListOfData sees.
LEMMA Conclude ==
  ASSUME NEW c, Chain(c)', DataOK', list' \in BOOLEAN, ~list' => heap' = {}
  PROVE  ListInv' /\ Seen' = Along(c)'
<1>1. Seen' = Along(c)'
  BY SeenNext
<1> QED
  BY <1>1 DEF ListInv

\* Each call ends with the invariant, and is the call of ListOfData or refused.
LEMMA CreateStep ==
  ASSUME ListInv, NEW d \in Datum \cup {NULL}, llist_create(d)
  PROVE  ListInv' /\ L!Create
<1>1. PICK n \in Node \ heap :
        /\ heap' = heap \cup {n} /\ head' = n
        /\ data' = [data EXCEPT ![n] = d] /\ next' = [next EXCEPT ![n] = NULL]
  BY DEF llist_create
<1>2. heap = {} /\ ~list /\ list' = TRUE /\ last' = <<"create", d>>
  BY DEF llist_create, ListInv
<1> DEFINE b == <<n>>
<1>3. b \in Seq(Node) /\ Len(b) = 1 /\ b[1] = n
  OBVIOUS
<1> HIDE DEF b
<1>4. DataOK'
  BY <1>1 DEF ListInv, DataOK
<1>5. Chain(b)'
  <2>1. next'[n] = NULL
    BY <1>1 DEF ListInv, DataOK
  <2>2. head' = At(b, 1) /\ \A i \in 1 .. Len(b) : next'[b[i]] = At(b, i + 1)
    BY <1>1, <1>3, <2>1 DEF At
  <2>3. heap' = {b[i] : i \in 1 .. Len(b)}
    BY <1>1, <1>2, <1>3
  <2> QED
    BY <1>3, <2>2, <2>3 DEF Chain, Linked, At
<1>6. Along(b)' = <<d>>
  <2>1. Along(b)' = [i \in 1 .. 1 |-> data'[b[i]]]
    BY <1>3 DEF Along
  <2>2. data'[n] = d
    BY <1>1 DEF ListInv, DataOK
  <2> QED
    BY <1>3, <2>1, <2>2
<1>7. ListInv' /\ Seen' = <<d>>
  BY <1>2, <1>4, <1>5, <1>6, Conclude
<1> QED
  BY <1>2, <1>7 DEF L!Create, Seen

LEMMA FreeStep ==
  ASSUME ListInv, llist_free
  PROVE  ListInv' /\ L!Discard
<1>1. PICK c : Chain(c)
  BY DEF ListInv
<1>2. Whole = c
  BY <1>1, WholeRight
<1>3. heap' = {} /\ head' = NULL /\ list /\ list' = FALSE /\ last' = <<"free">>
  BY <1>1, <1>2 DEF llist_free, Chain
<1>4. DataOK'
  BY DEF llist_free, ListInv, DataOK
<1>5. Chain(<<>>)'
  BY <1>3 DEF Chain, Linked, At
<1>6. Along(<<>>)' = <<>>
  BY DEF Along
<1>7. ListInv' /\ Seen' = <<>>
  BY <1>3, <1>4, <1>5, <1>6, Conclude
<1> QED
  BY <1>3, <1>7 DEF L!Discard, Seen

LEMMA PushStep ==
  ASSUME ListInv, NEW d \in Datum, llist_push(d)
  PROVE  ListInv' /\ (L!Push(d) \/ Refused)
<1>1. PICK c : Chain(c)
  BY DEF ListInv
<1>2. DataOK /\ list /\ list' = list /\ last' = <<"push", d>>
  BY DEF ListInv, llist_push
<1> DEFINE e == Along(c)
<1>3. /\ Seen = e
      /\ head = NULL <=> e = <<>>
      /\ head # NULL => e[1] = data[head]
  BY <1>1, <1>2, SeenRight, FirstRight
<1>4. /\ c \in Seq(Node) /\ Len(c) \in Nat /\ 0 \in 0 .. Len(c) /\ SubSeq(c, 1, 0) = <<>>
      /\ e \in Seq(Datum \cup {NULL})
  BY <1>1, <1>2, AlongRight DEF Chain, Linked
<1> HIDE DEF e
<1>5. CASE head = NULL /\ Unchanged
  <2>1. ListInv' /\ Seen' = e
    BY <1>1, <1>2, <1>5, Kept, Conclude DEF e
  <2> QED
    BY <1>2, <1>5, <2>1 DEF Refused
<1>6. CASE head # NULL /\ data[head] = NULL /\ FillHead(d)
  <2>1. ListInv' /\ Seen' = <<d>> \o SubSeq(e, 1 + 1, Len(e))
    BY <1>1, <1>2, <1>6, Filled, Conclude DEF e
  <2> QED
    BY <1>2, <1>3, <1>6, <2>1 DEF L!Push, L!Fill, L!Behind, Seen
<1>7. CASE head # NULL /\ data[head] # NULL /\ Insert(<<>>, d)
  <2>1. PICK n \in Node : /\ Chain(Put(c, 0, n))' /\ DataOK'
                          /\ Along(Put(c, 0, n))' = Put(e, 0, d)
    BY <1>1, <1>2, <1>4, <1>7, Inserted DEF e
  <2>2. Put(e, 0, d) = <<d>> \o e
    BY <1>4, PutEnds
  <2>3. ListInv' /\ Seen' = <<d>> \o e
    BY <1>2, <2>1, <2>2, Conclude
  <2> QED
    BY <1>2, <1>3, <1>7, <2>3 DEF L!Push, Seen
<1> QED
  BY <1>5, <1>6, <1>7 DEF llist_push

\* Without the first node the list is what was behind it, and without the
\* last what was in front.
LEMMA WithoutEnds ==
  ASSUME ListInv, NEW c, Chain(c), head # NULL, list' \in BOOLEAN, list'
  PROVE  /\ Remove(<<>>) => ListInv' /\ Seen' = SubSeq(Along(c), 2, Len(Along(c)))
         /\ Remove(SubSeq(Whole, 1, Len(Whole) - 1)) =>
              ListInv' /\ Seen' = SubSeq(Along(c), 1, Len(Along(c)) - 1)
<1> DEFINE e == Along(c)
           k == Len(c) - 1
<1>1. /\ DataOK /\ c \in Seq(Node) /\ Len(c) \in Nat \ {0} /\ SubSeq(c, 1, 0) = <<>>
      /\ e # <<>> /\ 0 \in 0 .. Len(c) - 1 /\ k \in 0 .. Len(c) - 1
  <2>1. DataOK /\ c \in Seq(Node)
    BY DEF ListInv, Chain, Linked
  <2>2. Len(c) \in Nat \ {0} /\ e # <<>>
    BY <2>1, FirstRight
  <2>3. SubSeq(c, 1, 0) = <<>>
    BY <2>1
  <2> HIDE DEF e
  <2> QED
    BY <2>1, <2>2, <2>3
<1>2. e \in Seq(Datum \cup {NULL}) /\ Len(e) = Len(c)
  BY <1>1, AlongRight
<1>3. Whole = c
  BY WholeRight
<1> HIDE DEF e
<1>4. Cut(e, 0) = SubSeq(e, 2, Len(e)) /\ Cut(e, k) = SubSeq(e, 1, Len(e) - 1)
  BY <1>1, <1>2, CutEnds
<1> HIDE DEF k
<1>5. ASSUME NEW j \in 0 .. Len(c) - 1, Remove(SubSeq(c, 1, j))
      PROVE  ListInv' /\ Seen' = Cut(e, j)
  <2>1. Chain(Cut(c, j))' /\ DataOK' /\ Along(Cut(c, j))' = Cut(e, j)
    BY <1>1, <1>5, Removed DEF e
  <2> QED
    BY <2>1, Conclude
<1>6. ASSUME Remove(<<>>) PROVE ListInv' /\ Seen' = Cut(e, 0)
  BY <1>1, <1>5, <1>6
<1>7. ASSUME Remove(SubSeq(Whole, 1, Len(Whole) - 1)) PROVE ListInv' /\ Seen' = Cut(e, k)
  BY <1>1, <1>3, <1>5, <1>7 DEF k
<1> QED
  BY <1>4, <1>6, <1>7 DEF e

LEMMA PopStep ==
  ASSUME ListInv, llist_pop
  PROVE  ListInv' /\ L!Pop
<1>1. PICK c : Chain(c)
  BY DEF ListInv
<1>2. DataOK /\ list /\ list' = list
  BY DEF ListInv, llist_pop
<1> DEFINE e == Along(c)
<1>3. /\ Seen = e
      /\ head = NULL <=> e = <<>>
      /\ head # NULL => /\ e[1] = data[head] /\ c # <<>> /\ Len(c) \in Nat \ {0}
  BY <1>1, <1>2, SeenRight, FirstRight
<1>4. /\ c \in Seq(Node) /\ Len(c) \in Nat /\ SubSeq(c, 1, 0) = <<>>
      /\ e \in Seq(Datum \cup {NULL}) /\ Len(e) = Len(c)
  BY <1>1, <1>2, AlongRight DEF Chain, Linked
<1> HIDE DEF e
<1>5. CASE ~HasFirst /\ Unchanged /\ last' = <<"pop", NULL>>
  <2>1. ListInv' /\ Seen' = e
    BY <1>1, <1>2, <1>5, Kept, Conclude DEF e
  <2>2. ~(e # <<>> /\ e[1] # NULL)
    BY <1>3, <1>5 DEF HasFirst
  <2> QED
    BY <1>2, <1>3, <1>5, <2>1, <2>2 DEF L!Pop, L!HasFirst, Seen
<1>6. CASE HasFirst /\ Remove(<<>>) /\ last' = <<"pop", data[head]>>
  <2>1. ListInv' /\ Seen' = SubSeq(e, 1 + 1, Len(e))
    BY <1>1, <1>2, <1>6, WithoutEnds DEF HasFirst, e
  <2>2. e # <<>> /\ e[1] # NULL /\ last' = <<"pop", e[1]>>
    BY <1>3, <1>6 DEF HasFirst
  <2> QED
    BY <1>2, <1>3, <2>1, <2>2 DEF L!Pop, L!HasFirst, L!Behind, Seen
<1> QED
  BY <1>5, <1>6 DEF llist_pop

LEMMA DeleteFirstStep ==
  ASSUME ListInv, llist_delete_at_beginning
  PROVE  ListInv' /\ L!DeleteFirst
<1>1. PICK c : Chain(c)
  BY DEF ListInv
<1>2. DataOK /\ list /\ list' = list /\ last' = <<"delete_at_beginning">>
  BY DEF ListInv, llist_delete_at_beginning
<1> DEFINE e == Along(c)
<1>3. /\ Seen = e
      /\ head = NULL <=> e = <<>>
      /\ head # NULL => /\ e[1] = data[head] /\ c # <<>> /\ Len(c) \in Nat \ {0}
  BY <1>1, <1>2, SeenRight, FirstRight
<1>4. /\ c \in Seq(Node) /\ Len(c) \in Nat /\ SubSeq(c, 1, 0) = <<>>
      /\ e \in Seq(Datum \cup {NULL}) /\ Len(e) = Len(c)
  BY <1>1, <1>2, AlongRight DEF Chain, Linked
<1> HIDE DEF e
<1>5. CASE head = NULL /\ Unchanged
  <2>1. ListInv' /\ Seen' = e
    BY <1>1, <1>2, <1>5, Kept, Conclude DEF e
  <2> QED
    BY <1>2, <1>3, <1>5, <2>1 DEF L!DeleteFirst, Seen
<1>6. CASE head # NULL /\ Remove(<<>>)
  <2>1. ListInv' /\ Seen' = SubSeq(e, 1 + 1, Len(e))
    BY <1>1, <1>2, <1>6, WithoutEnds DEF e
  <2> QED
    BY <1>2, <1>3, <1>6, <2>1 DEF L!DeleteFirst, L!Behind, Seen
<1> QED
  BY <1>5, <1>6 DEF llist_delete_at_beginning

LEMMA DeleteLastStep ==
  ASSUME ListInv, llist_delete_at_end
  PROVE  ListInv' /\ L!DeleteLast
<1>1. PICK c : Chain(c)
  BY DEF ListInv
<1>2. DataOK /\ list /\ list' = list /\ last' = <<"delete_at_end">>
  BY DEF ListInv, llist_delete_at_end
<1> DEFINE e == Along(c)
<1>3. /\ Seen = e
      /\ head = NULL <=> e = <<>>
      /\ head # NULL => /\ e[1] = data[head] /\ c # <<>> /\ Len(c) \in Nat \ {0}
  BY <1>1, <1>2, SeenRight, FirstRight
<1>4. /\ c \in Seq(Node) /\ Len(c) \in Nat /\ SubSeq(c, 1, 0) = <<>>
      /\ e \in Seq(Datum \cup {NULL}) /\ Len(e) = Len(c)
  BY <1>1, <1>2, AlongRight DEF Chain, Linked
<1> HIDE DEF e
<1>5. CASE head = NULL /\ Unchanged
  <2>1. ListInv' /\ Seen' = e
    BY <1>1, <1>2, <1>5, Kept, Conclude DEF e
  <2> QED
    BY <1>2, <1>3, <1>5, <2>1 DEF L!DeleteLast, Seen
<1>6. CASE head # NULL /\ Remove(SubSeq(Whole, 1, Len(Whole) - 1))
  <2>1. ListInv' /\ Seen' = SubSeq(e, 1, Len(e) - 1)
    BY <1>1, <1>2, <1>6, WithoutEnds DEF e
  <2> QED
    BY <1>2, <1>3, <1>6, <2>1 DEF L!DeleteLast, L!Before, Seen
<1> QED
  BY <1>5, <1>6 DEF llist_delete_at_end

LEMMA DeleteAtStep ==
  ASSUME ListInv, NEW n \in Positions, llist_delete_at_position(n)
  PROVE  ListInv' /\ (L!DeleteAt(n) \/ Refused)
<1>1. PICK c : Chain(c)
  BY DEF ListInv
<1>2. DataOK /\ list /\ list' = list /\ last' = <<"delete_at_position", n>>
  BY DEF ListInv, llist_delete_at_position
<1> DEFINE e == Along(c)
<1>3. /\ Seen = e
      /\ head = NULL <=> e = <<>>
      /\ head # NULL => /\ e[1] = data[head] /\ c # <<>> /\ Len(c) \in Nat \ {0}
  BY <1>1, <1>2, SeenRight, FirstRight
<1>4. /\ c \in Seq(Node) /\ Len(c) \in Nat /\ SubSeq(c, 1, 0) = <<>>
      /\ e \in Seq(Datum \cup {NULL}) /\ Len(e) = Len(c)
  BY <1>1, <1>2, AlongRight DEF Chain, Linked
<1> HIDE DEF e
<1> DEFINE path == Walk(Node, n)
           k == IF n < Len(c) THEN n ELSE Len(c)
<1>5. n \in Nat /\ k \in 0 .. Len(c) /\ Linked(c)
  BY <1>1, <1>4, FS_CardinalityType DEF Positions, Chain
<1>6. path = SubSeq(c, 1, k)
  BY <1>1, <1>5, PositionRight
<1> HIDE DEF path
<1>7. Following(path) = At(c, k + 1)
  BY <1>5, <1>6, OnwardRight
<1>8. Following(path) # NULL <=> n < Len(c)
  BY <1>4, <1>5, <1>7 DEF At
<1>9. CASE (n = 0 \/ Following(path) = NULL) /\ Unchanged
  <2>1. ListInv' /\ Seen' = e
    BY <1>1, <1>2, <1>9, Kept, Conclude DEF e
  <2>2. CASE n = 0
    BY <1>2, <1>9, <2>1, <2>2 DEF Refused
  <2>3. CASE n # 0
    <3>1. ~(n \in 0 .. Len(e) - 1)
      BY <1>4, <1>5, <1>8, <1>9, <2>3
    <3> QED
      BY <1>2, <1>3, <2>1, <3>1 DEF L!DeleteAt, Seen
  <2> QED
    BY <2>2, <2>3
<1>10. CASE n # 0 /\ Following(path) # NULL /\ Remove(path)
  <2>1. n < Len(c) /\ n \in 0 .. Len(c) - 1 /\ n \in 0 .. Len(e) - 1 /\ n + 1 + 1 = n + 2
    BY <1>4, <1>5, <1>8, <1>10
  <2>2. Remove(SubSeq(c, 1, n))
    BY <1>6, <1>10, <2>1
  <2>3. Chain(Cut(c, n))' /\ DataOK' /\ Along(Cut(c, n))' = Cut(e, n)
    BY <1>1, <1>2, <2>1, <2>2, Removed DEF e
  <2>4. ListInv' /\ Seen' = SubSeq(e, 1, n) \o SubSeq(e, n + 1 + 1, Len(e))
    BY <1>2, <2>1, <2>3, Conclude DEF Cut
  <2> QED
    BY <1>2, <1>3, <2>1, <2>4 DEF L!DeleteAt, L!Before, L!Behind, Seen
<1> QED
  BY <1>9, <1>10 DEF llist_delete_at_position, path

LEMMA InsertAtEndStep ==
  ASSUME ListInv, NEW d \in Datum, llist_insert_at_end(d)
  PROVE  ListInv' /\ L!InsertAtEnd(d)
<1>1. PICK c : Chain(c)
  BY DEF ListInv
<1>2. DataOK /\ list /\ list' = list /\ last' = <<"insert_at_end", d>>
  BY DEF ListInv, llist_insert_at_end
<1> DEFINE e == Along(c)
<1>3. /\ Seen = e
      /\ head = NULL <=> e = <<>>
      /\ head # NULL => /\ e[1] = data[head] /\ c # <<>> /\ Len(c) \in Nat \ {0}
  BY <1>1, <1>2, SeenRight, FirstRight
<1>4. /\ c \in Seq(Node) /\ Len(c) \in Nat /\ SubSeq(c, 1, 0) = <<>>
      /\ e \in Seq(Datum \cup {NULL}) /\ Len(e) = Len(c)
  BY <1>1, <1>2, AlongRight DEF Chain, Linked
<1> HIDE DEF e
<1>5. CASE heap = Node /\ Unchanged
  <2>1. ListInv' /\ Seen' = e
    BY <1>1, <1>2, <1>5, Kept, Conclude DEF e
  <2> QED
    BY <1>2, <1>3, <2>1 DEF L!InsertAtEnd, Seen
<1>6. CASE Insert(Whole, d)
  <2>1. Insert(SubSeq(c, 1, Len(c)), d) /\ Len(c) \in 0 .. Len(c)
    <3>1. SubSeq(c, 1, Len(c)) = Whole
      BY <1>1, <1>4, WholeRight
    <3>2. Insert(SubSeq(c, 1, Len(c)), d)
      BY <1>6, <3>1
    <3> QED
      BY <1>4, <3>2
  <2>2. PICK n \in Node : /\ Chain(Put(c, Len(c), n))' /\ DataOK'
                          /\ Along(Put(c, Len(c), n))' = Put(e, Len(c), d)
    BY <1>1, <1>2, <2>1, Inserted DEF e
  <2>3. Put(e, Len(e), d) = Append(e, d)
    <3> DEFINE D == Datum \cup {NULL}
    <3>1. e \in Seq(D) /\ d \in D
      BY <1>4
    <3> HIDE DEF D
    <3> QED
      BY <3>1, PutEnds
  <2>4. ListInv' /\ Seen' = Append(e, d)
    BY <1>2, <1>4, <2>2, <2>3, Conclude
  <2> QED
    BY <1>2, <1>3, <2>4 DEF L!InsertAtEnd, Seen
<1> QED
  BY <1>5, <1>6 DEF llist_insert_at_end

LEMMA VisitStep ==
  ASSUME ListInv, Visit
  PROVE  ListInv' /\ L!Visit
<1>1. PICK c : Chain(c)
  BY DEF ListInv
<1>2. DataOK /\ list /\ list' = list /\ Unchanged /\ last' = <<"visit">> \o Seen
  BY DEF ListInv, Visit, Seen
<1>3. Seen = Along(c)
  BY <1>1, SeenRight
<1>4. ListInv' /\ Seen' = Seen
  BY <1>1, <1>2, <1>3, Kept, Conclude
<1> QED
  BY <1>2, <1>4 DEF L!Visit, Seen

\* A sorted list stays sorted when a datum is put behind the smaller ones.
LEMMA SortedPut ==
  ASSUME NEW e \in Seq(Datum \cup {NULL}), NEW k \in 0 .. Len(e), NEW d \in Datum,
         L!Sorted(e), \A i \in 1 .. k : e[i] < d,
         k = Len(e) \/ ~(e[k + 1] < d)
  PROVE  L!Sorted(Put(e, k, d))
<1> DEFINE D == Datum \cup {NULL}
           p == Put(e, k, d)
           m == Len(e)
<1>1. /\ m \in Nat /\ k \in Nat /\ k <= m /\ d \in Int /\ d # NULL
      /\ \A i \in 1 .. m : e[i] \in Datum /\ e[i] \in Int /\ e[i] # NULL
      /\ \A i, j \in 1 .. m : i <= j => e[i] <= e[j]
  <2>1. m \in Nat /\ k \in Nat /\ k <= m /\ d \in Int /\ d # NULL
    OBVIOUS
  <2>2. \A i \in 1 .. m : e[i] \in Datum /\ e[i] \in Int /\ e[i] # NULL
    <3>1. \A i \in 1 .. m : e[i] # NULL
      BY DEF L!Sorted
    <3>2. \A i \in 1 .. m : e[i] \in Datum \cup {NULL}
      OBVIOUS
    <3> QED
      BY <3>1, <3>2
  <2>3. \A i, j \in 1 .. m : i < j => e[i] <= e[j]
    BY DEF L!Sorted
  <2> HIDE DEF m
  <2> QED
    BY <2>1, <2>2, <2>3
<1>2. /\ Len(p) = m + 1
      /\ \A i \in 1 .. m + 1 :
           p[i] = IF i <= k THEN e[i] ELSE IF i = k + 1 THEN d ELSE e[i - 1]
  <2>1. e \in Seq(D) /\ d \in D
    OBVIOUS
  <2> HIDE DEF D
  <2> QED
    BY <2>1, PutRight
<1>3. \A i \in 1 .. k : e[i] <= d
  BY <1>1
<1>4. \A i \in k + 1 .. m : d <= e[i]
  <2> SUFFICES ASSUME NEW i \in k + 1 .. m PROVE d <= e[i]
    OBVIOUS
  <2> HIDE DEF m
  <2>1. k # m /\ k + 1 \in 1 .. m /\ i \in 1 .. m /\ k + 1 <= i
    BY <1>1
  <2>2. ~(e[k + 1] < d)
    BY <2>1 DEF m
  <2>3. e[k + 1] <= e[i] /\ e[k + 1] \in Int /\ e[i] \in Int
    BY <1>1, <2>1
  <2> QED
    BY <1>1, <2>2, <2>3
<1> HIDE DEF p, m
<1>5. \A i \in 1 .. Len(p) : p[i] # NULL
  BY <1>1, <1>2
<1>6. ASSUME NEW i \in 1 .. m + 1, NEW j \in 1 .. m + 1, i < j PROVE p[i] <= p[j]
  <2>1. CASE j <= k
    <3>1. p[i] = e[i] /\ p[j] = e[j] /\ i \in 1 .. m /\ j \in 1 .. m
      BY <1>1, <1>2, <1>6, <2>1
    <3> QED
      BY <1>1, <1>6, <3>1
  <2>2. CASE j = k + 1
    <3>1. p[i] = e[i] /\ p[j] = d /\ i \in 1 .. k
      BY <1>1, <1>2, <1>6, <2>2
    <3> QED
      BY <1>3, <3>1
  <2>3. CASE j > k + 1
    <3>1. p[j] = e[j - 1] /\ j - 1 \in k + 1 .. m /\ j - 1 \in 1 .. m
      BY <1>1, <1>2, <2>3
    <3>2. CASE i <= k
      <4>1. p[i] = e[i] /\ i \in 1 .. m /\ i <= j - 1
        BY <1>1, <1>2, <1>6, <3>2
      <4> QED
        BY <1>1, <3>1, <4>1
    <3>3. CASE i = k + 1
      <4>1. p[i] = d
        BY <1>1, <1>2, <3>3
      <4> QED
        BY <1>4, <3>1, <4>1
    <3>4. CASE i > k + 1
      <4>1. p[i] = e[i - 1] /\ i - 1 \in 1 .. m /\ i - 1 <= j - 1
        BY <1>1, <1>2, <1>6, <3>4
      <4> QED
        BY <1>1, <3>1, <4>1
    <3> QED
      BY <1>1, <3>2, <3>3, <3>4
  <2> QED
    BY <1>1, <2>1, <2>2, <2>3
<1>7. L!Sorted(p)
  BY <1>2, <1>5, <1>6 DEF L!Sorted
<1> QED
  BY <1>7 DEF p

\* The first of the numbers up to m that is followed by one outside G.
LEMMA FirstOutside ==
  ASSUME NEW m \in Nat, NEW G
  PROVE  \E k \in 0 .. m : /\ \A i \in 1 .. k : i \in G
                           /\ k = m \/ k + 1 \notin G
<1> DEFINE T == {k \in 0 .. m : k = m \/ k + 1 \notin G}
<1>1. T \in SUBSET Nat /\ m \in T
  OBVIOUS
<1>2. PICK k \in T : \A y \in T : k <= y
  <2> HIDE DEF T
  <2> QED
    BY <1>1, LeastNat
<1>3. ASSUME NEW i \in 1 .. k, i \notin G PROVE FALSE
  <2>1. i - 1 \in 0 .. m /\ i - 1 + 1 = i
    BY <1>2
  <2>2. i - 1 \in T
    BY <1>3, <2>1
  <2> QED
    BY <1>2, <2>2
<1> QED
  BY <1>2, <1>3

LEMMA AddInOrderStep ==
  ASSUME ListInv, NEW d \in Datum, llist_add_inorder(d)
  PROVE  ListInv' /\ L!AddInOrder(d)
<1>1. PICK c : Chain(c)
  BY DEF ListInv
<1>2. DataOK /\ list /\ list' = list
  BY DEF ListInv, llist_add_inorder
<1> DEFINE e == Along(c)
           smaller == {n \in Node : data[n] # NULL /\ data[n] < d}
<1>3. /\ Seen = e
      /\ head = NULL <=> e = <<>>
      /\ head # NULL => e[1] = data[head]
  BY <1>1, <1>2, SeenRight, FirstRight
<1>4. /\ c \in Seq(Node) /\ Len(c) \in Nat /\ Linked(c)
      /\ e \in Seq(Datum \cup {NULL}) /\ Len(e) = Len(c)
      /\ \A i \in 1 .. Len(c) : e[i] = data[c[i]]
  BY <1>1, <1>2, AlongRight DEF Chain, Linked, Along
<1> HIDE DEF e, smaller
<1>5. CASE head = NULL /\ Unchanged /\ last' = <<"add_inorder", d, 0>>
  <2>1. ListInv' /\ Seen' = e
    BY <1>1, <1>2, <1>5, Kept, Conclude DEF e
  <2> QED
    BY <1>2, <1>3, <1>5, <2>1 DEF L!AddInOrder, Seen
<1>6. CASE head # NULL /\ data[head] = NULL /\ FillHead(d) /\ last' = <<"add_inorder", d, 1>>
  <2>1. ListInv' /\ Seen' = <<d>> \o SubSeq(e, 1 + 1, Len(e))
    BY <1>1, <1>2, <1>6, Filled, Conclude DEF e
  <2> QED
    BY <1>2, <1>3, <1>6, <2>1 DEF L!AddInOrder, L!Fill, L!Behind, Seen
<1>7. CASE /\ head # NULL /\ data[head] # NULL /\ last' = <<"add_inorder", d, 1>>
           /\ Insert(Walk(smaller, Cardinality(Node)), d)
  <2>1. PICK k \in 0 .. Len(c) : /\ \A i \in 1 .. k : c[i] \in smaller
                                 /\ k = Len(c) \/ c[k + 1] \notin smaller
    <3> DEFINE G == {i \in 1 .. Len(c) : c[i] \in smaller}
    <3>1. PICK k \in 0 .. Len(c) : /\ \A i \in 1 .. k : i \in G
                                   /\ k = Len(c) \/ k + 1 \notin G
      <4> HIDE DEF G
      <4> QED
        BY <1>4, FirstOutside
    <3> QED
      BY <1>4, <3>1
  <2>2. Walk(smaller, Cardinality(Node)) = SubSeq(c, 1, k)
    <3>1. smaller \in SUBSET Node /\ Cardinality(Node) \in Nat
      BY FS_CardinalityType DEF smaller
    <3>2. k <= Cardinality(Node)
      BY <1>1, <1>4, <3>1, ChainSize
    <3>3. At(c, k + 1) \notin smaller
      BY <1>4, <2>1, <3>1 DEF At
    <3>4. Stops(c, smaller, Cardinality(Node), k)
      BY <2>1, <3>2, <3>3 DEF Stops
    <3> QED
      BY <1>4, <3>1, <3>4, WalkStops
  <2>3. Insert(SubSeq(c, 1, k), d)
    BY <1>7, <2>2
  <2>4. PICK n \in Node : /\ Chain(Put(c, k, n))' /\ DataOK'
                          /\ Along(Put(c, k, n))' = Put(e, k, d)
    BY <1>1, <1>2, <2>1, <2>3, Inserted DEF e
  <2>5. ListInv' /\ Seen' = Put(e, k, d)
    BY <1>2, <2>4, Conclude
  <2>6. L!Sorted(e) => L!Sorted(Put(e, k, d))
    <3> SUFFICES ASSUME L!Sorted(e) PROVE L!Sorted(Put(e, k, d))
      OBVIOUS
    <3>1. k \in 0 .. Len(e) /\ \A i \in 1 .. k : e[i] < d
      BY <1>4, <2>1 DEF smaller
    <3>2. k = Len(e) \/ ~(e[k + 1] < d)
      <4> SUFFICES ASSUME k # Len(e) PROVE ~(e[k + 1] < d)
        OBVIOUS
      <4>1. k + 1 \in 1 .. Len(c) /\ c[k + 1] \notin smaller
        BY <1>4, <2>1
      <4>2. e[k + 1] = data[c[k + 1]] /\ e[k + 1] # NULL /\ c[k + 1] \in Node
        BY <1>4, <4>1 DEF L!Sorted
      <4> QED
        BY <4>1, <4>2 DEF smaller
    <3> QED
      BY <1>4, <3>1, <3>2, SortedPut
  <2>7. \E i \in 0 .. Len(e) :
          /\ Seen' = SubSeq(e, 1, i) \o <<d>> \o SubSeq(e, i + 1, Len(e))
          /\ L!Sorted(e) => L!Sorted(Seen')
    BY <1>4, <2>1, <2>5, <2>6 DEF Put
  <2> QED
    BY <1>2, <1>3, <1>7, <2>5, <2>7 DEF L!AddInOrder, L!Before, L!Behind, Seen
<1> QED
  BY <1>5, <1>6, <1>7 DEF llist_add_inorder, smaller

LEMMA NextStep ==
  ASSUME ListInv, Next
  PROVE  ListInv' /\ (L!Next \/ Refused)
<1>1. ASSUME NEW d \in Datum \cup {NULL}, llist_create(d) PROVE ListInv' /\ (L!Next \/ Refused)
  BY <1>1, CreateStep DEF L!Next
<1>2. ASSUME NEW d \in Datum, llist_add_inorder(d) PROVE ListInv' /\ (L!Next \/ Refused)
  BY <1>2, AddInOrderStep DEF L!Next
<1>3. ASSUME NEW d \in Datum, llist_push(d) PROVE ListInv' /\ (L!Next \/ Refused)
  BY <1>3, PushStep DEF L!Next
<1>4. ASSUME NEW d \in Datum, llist_insert_at_end(d) PROVE ListInv' /\ (L!Next \/ Refused)
  BY <1>4, InsertAtEndStep DEF L!Next
<1>5. ASSUME NEW n \in Positions, llist_delete_at_position(n) PROVE ListInv' /\ (L!Next \/ Refused)
  BY <1>5, DeleteAtStep DEF L!Next
<1>6. CASE llist_free
  BY <1>6, FreeStep DEF L!Next
<1>7. CASE llist_pop
  BY <1>7, PopStep DEF L!Next
<1>8. CASE llist_delete_at_beginning
  BY <1>8, DeleteFirstStep DEF L!Next
<1>9. CASE llist_delete_at_end
  BY <1>9, DeleteLastStep DEF L!Next
<1>10. CASE llist_print \/ llist_traverse
  BY <1>10, VisitStep DEF llist_print, llist_traverse, L!Next
<1> QED
  BY <1>1, <1>2, <1>3, <1>4, <1>5, <1>6, <1>7, <1>8, <1>9, <1>10 DEF Next

LEMMA StutterStep ==
  ASSUME ListInv, UNCHANGED vars
  PROVE  ListInv' /\ UNCHANGED L!listVars
<1>1. PICK c : Chain(c)
  BY DEF ListInv
<1>2. /\ DataOK /\ Unchanged /\ list \in BOOLEAN /\ list' = list /\ last' = last
      /\ ~list' => heap' = {}
  BY DEF ListInv, vars, Unchanged
<1>3. Seen = Along(c)
  BY <1>1, SeenRight
<1>4. ListInv' /\ Seen' = Seen
  BY <1>1, <1>2, <1>3, Kept, Conclude
<1> QED
  BY <1>2, <1>4 DEF L!listVars, Seen

LEMMA InitRight ==
  Init => ListInv /\ L!Init
<1> SUFFICES ASSUME Init PROVE ListInv /\ L!Init
  OBVIOUS
<1>1. Chain(<<>>)
  BY DEF Init, Chain, Linked, At
<1>2. ListInv
  BY <1>1 DEF Init, ListInv, DataOK
<1>3. Seen = <<>>
  BY <1>1, SeenRight DEF Along
<1> QED
  BY <1>2, <1>3 DEF Init, L!Init, Seen

\* The invariant holds in every state, for every finite set of addresses and
\* every set of data.
THEOREM Invariant == Spec => []ListInv
<1>1. Init => ListInv
  BY InitRight
<1>2. ListInv /\ [Next]_vars => ListInv'
  BY NextStep, StutterStep
<1> QED
  BY <1>1, <1>2, PTL DEF Spec

\* The nodes that are allocated are always one chain from *list to NULL: no
\* call leaks one, links one twice or leaves a freed one in the chain.
THEOREM ChainIsKept == Spec => []WellFormed
<1>1. ASSUME ListInv PROVE WellFormed
  <2>1. PICK c : Chain(c)
    BY <1>1 DEF ListInv
  <2>2. heap \subseteq Node /\ Cardinality(heap) = Len(c) /\ Len(c) \in Nat
    BY <2>1, ChainSize
  <2>3. /\ c \in Seq(Node) /\ head = At(c, 1) /\ heap = {c[i] : i \in 1 .. Len(c)}
        /\ \A i \in 1 .. Len(c) : next[c[i]] = At(c, i + 1)
    BY <2>1 DEF Chain, Linked
  <2>4. c \in [1 .. Cardinality(heap) -> heap] /\ DOMAIN c = 1 .. Len(c)
    <3>1. c \in [1 .. Len(c) -> Node] /\ \A i \in 1 .. Len(c) : c[i] \in heap
      BY <2>3
    <3>2. c \in [1 .. Len(c) -> heap]
      BY <3>1
    <3> QED
      BY <2>2, <3>1, <3>2
  <2>5. \E chain \in [1 .. Cardinality(heap) -> heap] :
          /\ heap = {chain[i] : i \in DOMAIN chain}
          /\ head = IF 1 \in DOMAIN chain THEN chain[1] ELSE NULL
          /\ \A i \in DOMAIN chain :
               next[chain[i]] = IF i + 1 \in DOMAIN chain THEN chain[i + 1] ELSE NULL
    <3>1. c \in [1 .. Cardinality(heap) -> heap]
      BY <2>4
    <3>2. WITNESS c \in [1 .. Cardinality(heap) -> heap]
    <3> QED
      BY <2>3, <2>4 DEF At
  <2> QED
    BY <1>1, <2>2, <2>5 DEF WellFormed, ListInv, DataOK
<1> QED
  BY <1>1, Invariant, PTL

\* Every call does to the data along the chain what ListOfData promises of it, and
\* returns and hands over what it promises, or is one of the two refused ones and
\* changes nothing: the pointers implement the sequence.
THEOREM ListImplements == Spec => ImplementsList
<1>1. Init => L!Init
  BY InitRight
<1>2. ListInv /\ [Next]_vars => [L!Next \/ Refused]_(L!listVars)
  BY NextStep, StutterStep
<1> QED
  BY <1>1, <1>2, Invariant, PTL DEF Spec, ImplementsList
=============================================================================
