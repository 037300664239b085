------------------------- MODULE SpeedTestMainProofs -------------------------
(***************************************************************************)
(* Proofs about main and its search for a server, for every list of        *)
(* servers, every distance, every number of slots, every latency and every *)
(* command line.                                                           *)
(***************************************************************************)
EXTENDS SpeedTestMain, FiniteSetTheorems, WellFoundedInduction,
        SequenceTheorems, TLAPS

-----------------------------------------------------------------------------
(* Induction over the natural numbers, as the existence of a least one.    *)

\* Every set of natural numbers that is not empty has a least element.
LEMMA LeastNat ==
  ASSUME NEW T \in SUBSET Nat, T # {}
  PROVE  \E x \in T : \A y \in T : x <= y
<1> DEFINE Below == {0 .. n : n \in T}
           R == StrictSubsetOrdering(Nat)
           F == FiniteSubsetsOf(Nat)
<1>1. IsWellFoundedOn(R, F)
  BY FS_StrictSubsetOrderingWellFounded
<1>2. Below \subseteq F /\ Below # {}
  <2>1. ASSUME NEW n \in Nat PROVE 0 .. n \in F
    <3>1. IsFiniteSet(0 .. n) /\ 0 .. n \in SUBSET Nat
      BY FS_Interval
    <3> QED BY <3>1 DEF FiniteSubsetsOf
  <2> HIDE DEF F
  <2> QED BY <2>1
<1>3. PICK B \in Below : \A C \in Below : ~(<<C, B>> \in R)
  <2> HIDE DEF Below, R, F
  <2> QED BY <1>1, <1>2, WFMin
<1>4. PICK x \in T : B = 0 .. x
  OBVIOUS
<1>5. ASSUME NEW y \in T PROVE x <= y
  <2> SUFFICES ASSUME y < x PROVE FALSE
    OBVIOUS
  <2>1. 0 .. y \subseteq 0 .. x /\ 0 .. y # 0 .. x
    OBVIOUS
  <2>2. <<0 .. y, 0 .. x>> \in R
    BY <2>1 DEF StrictSubsetOrdering
  <2> QED BY <1>3, <1>4, <2>2
<1> QED BY <1>5

\* A set of slots that holds slot 1 and with every slot the next one holds
\* all of them.
LEMMA SlotInduction ==
  ASSUME NEW G, 1 \in G,
         \A k \in Slots : k > 1 /\ k - 1 \in G => k \in G
  PROVE  Slots \subseteq G
<1> SUFFICES ASSUME Slots \ G # {} PROVE FALSE
  OBVIOUS
<1>1. Slots \ G \in SUBSET Nat
  BY NumAssumption DEF Slots
<1>2. PICK k \in Slots \ G : \A n \in Slots \ G : k <= n
  BY <1>1, LeastNat
<1>3. k > 1 /\ k - 1 \in Slots
  BY <1>2, NumAssumption DEF Slots
<1>4. k - 1 \in G
  BY <1>1, <1>2, <1>3, NumAssumption DEF Slots
<1> QED BY <1>2, <1>3, <1>4

-----------------------------------------------------------------------------
(* The loop of st_utilities_get_best_server.                               *)

\* What the loop makes of slot k, given what it had after the slot before.
Step(k, before) ==
  IF k = 1 THEN 1
  ELSE IF latency[k] < latency[before] /\ latency[k] # Failed THEN k ELSE before

\* The recursion defines a function.
LEMMA LowestUpToDef ==
  LowestUpTo = [k \in Slots |-> Step(k, LowestUpTo[k - 1])]
<1> DEFINE Good(g, m) == \A k \in 1 .. m : g[k] = Step(k, g[k - 1])
           G == {m \in Slots : \E g : Good(g, m)}
<1>1. 1 \in G
  <2>1. Good([k \in 1 .. 1 |-> 1], 1)
    BY DEF Step
  <2> QED BY <2>1, NumAssumption DEF Slots
<1>2. ASSUME NEW m \in Slots, m > 1, m - 1 \in G PROVE m \in G
  <2>1. PICK g : Good(g, m - 1)
    BY <1>2
  <2> DEFINE h == [k \in 1 .. m |-> IF k = m THEN Step(m, g[m - 1]) ELSE g[k]]
  <2>2. Good(h, m)
    <3> SUFFICES ASSUME NEW k \in 1 .. m PROVE h[k] = Step(k, h[k - 1])
      OBVIOUS
    <3>1. CASE k = m
      BY <3>1, <1>2, NumAssumption DEF Slots
    <3>2. CASE k = 1
      BY <3>2, <1>2, <2>1, NumAssumption DEF Slots, Step
    <3>3. CASE k # m /\ k # 1
      BY <3>3, <1>2, <2>1, NumAssumption DEF Slots
    <3> QED BY <3>1, <3>2, <3>3
  <2> QED BY <2>2
<1>3. NearestNum \in G
  <2> HIDE DEF G
  <2>1. Slots \subseteq G
    BY <1>1, <1>2, SlotInduction
  <2> QED BY <2>1, NumAssumption DEF Slots
<1>4. PICK g : Good(g, NearestNum)
  BY <1>3
<1>5. [k \in Slots |-> g[k]] = [k \in Slots |-> Step(k, [n \in Slots |-> g[n]][k - 1])]
  <2> SUFFICES ASSUME NEW k \in Slots
               PROVE  g[k] = Step(k, [n \in Slots |-> g[n]][k - 1])
    OBVIOUS
  <2>1. g[k] = Step(k, g[k - 1])
    BY <1>4 DEF Slots
  <2>2. CASE k = 1
    BY <2>1, <2>2 DEF Step
  <2>3. CASE k # 1
    <3>1. k - 1 \in Slots
      BY <2>3, NumAssumption DEF Slots
    <3> QED BY <2>1, <3>1
  <2> QED BY <2>2, <2>3
<1> QED
  BY <1>5 DEF LowestUpTo, Step

\* The slot the loop ends with is one of them, and when slot 1 has a latency
\* it has the lowest.
LEMMA LowestRight ==
  ASSUME latency \in [Slots -> Times \cup {Failed}]
  PROVE  /\ Lowest \in Slots
         /\ latency[1] # Failed =>
              /\ latency[Lowest] # Failed
              /\ \A k \in Slots : latency[k] # Failed => latency[Lowest] <= latency[k]
<1> DEFINE low == LowestUpTo
           Right(m) == /\ low[m] \in Slots
                       /\ latency[1] # Failed =>
                            /\ latency[low[m]] # Failed
                            /\ \A k \in 1 .. m : latency[k] # Failed =>
                                 latency[low[m]] <= latency[k]
           G == {m \in Slots : Right(m)}
<1>1. \A k \in Slots : low[k] = Step(k, low[k - 1])
  BY LowestUpToDef
<1>2. \A k \in Slots : latency[k] \in Int
  <2>1. Times \cup {Failed} \subseteq Int
    BY TimeAssumption DEF Failed
  <2> QED BY <2>1
<1> HIDE DEF low
<1>3. 1 \in G
  <2>1. 1 \in Slots
    BY NumAssumption DEF Slots
  <2>2. low[1] = 1
    BY <1>1, <2>1 DEF Step
  <2> QED BY <1>2, <2>1, <2>2
<1>4. ASSUME NEW m \in Slots, m > 1, m - 1 \in G PROVE m \in G
  <2>1. low[m] = Step(m, low[m - 1])
    BY <1>1
  <2>2. Right(m - 1) /\ 1 .. m \subseteq Slots
    BY <1>4, NumAssumption DEF Slots
  <2>3. \A k \in 1 .. m : k \in 1 .. m - 1 \/ k = m
    BY <1>4 DEF Slots
  <2>4. CASE latency[m] < latency[low[m - 1]] /\ latency[m] # Failed
    <3>1. low[m] = m
      BY <1>4, <2>1, <2>4 DEF Step
    <3>2. ASSUME latency[1] # Failed, NEW k \in 1 .. m, latency[k] # Failed
          PROVE  latency[m] <= latency[k]
      BY <1>2, <2>2, <2>3, <2>4, <3>2
    <3> QED BY <2>4, <3>1, <3>2
  <2>5. CASE ~(latency[m] < latency[low[m - 1]] /\ latency[m] # Failed)
    <3>1. low[m] = low[m - 1]
      BY <1>4, <2>1, <2>5 DEF Step
    <3>2. ASSUME latency[1] # Failed, NEW k \in 1 .. m, latency[k] # Failed
          PROVE  latency[low[m]] <= latency[k]
      BY <1>2, <2>2, <2>3, <2>5, <3>1, <3>2
    <3> QED BY <2>2, <3>1, <3>2
  <2> QED BY <2>4, <2>5
<1>5. NearestNum \in G
  <2> HIDE DEF G
  <2>1. Slots \subseteq G
    BY <1>3, <1>4, SlotInduction
  <2> QED BY <2>1, NumAssumption DEF Slots
<1> QED
  BY <1>5 DEF Lowest, low, Slots

-----------------------------------------------------------------------------
(* One turn of the loop of st_utilities_get_nearest_server.                *)

\* A server has a place: the first slot that is not nearer, or the one behind
\* the last.
LEMMA PlaceRight ==
  ASSUME nearest \in Seq(Server), NEW s \in Server, pos \in {"client", "zero"}
  PROVE  /\ Place(s) \in 1 .. Len(nearest) + 1
         /\ Place(s) <= Len(nearest) => Dist[pos][s] <= Dist[pos][nearest[Place(s)]]
         /\ \A m \in 1 .. Place(s) - 1 : Dist[pos][nearest[m]] < Dist[pos][s]
<1> DEFINE Stop(k) == k <= Len(nearest) => Dist[pos][s] <= Dist[pos][nearest[k]]
           T == {k \in 1 .. Len(nearest) + 1 : Stop(k)}
<1>1. Len(nearest) \in Nat /\ \A m \in 1 .. Len(nearest) : nearest[m] \in Server
  OBVIOUS
<1>2. T \in SUBSET Nat /\ Len(nearest) + 1 \in T
  BY <1>1
<1>3. PICK k \in T : \A m \in T : k <= m
  <2> HIDE DEF T
  <2> QED BY <1>2, LeastNat
<1>4. ASSUME NEW m \in 1 .. k - 1 PROVE Dist[pos][nearest[m]] < Dist[pos][s]
  <2>1. m \in 1 .. Len(nearest) /\ ~Stop(m)
    BY <1>1, <1>3
  <2>2. Dist[pos][s] \in Nat /\ Dist[pos][nearest[m]] \in Nat
    BY <1>1, <2>1, DistAssumption
  <2> QED BY <2>1, <2>2
<1>5. \E j \in 1 .. Len(nearest) + 1 :
        /\ j <= Len(nearest) => Dist[pos][s] <= Dist[pos][nearest[j]]
        /\ \A m \in 1 .. j - 1 : Dist[pos][nearest[m]] < Dist[pos][s]
  BY <1>3, <1>4
<1> QED BY <1>5 DEF Place

\* What one slot holds afterwards.
LEMMA InsertedRight ==
  ASSUME nearest \in Seq(Server), Len(nearest) <= NearestNum, NEW s \in Server,
         Place(s) \in 1 .. Len(nearest) + 1
  PROVE  /\ Inserted(s) \in Seq(Server)
         /\ Len(Inserted(s)) = IF Len(nearest) < NearestNum THEN Len(nearest) + 1
                               ELSE NearestNum
         /\ \A k \in 1 .. Len(Inserted(s)) :
              Inserted(s)[k] = IF k < Place(s) THEN nearest[k]
                               ELSE IF k = Place(s) THEN s ELSE nearest[k - 1]
<1> DEFINE p == Place(s)
           all == SubSeq(nearest, 1, p - 1) \o <<s>> \o SubSeq(nearest, p, Len(nearest))
<1> HIDE DEF p
<1>1. p \in 1 .. Len(nearest) + 1 /\ Len(nearest) \in Nat
  BY DEF p
<1>2. /\ SubSeq(nearest, 1, p - 1) \in Seq(Server)
      /\ Len(SubSeq(nearest, 1, p - 1)) = p - 1
      /\ \A k \in 1 .. p - 1 : SubSeq(nearest, 1, p - 1)[k] = nearest[k]
  BY <1>1
<1>3. /\ SubSeq(nearest, p, Len(nearest)) \in Seq(Server)
      /\ Len(SubSeq(nearest, p, Len(nearest))) = Len(nearest) - p + 1
      /\ \A k \in 1 .. Len(nearest) - p + 1 :
           SubSeq(nearest, p, Len(nearest))[k] = nearest[p + k - 1]
  BY <1>1
<1>4. /\ all \in Seq(Server) /\ Len(all) = Len(nearest) + 1
      /\ \A k \in 1 .. Len(all) : all[k] = IF k < p THEN nearest[k]
                                          ELSE IF k = p THEN s ELSE nearest[k - 1]
  <2> DEFINE front == SubSeq(nearest, 1, p - 1)
             back == SubSeq(nearest, p, Len(nearest))
  <2> HIDE DEF front, back
  <2>1. /\ front \in Seq(Server) /\ Len(front) = p - 1
        /\ \A k \in 1 .. p - 1 : front[k] = nearest[k]
    BY <1>2 DEF front
  <2>2. /\ back \in Seq(Server) /\ Len(back) = Len(nearest) - p + 1
        /\ \A k \in 1 .. Len(nearest) - p + 1 : back[k] = nearest[p + k - 1]
    BY <1>3 DEF back
  <2>3. /\ front \o <<s>> \in Seq(Server) /\ Len(front \o <<s>>) = p
        /\ \A k \in 1 .. p : (front \o <<s>>)[k] = IF k < p THEN nearest[k] ELSE s
    BY <1>1, <2>1
  <2> DEFINE start == front \o <<s>>
  <2>4. all = start \o back
    BY DEF front, back
  <2> HIDE DEF all, start
  <2>5. /\ start \in Seq(Server) /\ Len(start) = p
        /\ \A k \in 1 .. p : start[k] = IF k < p THEN nearest[k] ELSE s
    BY <2>3 DEF start
  <2>6. /\ all \in Seq(Server) /\ Len(all) = Len(nearest) + 1
        /\ \A k \in 1 .. Len(all) : all[k] = IF k <= p THEN start[k] ELSE back[k - p]
    <3>1. /\ all \in Seq(Server) /\ Len(all) = Len(start) + Len(back)
          /\ \A k \in 1 .. Len(start) + Len(back) :
               all[k] = IF k <= Len(start) THEN start[k] ELSE back[k - Len(start)]
      BY <2>2, <2>4, <2>5, ConcatProperties
    <3> QED BY <1>1, <2>2, <2>5, <3>1
  <2> DEFINE m == Len(nearest)
  <2>7. /\ m \in Nat /\ p \in 1 .. m + 1 /\ Len(all) = m + 1
        /\ \A k \in 1 .. m + 1 : all[k] = IF k <= p THEN start[k] ELSE back[k - p]
        /\ \A k \in 1 .. (m - p) + 1 : back[k] = nearest[p + k - 1]
    BY <1>1, <2>2, <2>6
  <2> HIDE DEF m
  <2>8. ASSUME NEW k \in 1 .. m + 1
        PROVE  all[k] = IF k < p THEN nearest[k] ELSE IF k = p THEN s ELSE nearest[k - 1]
    <3>1. CASE k <= p
      BY <2>5, <2>7, <3>1
    <3>2. CASE k > p
      <4> DEFINE j == k - p
      <4>1. j \in 1 .. (m - p) + 1 /\ p + j - 1 = k - 1 /\ ~(k <= p)
        BY <2>7, <3>2
      <4> HIDE DEF j
      <4>2. back[j] = nearest[k - 1]
        BY <2>7, <4>1
      <4>3. all[k] = back[j]
        BY <2>7, <4>1 DEF j
      <4> QED BY <2>7, <3>2, <4>2, <4>3
    <3> QED BY <2>7, <3>1, <3>2
  <2> QED BY <2>6, <2>7, <2>8 DEF m
<1>5. Inserted(s) = IF Len(all) <= NearestNum THEN all ELSE SubSeq(all, 1, NearestNum)
  BY DEF Inserted, p
<1> HIDE DEF all
<1>6. CASE Len(nearest) < NearestNum
  BY <1>1, <1>4, <1>5, <1>6, NumAssumption DEF p
<1>7. CASE Len(nearest) = NearestNum
  BY <1>1, <1>4, <1>5, <1>7, NumAssumption DEF p
<1> QED BY <1>6, <1>7, <1>1, NumAssumption

-----------------------------------------------------------------------------
(* The inductive invariant.                                                *)

\* As long as no line of the list was read the array is empty: the position
\* the distances are taken from is set before the first one is.
Fresh == phase \in {"config", "list"} => row = 0 /\ nearest = <<>>

\* While the array is not full no server is left out.
NoneLeftOut ==
  row <= NearestNum => \A n \in 1 .. row : InNearest(List[n])

ChoiceInv == ChoiceType /\ Fresh /\ NearestRight /\ NoneLeftOut /\ LowestWhenFirstHas

\* What the arguments in front of the loop index have set.
Seen(o) == \E n \in 1 .. i - 1 : argv[n] = o

OptionsRight ==
  /\ perform_server_url => Seen("--server")
  /\ ~Seen("--help")
  /\ m_test_only_download <=> Seen("--download_testing")
  /\ m_test_only_upload <=> Seen("--upload_testing")
  /\ ~(m_test_only_download /\ m_test_only_upload)

\* main runs its tests after it has looked at every argument.
RunsAfterAll ==
  /\ at = "args" => tests = <<>> /\ ran = <<>>
  /\ at = "run" => i = Len(argv) + 1
  /\ ran # <<>> => i = Len(argv) + 1

OneOnly == m_test_only_download \/ m_test_only_upload

\* No operation is left to run that has run or that comes again, and both
\* exclusive options leave only downloads.
TestsRight ==
  /\ \A n \in 1 .. Len(tests), m \in 1 .. Len(ran) : tests[n] # ran[m][1]
  /\ \A n, m \in 1 .. Len(tests) : n < m => tests[n] # tests[m]
  /\ OneOnly => \A n \in 1 .. Len(tests) : tests[n] = "DOWNLOAD"
  /\ \A n \in 1 .. Len(ran) : ran[n][2] = "named" => perform_server_url
  /\ \A n, m \in 1 .. Len(ran) : n < m => ran[n][1] # ran[m][1]
  /\ OneOnly => \A n \in 1 .. Len(ran) : ran[n][1] = "DOWNLOAD"

MainInv == OptionsRight /\ RunsAfterAll /\ TestsRight

IInv == TypeOK /\ ChoiceInv /\ MainInv

-----------------------------------------------------------------------------
(* The search preserves its part.                                          *)

\* Reading one server of the list keeps the array right: the one that falls out
\* is the last of a sorted array.
LEMMA ReadServerRight ==
  ASSUME ChoiceInv, ReadServer
  PROVE  /\ nearest' \in Seq(Server) /\ Len(nearest') <= NearestNum
         /\ NearestRight' /\ NoneLeftOut'
<1> DEFINE s == List[row + 1]
           p == Place(s)
           D(x) == Dist[pos][x]
<1> USE NumAssumption
<1>1. /\ row \in Nat /\ row < Len(List) /\ row' = row + 1 /\ pos' = pos
      /\ pos \in {"client", "zero"} /\ nearest \in Seq(Server) /\ Len(nearest) \in Nat
      /\ \A n \in 1 .. Len(List) : List[n] \in Server
      /\ nearest' = Inserted(s) /\ s \in Server
  BY ListAssumption DEF ChoiceInv, ChoiceType, ReadServer, NoFile
<1>2. \A x \in Server : D(x) \in Nat
  BY <1>1, DistAssumption
<1>3. /\ Len(nearest) = (IF row < NearestNum THEN row ELSE NearestNum)
      /\ \A k, m \in 1 .. Len(nearest) : k < m => D(nearest[k]) <= D(nearest[m])
      /\ \A n \in 1 .. row : ~InNearest(List[n]) =>
           \A k \in 1 .. Len(nearest) : D(nearest[k]) <= D(List[n])
      /\ row <= NearestNum => \A n \in 1 .. row : InNearest(List[n])
  BY DEF ChoiceInv, NearestRight, NoneLeftOut
<1>4. /\ p \in 1 .. Len(nearest) + 1
      /\ p <= Len(nearest) => D(s) <= D(nearest[p])
      /\ \A m \in 1 .. p - 1 : D(nearest[m]) < D(s)
  BY <1>1, PlaceRight
<1>5. Len(nearest) <= NearestNum
  BY <1>1, <1>3
<1>6. /\ nearest' \in Seq(Server)
      /\ Len(nearest') = IF Len(nearest) < NearestNum THEN Len(nearest) + 1
                         ELSE NearestNum
      /\ \A k \in 1 .. Len(nearest') :
           nearest'[k] = IF k < p THEN nearest[k]
                         ELSE IF k = p THEN s ELSE nearest[k - 1]
  BY <1>1, <1>4, <1>5, InsertedRight
<1>7. \A k \in 1 .. Len(nearest) : nearest[k] \in Server /\ D(nearest[k]) \in Nat
  BY <1>1, <1>2
<1>8. D(s) \in Nat
  BY <1>1, <1>2
<1> HIDE DEF p, s, D
<1>9. \A k, m \in 1 .. Len(nearest') : k < m => D(nearest'[k]) <= D(nearest'[m])
  <2> SUFFICES ASSUME NEW k \in 1 .. Len(nearest'), NEW m \in 1 .. Len(nearest'), k < m
               PROVE  D(nearest'[k]) <= D(nearest'[m])
    OBVIOUS
  <2>1. CASE m < p
    BY <1>1, <1>3, <1>4, <1>6, <2>1
  <2>2. CASE m = p
    BY <1>1, <1>4, <1>6, <1>7, <1>8, <2>2
  <2>3. CASE m > p
    <3>1. /\ nearest'[m] = nearest[m - 1] /\ m - 1 \in p .. Len(nearest)
          /\ p \in 1 .. Len(nearest)
      BY <1>1, <1>4, <1>6, <2>3
    <3>2. CASE k < p
      <4>1. nearest'[k] = nearest[k] /\ k \in 1 .. Len(nearest) /\ k < m - 1
        BY <1>4, <1>6, <3>1, <3>2
      <4> QED BY <1>3, <3>1, <4>1
    <3>3. CASE k = p
      <4>1. nearest'[k] = s /\ D(s) <= D(nearest[p])
        BY <1>4, <1>6, <3>1, <3>3
      <4>2. p < m - 1 => D(nearest[p]) <= D(nearest[m - 1])
        BY <1>3, <3>1
      <4>3. D(nearest[p]) \in Nat /\ D(nearest[m - 1]) \in Nat
        BY <1>7, <3>1
      <4> QED BY <1>4, <1>8, <3>1, <4>1, <4>2, <4>3
    <3>4. CASE k > p
      <4>1. nearest'[k] = nearest[k - 1] /\ k - 1 \in 1 .. Len(nearest) /\ k - 1 < m - 1
        BY <1>4, <1>6, <3>1, <3>4
      <4> QED BY <1>3, <3>1, <4>1
    <3> QED BY <1>4, <3>2, <3>3, <3>4
  <2> QED BY <1>4, <2>1, <2>2, <2>3
\* A server of the array stays in it, or was the last of a full one.
<1>10. ASSUME NEW j \in 1 .. Len(nearest),
              \A k \in 1 .. Len(nearest') : nearest'[k] # nearest[j]
       PROVE  j = Len(nearest) /\ Len(nearest') = Len(nearest) /\ p <= j
  <2>1. j \in 1 .. Len(nearest')
    BY <1>1, <1>5, <1>6
  <2>2. j >= p
    BY <1>4, <1>6, <1>10, <2>1
  <2>3. ~(j + 1 \in 1 .. Len(nearest'))
    <3> SUFFICES ASSUME j + 1 \in 1 .. Len(nearest') PROVE FALSE
      OBVIOUS
    <3>1. nearest'[j + 1] = nearest[j]
      BY <1>4, <1>6, <2>2
    <3> QED BY <1>10, <3>1
  <2>4. Len(nearest') \in Nat /\ j = Len(nearest')
    BY <1>1, <1>6, <2>1, <2>3
  <2> QED BY <1>1, <1>5, <1>6, <2>2, <2>4
<1>11. ASSUME NEW n \in 1 .. row + 1,
              \A k \in 1 .. Len(nearest') : nearest'[k] # List[n],
              NEW k \in 1 .. Len(nearest')
       PROVE  D(nearest'[k]) <= D(List[n])
  <2>1. CASE n = row + 1
    <3>1. ~(p \in 1 .. Len(nearest'))
      BY <1>6, <1>11, <2>1 DEF s
    <3>2. k < p /\ nearest'[k] = nearest[k] /\ k \in 1 .. Len(nearest)
      BY <1>1, <1>4, <1>6, <3>1
    <3> QED BY <1>4, <1>7, <1>8, <2>1, <3>2 DEF s
  <2>2. CASE n \in 1 .. row /\ ~InNearest(List[n])
    <3>0. D(List[n]) \in Nat
      BY <1>1, <1>2, <2>2
    <3>1. CASE k = p
      <4>1. row > NearestNum
        BY <1>1, <1>3, <2>2
      <4>2. p \in 1 .. Len(nearest)
        BY <1>1, <1>3, <1>4, <1>6, <3>1, <4>1
      <4>3. D(s) <= D(nearest[p]) /\ D(nearest[p]) <= D(List[n])
        BY <1>3, <1>4, <2>2, <4>2
      <4>4. D(nearest[p]) \in Nat
        BY <1>7, <4>2
      <4>5. nearest'[k] = s
        BY <1>6, <3>1, <1>4
      <4> QED BY <1>8, <3>0, <4>3, <4>4, <4>5
    <3>2. CASE k # p
      <4>1. PICK j \in 1 .. Len(nearest) : nearest'[k] = nearest[j]
        <5>1. CASE k < p
          BY <1>4, <1>6, <5>1
        <5>2. CASE k > p
          <6>1. nearest'[k] = nearest[k - 1] /\ k - 1 \in 1 .. Len(nearest)
            BY <1>1, <1>4, <1>6, <5>2
          <6> QED BY <6>1
        <5> QED BY <1>4, <3>2, <5>1, <5>2
      <4> QED BY <1>3, <2>2, <4>1
    <3> QED BY <3>1, <3>2
  <2>3. CASE n \in 1 .. row /\ InNearest(List[n])
    <3>1. PICK j \in 1 .. Len(nearest) : nearest[j] = List[n]
      BY <2>3 DEF InNearest
    <3>2. j = Len(nearest) /\ Len(nearest') = Len(nearest) /\ p <= j
      BY <1>10, <1>11, <3>1
    <3>3. \A m \in 1 .. Len(nearest) : D(nearest[m]) <= D(nearest[j])
      BY <1>1, <1>3, <1>7, <3>2
    <3>4. CASE k = p
      <4>1. nearest'[k] = s /\ p \in 1 .. Len(nearest)
        BY <1>4, <1>6, <3>2, <3>4
      <4>2. D(s) <= D(nearest[p]) /\ D(nearest[p]) <= D(nearest[j])
        BY <1>4, <3>3, <4>1
      <4>3. D(nearest[p]) \in Nat /\ D(nearest[j]) \in Nat
        BY <1>7, <4>1
      <4> QED BY <1>8, <3>1, <4>1, <4>2, <4>3
    <3>5. CASE k < p
      BY <1>6, <3>1, <3>2, <3>3, <3>5
    <3>6. CASE k > p
      <4>1. nearest'[k] = nearest[k - 1] /\ k - 1 \in 1 .. Len(nearest)
        BY <1>4, <1>6, <3>2, <3>6
      <4> QED BY <3>1, <3>3, <4>1
    <3> QED BY <1>4, <3>4, <3>5, <3>6
  <2> QED BY <1>1, <2>1, <2>2, <2>3
<1>12. ASSUME row + 1 <= NearestNum, NEW n \in 1 .. row + 1
       PROVE  \E k \in 1 .. Len(nearest') : nearest'[k] = List[n]
  <2>1. Len(nearest) = row /\ Len(nearest') = row + 1
    BY <1>1, <1>3, <1>6, <1>12
  <2>2. CASE n = row + 1
    BY <1>4, <1>6, <2>1, <2>2 DEF s
  <2>3. CASE n \in 1 .. row
    <3>1. PICK j \in 1 .. Len(nearest) : nearest[j] = List[n]
      BY <1>1, <1>3, <1>12, <2>3 DEF InNearest
    <3> QED BY <1>1, <1>10, <2>1, <3>1
  <2> QED BY <1>1, <2>2, <2>3
<1>13. Len(nearest') = (IF row' < NearestNum THEN row' ELSE NearestNum)
  BY <1>1, <1>3, <1>6
<1>14. NearestRight'
  BY <1>1, <1>9, <1>11, <1>13 DEF NearestRight, InNearest, D
<1>15. NoneLeftOut'
  BY <1>1, <1>12 DEF NoneLeftOut, InNearest
<1> QED BY <1>1, <1>6, <1>13, <1>14, <1>15

\* Nothing of the search is looked at before it starts.
LEMMA ChoiceInitRight == ChoiceInit => ChoiceInv
<1> SUFFICES ASSUME ChoiceInit PROVE ChoiceInv
  OBVIOUS
<1> USE ListAssumption, NumAssumption
<1>1. ChoiceType
  BY DEF ChoiceInit, ChoiceType, Slots, Content, NoFile
<1>2. NearestRight
  BY DEF ChoiceInit, NearestRight
<1> QED BY <1>1, <1>2 DEF ChoiceInit, ChoiceInv, Fresh, NoneLeftOut, LowestWhenFirstHas

\* Every step of the search preserves what it is about.
LEMMA SearchRight ==
  ASSUME ChoiceInv, Search
  PROVE  ChoiceInv'
<1> USE ListAssumption, NumAssumption
<1>0. /\ ChoiceType /\ Fresh /\ NearestRight /\ NoneLeftOut /\ LowestWhenFirstHas
      /\ Len(List) \in Nat
  BY DEF ChoiceInv
<1>1. CASE Start
  <2>1. ChoiceType'
    BY <1>0, <1>1 DEF Start, ChoiceType, Content, files
  <2>2. NearestRight' /\ NoneLeftOut' /\ Fresh' /\ LowestWhenFirstHas'
    BY <1>1 DEF Start, NearestRight, NoneLeftOut, Fresh, LowestWhenFirstHas
  <2> QED BY <2>1, <2>2 DEF ChoiceInv
<1>2. CASE FetchConfig
  <2>1. ChoiceType'
    BY <1>0, <1>2 DEF FetchConfig, Get, ChoiceType
  <2>2. NearestRight' /\ NoneLeftOut'
    BY <1>0, <1>2 DEF FetchConfig, NearestRight, NoneLeftOut, InNearest
  <2>3. Fresh' /\ LowestWhenFirstHas'
    BY <1>0, <1>2 DEF FetchConfig, Fresh, LowestWhenFirstHas
  <2> QED BY <2>1, <2>2, <2>3 DEF ChoiceInv
<1>3. CASE FetchList
  <2>1. ChoiceType'
    <3>1. PICK r \in Get(listing, 0 .. Len(List)) :
            listing' = r[2] /\ phase' = IF r[1] = 0 THEN "failed" ELSE "nearest"
      BY <1>3 DEF FetchList
    <3>2. r[2] \in NoFile .. Len(List)
      BY <1>0, <3>1 DEF Get, ChoiceType, NoFile
    <3> QED BY <1>0, <1>3, <3>1, <3>2 DEF FetchList, ChoiceType
  <2>2. row = 0 /\ nearest = <<>> /\ row' = 0 /\ nearest' = <<>>
    BY <1>0, <1>3 DEF FetchList, Fresh
  <2>3. NearestRight' /\ NoneLeftOut' /\ Fresh'
    BY <2>2 DEF NearestRight, NoneLeftOut, Fresh
  <2>4. LowestWhenFirstHas'
    BY <1>3 DEF FetchList, LowestWhenFirstHas
  <2> QED BY <2>1, <2>3, <2>4 DEF ChoiceInv
<1>4. CASE ReadServer
  <2>1. /\ nearest' \in Seq(Server) /\ Len(nearest') <= NearestNum
        /\ NearestRight' /\ NoneLeftOut'
    BY <1>4, ReadServerRight
  <2>2. ChoiceType'
    BY <1>0, <1>4, <2>1 DEF ReadServer, ChoiceType, files, NoFile
  <2>3. Fresh' /\ LowestWhenFirstHas'
    BY <1>4 DEF ReadServer, Fresh, LowestWhenFirstHas
  <2> QED BY <2>1, <2>2, <2>3 DEF ChoiceInv
<1>5. CASE EndOfList
  <2>1. ChoiceType'
    BY <1>0, <1>5 DEF EndOfList, ChoiceType, files
  <2>2. NearestRight' /\ NoneLeftOut'
    BY <1>0, <1>5 DEF EndOfList, NearestRight, NoneLeftOut, InNearest
  <2>3. Fresh' /\ LowestWhenFirstHas'
    BY <1>5 DEF EndOfList, Fresh, LowestWhenFirstHas
  <2> QED BY <2>1, <2>2, <2>3 DEF ChoiceInv
<1>6. CASE Probe
  <2>1. ChoiceType'
    <3> DEFINE k == probed + 1
    <3>1. PICK r \in IF k <= Len(nearest) THEN Get(latfile, Content) ELSE {<<1, latfile>>},
               t \in Times :
            /\ line' = IF r[2] \in {"good", "other"} THEN r[2] ELSE line
            /\ latency' = [latency EXCEPT ![k] =
                             IF r[2] # "absent" /\ line' = "good" THEN t ELSE Failed]
      BY <1>6 DEF Probe
    <3>2. line' \in Content
      BY <1>0, <3>1 DEF ChoiceType, Content
    <3>3. latency' \in [Slots -> Times \cup {Failed}]
      BY <1>0, <3>1 DEF ChoiceType
    <3> QED BY <1>0, <1>6, <3>2, <3>3 DEF Probe, ChoiceType
  <2>2. NearestRight' /\ NoneLeftOut'
    BY <1>0, <1>6 DEF Probe, NearestRight, NoneLeftOut, InNearest
  <2>3. Fresh' /\ LowestWhenFirstHas'
    BY <1>6 DEF Probe, Fresh, LowestWhenFirstHas
  <2> QED BY <2>1, <2>2, <2>3 DEF ChoiceInv
<1>7. CASE Select
  <2>1. /\ Lowest \in Slots
        /\ latency[1] # Failed =>
             /\ latency[Lowest] # Failed
             /\ \A k \in Slots : latency[k] # Failed => latency[Lowest] <= latency[k]
    BY <1>0, LowestRight DEF ChoiceType
  <2>2. ChoiceType'
    BY <1>0, <1>7, <2>1 DEF Select, ChoiceType, files
  <2>3. NearestRight' /\ NoneLeftOut'
    BY <1>0, <1>7 DEF Select, NearestRight, NoneLeftOut, InNearest
  <2>4. Fresh' /\ LowestWhenFirstHas'
    BY <1>7, <2>1 DEF Select, Fresh, LowestWhenFirstHas
  <2> QED BY <2>2, <2>3, <2>4 DEF ChoiceInv
<1> QED
  BY <1>1, <1>2, <1>3, <1>4, <1>5, <1>6, <1>7 DEF Search

\* So does a step that leaves it alone or only ends it.
LEMMA ChoiceKept ==
  ASSUME ChoiceInv, phase' = phase \/ phase' = "idle",
         UNCHANGED <<files, pos, row, nearest, line, probed, latency, best>>
  PROVE  ChoiceInv'
<1>1. ChoiceType'
  BY DEF ChoiceInv, ChoiceType, files
<1>2. NearestRight' /\ NoneLeftOut'
  BY DEF ChoiceInv, NearestRight, NoneLeftOut, InNearest
<1>3. Fresh' /\ LowestWhenFirstHas'
  BY DEF ChoiceInv, Fresh, LowestWhenFirstHas
<1> QED BY <1>1, <1>2, <1>3 DEF ChoiceInv

-----------------------------------------------------------------------------
(* main.                                                                   *)

\* A test that ends leaves the rest of them, and one transfer more or not.
LEMMA TransferRight ==
  ASSUME TestsRight, tests # <<>>, tests \in Seq({"UPLOAD", "DOWNLOAD"}),
         ran \in Seq({"UPLOAD", "DOWNLOAD"} \X {"named", "found"}),
         NEW s \in {"named", "found"}, s = "named" => perform_server_url,
         tests' = Tail(tests),
         ran' = ran \/ ran' = Append(ran, <<Head(tests), s>>),
         UNCHANGED <<perform_server_url, OneOnly>>
  PROVE  /\ TestsRight'
         /\ tests' \in Seq({"UPLOAD", "DOWNLOAD"})
         /\ ran' \in Seq({"UPLOAD", "DOWNLOAD"} \X {"named", "found"})
<1> DEFINE o == Head(tests)
<1>1. /\ Len(tests) \in Nat /\ Len(tests) >= 1 /\ o = tests[1]
      /\ o \in {"UPLOAD", "DOWNLOAD"} /\ Len(ran) \in Nat
  OBVIOUS
<1>2. /\ tests' \in Seq({"UPLOAD", "DOWNLOAD"}) /\ Len(tests') = Len(tests) - 1
      /\ \A n \in 1 .. Len(tests') : tests'[n] = tests[n + 1] /\ n + 1 \in 1 .. Len(tests)
  BY <1>1
<1>3. /\ ran' \in Seq({"UPLOAD", "DOWNLOAD"} \X {"named", "found"})
      /\ \A n \in 1 .. Len(ran') : \/ n \in 1 .. Len(ran) /\ ran'[n] = ran[n]
                                   \/ n = Len(ran) + 1 /\ ran'[n] = <<o, s>>
  <2>1. CASE ran' = ran
    BY <2>1
  <2>2. CASE ran' = Append(ran, <<o, s>>)
    <3> DEFINE e == <<o, s>>
    <3>1. e \in {"UPLOAD", "DOWNLOAD"} \X {"named", "found"}
      BY <1>1
    <3> HIDE DEF e
    <3>2. /\ ran' \in Seq({"UPLOAD", "DOWNLOAD"} \X {"named", "found"})
          /\ \A n \in 1 .. Len(ran') : \/ n \in 1 .. Len(ran) /\ ran'[n] = ran[n]
                                       \/ n = Len(ran) + 1 /\ ran'[n] = e
      BY <2>2, <3>1, <1>1 DEF e
    <3> QED BY <3>2 DEF e
  <2> QED BY <2>1, <2>2
<1> HIDE DEF o
<1>4. \A n \in 1 .. Len(tests'), m \in 1 .. Len(ran') : tests'[n] # ran'[m][1]
  <2> SUFFICES ASSUME NEW n \in 1 .. Len(tests'), NEW m \in 1 .. Len(ran')
               PROVE  tests'[n] # ran'[m][1]
    OBVIOUS
  <2>1. tests'[n] = tests[n + 1] /\ n + 1 \in 1 .. Len(tests) /\ 1 < n + 1
    BY <1>2
  <2>2. CASE m \in 1 .. Len(ran) /\ ran'[m] = ran[m]
    BY <2>1, <2>2 DEF TestsRight
  <2>3. CASE ran'[m] = <<o, s>>
    BY <1>1, <2>1, <2>3 DEF TestsRight
  <2> QED BY <1>3, <2>2, <2>3
<1>5. \A n, m \in 1 .. Len(tests') : n < m => tests'[n] # tests'[m]
  <2> SUFFICES ASSUME NEW n \in 1 .. Len(tests'), NEW m \in 1 .. Len(tests'), n < m
               PROVE  tests'[n] # tests'[m]
    OBVIOUS
  <2> QED BY <1>2 DEF TestsRight
<1>6. OneOnly => \A n \in 1 .. Len(tests') : tests'[n] = "DOWNLOAD"
  BY <1>2 DEF TestsRight
<1>7. \A n \in 1 .. Len(ran') : ran'[n][2] = "named" => perform_server_url
  BY <1>3 DEF TestsRight
<1>8. \A n, m \in 1 .. Len(ran') : n < m => ran'[n][1] # ran'[m][1]
  <2> SUFFICES ASSUME NEW n \in 1 .. Len(ran'), NEW m \in 1 .. Len(ran'), n < m
               PROVE  ran'[n][1] # ran'[m][1]
    OBVIOUS
  <2>1. n \in 1 .. Len(ran) /\ ran'[n] = ran[n]
    BY <1>1, <1>3
  <2>2. CASE m \in 1 .. Len(ran) /\ ran'[m] = ran[m]
    BY <2>1, <2>2 DEF TestsRight
  <2>3. CASE ran'[m] = <<o, s>>
    BY <1>1, <2>1, <2>3 DEF TestsRight
  <2> QED BY <1>3, <2>2, <2>3
<1>9. OneOnly => \A n \in 1 .. Len(ran') : ran'[n][1] = "DOWNLOAD"
  BY <1>1, <1>3 DEF TestsRight
<1> QED BY <1>2, <1>3, <1>4, <1>5, <1>6, <1>7, <1>8, <1>9 DEF TestsRight

\* What the options say is right after one argument more.
LEMMA OptionRight ==
  ASSUME TypeOK, OptionsRight, TakeArgument
  PROVE  OptionsRight'
<1>1. /\ argv' = argv /\ i' = i + 1 /\ i \in 1 .. Len(argv) /\ ~Rejected
      /\ Len(argv) \in Nat
  BY ArgvAssumption DEF TypeOK, TakeArgument, SetOption
<1>2. ASSUME NEW o PROVE Seen(o)' <=> Seen(o) \/ argv[i] = o
  <2>1. \A n \in 1 .. i' - 1 : n \in 1 .. i - 1 \/ n = i
    BY <1>1
  <2>2. 1 .. i - 1 \subseteq 1 .. i' - 1 /\ i \in 1 .. i' - 1
    BY <1>1
  <2> QED BY <1>1, <2>1, <2>2 DEF Seen
<1>3. /\ perform_server_url' => perform_server_url \/ argv[i] = "--server"
      /\ m_test_only_upload' <=> m_test_only_upload \/ argv[i] = "--upload_testing"
      /\ m_test_only_download' <=> m_test_only_download \/ argv[i] = "--download_testing"
  BY Zenon DEF TakeArgument, SetOption
<1>4. /\ argv[i] # "--help"
      /\ ~(argv[i] = "--upload_testing" /\ m_test_only_download)
      /\ ~(argv[i] = "--download_testing" /\ m_test_only_upload)
  BY <1>1 DEF Rejected
<1>5. /\ perform_server_url' => Seen("--server")'
      /\ ~Seen("--help")'
      /\ m_test_only_download' <=> Seen("--download_testing")'
      /\ m_test_only_upload' <=> Seen("--upload_testing")'
  BY <1>2, <1>3, <1>4 DEF OptionsRight
<1>6. ~(m_test_only_download' /\ m_test_only_upload')
  BY <1>3, <1>4 DEF OptionsRight
<1> QED BY <1>5, <1>6 DEF OptionsRight

\* The other steps leave the options and the arguments alone.
LEMMA OptionsKept ==
  ASSUME OptionsRight, UNCHANGED <<argv, i, optVars>>
  PROVE  OptionsRight'
<1>1. ASSUME NEW o PROVE Seen(o)' <=> Seen(o)
  BY DEF Seen
<1> QED BY <1>1 DEF OptionsRight, optVars

\* The program starts in the invariant.
LEMMA InitInv == Init => IInv
<1> SUFFICES ASSUME Init PROVE IInv
  OBVIOUS
<1>1. ChoiceInv
  BY ChoiceInitRight DEF Init
<1>2. /\ argv \in Argvs /\ Len(argv) \in Nat /\ i = 1
  BY ArgvAssumption DEF Init
<1>3. TypeOK
  <2>1. /\ tests \in Seq({"UPLOAD", "DOWNLOAD"})
        /\ ran \in Seq({"UPLOAD", "DOWNLOAD"} \X {"named", "found"})
    BY DEF Init
  <2>2. {perform_server_url, m_test_only_upload, m_test_only_download} \subseteq BOOLEAN
    BY DEF Init
  <2>3. i \in 1 .. Len(argv) + 1
    BY <1>2
  <2>4. protocol \in {"HTTP", "HTTPS"} /\ number_of_thread \in Nat /\ at = "args"
    BY DEF Init
  <2> QED BY <1>1, <1>2, <2>1, <2>2, <2>3, <2>4 DEF TypeOK, ChoiceInv
<1>4. OptionsRight
  BY <1>2 DEF Init, OptionsRight, Seen
<1>5. RunsAfterAll /\ TestsRight
  BY DEF Init, RunsAfterAll, TestsRight
<1> QED BY <1>1, <1>3, <1>4, <1>5 DEF IInv, MainInv

\* Every step preserves it.
LEMMA NextInv == IInv /\ [Next]_vars => IInv'
<1> SUFFICES ASSUME IInv, [Next]_vars PROVE IInv'
  OBVIOUS
<1>0. /\ TypeOK /\ ChoiceInv /\ OptionsRight /\ RunsAfterAll /\ TestsRight
      /\ ChoiceType /\ Len(argv) \in Nat
  BY ArgvAssumption DEF IInv, MainInv, ChoiceInv, TypeOK
<1>1. CASE NoArguments
  <2>1. ChoiceInv'
    BY <1>0, <1>1, ChoiceKept DEF NoArguments, choiceVars
  <2>2. OptionsRight'
    BY <1>0, <1>1, OptionsKept DEF NoArguments
  <2>3. /\ tests = <<>> /\ ran = <<>> /\ ran' = <<>> /\ tests' = <<"UPLOAD", "DOWNLOAD">>
        /\ argv = <<>> /\ i' = i /\ argv' = argv /\ i = 1 /\ at' = "run"
    BY <1>0, <1>1 DEF NoArguments, RunsAfterAll, TypeOK
  <2>4. TypeOK'
    BY <1>0, <1>1, <2>1, <2>3 DEF NoArguments, TypeOK, optVars, ChoiceInv
  <2>5. RunsAfterAll'
    BY <2>3 DEF RunsAfterAll
  <2>6. ~OneOnly'
    BY <1>0, <1>1, <2>3 DEF NoArguments, optVars, OptionsRight, Seen, OneOnly
  <2>7. TestsRight'
    BY <2>3, <2>6 DEF TestsRight
  <2> QED BY <2>1, <2>2, <2>4, <2>5, <2>7 DEF IInv, MainInv
<1>2. CASE StopAtArgument
  <2>1. ChoiceInv'
    BY <1>0, <1>2, ChoiceKept DEF StopAtArgument, choiceVars
  <2>2. OptionsRight'
    BY <1>0, <1>2, OptionsKept DEF StopAtArgument
  <2>3. TypeOK'
    BY <1>0, <1>2, <2>1 DEF StopAtArgument, TypeOK, optVars, ChoiceInv
  <2>4. RunsAfterAll' /\ TestsRight'
    BY <1>0, <1>2 DEF StopAtArgument, RunsAfterAll, TestsRight, optVars, OneOnly
  <2> QED BY <2>1, <2>2, <2>3, <2>4 DEF IInv, MainInv
<1>3. CASE TakeArgument
  <2>1. ChoiceInv'
    BY <1>0, <1>3, ChoiceKept DEF TakeArgument, choiceVars
  <2>2. OptionsRight'
    BY <1>0, <1>3, OptionRight
  <2>3. /\ tests = <<>> /\ ran = <<>> /\ tests' = <<>> /\ ran' = <<>>
        /\ at = "args" /\ at' = "args" /\ argv' = argv
        /\ i' = i + 1 /\ i <= Len(argv)
    BY <1>0, <1>3 DEF TakeArgument, RunsAfterAll, SetOption
  <2>4. /\ perform_server_url' \in BOOLEAN /\ m_test_only_upload' \in BOOLEAN
        /\ m_test_only_download' \in BOOLEAN
    BY Zenon, <1>3 DEF TakeArgument, SetOption
  <2>5. protocol' \in {"HTTP", "HTTPS"} /\ number_of_thread' \in Nat
    BY <1>0, <1>3 DEF TakeArgument, SetOption, TypeOK, atoi
  <2>6. TypeOK'
    BY <1>0, <2>1, <2>3, <2>4, <2>5 DEF TypeOK, ChoiceInv
  <2>7. RunsAfterAll' /\ TestsRight'
    BY <2>3 DEF RunsAfterAll, TestsRight
  <2> QED BY <2>1, <2>2, <2>6, <2>7 DEF IInv, MainInv
<1>4. CASE Dispatch
  <2>1. ChoiceInv'
    BY <1>0, <1>4, ChoiceKept DEF Dispatch, choiceVars
  <2>2. OptionsRight'
    BY <1>0, <1>4, OptionsKept DEF Dispatch
  <2>3. /\ ran = <<>> /\ ran' = <<>> /\ at' = "run" /\ argv' = argv /\ i' = i
        /\ i = Len(argv) + 1
    BY <1>0, <1>4 DEF Dispatch, RunsAfterAll
  <2>4. \/ tests' = <<"DOWNLOAD">>
        \/ tests' = <<"DOWNLOAD", "UPLOAD">> /\ ~OneOnly'
    BY <1>4 DEF Dispatch, optVars, OneOnly
  <2>5. /\ tests' \in Seq({"UPLOAD", "DOWNLOAD"})
        /\ \A n, m \in 1 .. Len(tests') : n < m => tests'[n] # tests'[m]
        /\ OneOnly' => \A n \in 1 .. Len(tests') : tests'[n] = "DOWNLOAD"
    <3>1. CASE tests' = <<"DOWNLOAD">>
      BY <3>1
    <3>2. CASE tests' = <<"DOWNLOAD", "UPLOAD">> /\ ~OneOnly'
      <4>1. /\ tests' \in Seq({"UPLOAD", "DOWNLOAD"}) /\ Len(tests') = 2
            /\ tests'[1] = "DOWNLOAD" /\ tests'[2] = "UPLOAD"
        BY <3>2
      <4> QED BY <3>2, <4>1
    <3> QED BY <2>4, <3>1, <3>2
  <2>6. TypeOK'
    BY <1>0, <1>4, <2>1, <2>3, <2>5 DEF Dispatch, TypeOK, optVars, ChoiceInv
  <2>7. RunsAfterAll' /\ TestsRight'
    BY <2>3, <2>5 DEF RunsAfterAll, TestsRight
  <2> QED BY <2>1, <2>2, <2>6, <2>7 DEF IInv, MainInv
<1>5. CASE RunNamed
  <2>1. ChoiceInv'
    BY <1>0, <1>5, ChoiceKept DEF RunNamed, choiceVars
  <2>2. OptionsRight'
    BY <1>0, <1>5, OptionsKept DEF RunNamed
  <2>3. ran' = ran \/ ran' = Append(ran, <<Head(tests), "named">>)
    BY <1>5 DEF RunNamed, Transfer, ServerThroughName, NoServer
  <2>4. /\ tests # <<>> /\ tests' = Tail(tests) /\ perform_server_url
        /\ UNCHANGED <<argv, i, at, optVars>> /\ at = "run"
    BY <1>5 DEF RunNamed, NextTest
  <2>5. /\ TestsRight'
        /\ tests' \in Seq({"UPLOAD", "DOWNLOAD"})
        /\ ran' \in Seq({"UPLOAD", "DOWNLOAD"} \X {"named", "found"})
    <3>1. UNCHANGED <<perform_server_url, OneOnly>>
      BY <2>4 DEF optVars, OneOnly
    <3> QED BY <1>0, <2>3, <2>4, <3>1, TransferRight DEF TypeOK
  <2>6. TypeOK'
    BY <1>0, <2>1, <2>4, <2>5 DEF TypeOK, optVars, ChoiceInv
  <2>7. RunsAfterAll'
    BY <1>0, <2>4 DEF RunsAfterAll
  <2> QED BY <2>1, <2>2, <2>5, <2>6, <2>7 DEF IInv, MainInv
<1>6. CASE RunSearch
  <2>1. ChoiceInv'
    BY <1>0, <1>6, SearchRight DEF RunSearch
  <2>2. OptionsRight'
    BY <1>0, <1>6, OptionsKept DEF RunSearch, mainVars
  <2>3. TypeOK'
    BY <1>0, <1>6, <2>1 DEF RunSearch, mainVars, TypeOK, optVars, ChoiceInv
  <2>4. RunsAfterAll' /\ TestsRight'
    BY <1>0, <1>6 DEF RunSearch, mainVars, RunsAfterAll, TestsRight, optVars, OneOnly
  <2> QED BY <2>1, <2>2, <2>3, <2>4 DEF IInv, MainInv
<1>7. CASE RunChosen
  <2>1. ChoiceInv'
    BY <1>0, <1>7, ChoiceKept DEF RunChosen
  <2>2. OptionsRight'
    BY <1>0, <1>7, OptionsKept DEF RunChosen
  <2>3. ran' = ran \/ ran' = Append(ran, <<Head(tests), "found">>)
    BY <1>7 DEF RunChosen, Transfer
  <2>4. /\ tests # <<>> /\ tests' = Tail(tests)
        /\ UNCHANGED <<argv, i, at, optVars>> /\ at = "run"
    BY <1>7 DEF RunChosen, NextTest
  <2>5. /\ TestsRight'
        /\ tests' \in Seq({"UPLOAD", "DOWNLOAD"})
        /\ ran' \in Seq({"UPLOAD", "DOWNLOAD"} \X {"named", "found"})
    <3>1. UNCHANGED <<perform_server_url, OneOnly>>
      BY <2>4 DEF optVars, OneOnly
    <3> QED BY <1>0, <2>3, <2>4, <3>1, TransferRight DEF TypeOK
  <2>6. TypeOK'
    BY <1>0, <2>1, <2>4, <2>5 DEF TypeOK, optVars, ChoiceInv
  <2>7. RunsAfterAll'
    BY <1>0, <2>4 DEF RunsAfterAll
  <2> QED BY <2>1, <2>2, <2>5, <2>6, <2>7 DEF IInv, MainInv
<1>8. CASE Return \/ UNCHANGED vars
  <2>1. UNCHANGED <<argv, i, optVars, tests, ran, choiceVars>> /\ at' \in {at, "done"}
    BY <1>8 DEF Return, vars, mainVars
  <2>2. ChoiceInv'
    BY <1>0, <2>1, ChoiceKept DEF choiceVars
  <2>3. OptionsRight'
    BY <1>0, <2>1, OptionsKept
  <2>4. TypeOK'
    BY <1>0, <2>1, <2>2 DEF TypeOK, optVars, ChoiceInv
  <2>5. RunsAfterAll' /\ TestsRight'
    BY <1>0, <2>1 DEF RunsAfterAll, TestsRight, optVars, OneOnly
  <2> QED BY <2>2, <2>3, <2>4, <2>5 DEF IInv, MainInv
<1> QED
  BY <1>1, <1>2, <1>3, <1>4, <1>5, <1>6, <1>7, <1>8 DEF Next

-----------------------------------------------------------------------------
\* The invariant holds in every state of the program.
THEOREM Inductive == Spec => []IInv
  BY InitInv, NextInv, PTL DEF Spec

\* Every variable of main and of its search for a server keeps its type,
\* whatever the list, the distances and the command line are.
THEOREM TypeCorrect == Spec => []TypeOK
<1>1. IInv => TypeOK
  BY DEF IInv
<1> QED BY <1>1, Inductive, PTL

\* st_utilities_get_nearest_server keeps the nearest of the servers it has read,
\* sorted, in an array of any length.
THEOREM NearestAreKept == Spec => []NearestRight
<1>1. IInv => NearestRight
  BY DEF IInv, ChoiceInv
<1> QED BY <1>1, Inductive, PTL

\* st_utilities_get_best_server chooses the lowest of all latencies when slot 1
\* has one.
THEOREM LowestIsChosen == Spec => []LowestWhenFirstHas
<1>1. IInv => LowestWhenFirstHas
  BY DEF IInv, ChoiceInv
<1> QED BY <1>1, Inductive, PTL

\* main never runs more tests than the options allow: none after --help or two
\* contradicting options, one at most after either exclusive option, a download
\* only after --download_testing, each operation once, and the named server only
\* after --server; for every command line.  That the one test after
\* --upload_testing is an upload is not claimed, and is not so.
THEOREM TestsAreLimited == Spec => []TestsLimited
<1>1. IInv => TestsLimited
  <2> SUFFICES ASSUME IInv PROVE TestsLimited
    OBVIOUS
  <2>1. /\ OptionsRight /\ RunsAfterAll /\ TestsRight
        /\ Len(argv) \in Nat /\ ran \in Seq({"UPLOAD", "DOWNLOAD"} \X {"named", "found"})
    BY ArgvAssumption DEF IInv, MainInv, TypeOK
  <2>2. ASSUME ran # <<>>, NEW o PROVE Seen(o) <=> Given(o)
    BY <2>1, <2>2 DEF RunsAfterAll, Seen, Given
  <2>3. ASSUME Given("--help") \/ (Given("--upload_testing") /\ Given("--download_testing"))
        PROVE  ran = <<>>
    BY <2>1, <2>2, <2>3 DEF OptionsRight
  <2>4. ASSUME NEW n \in 1 .. Len(ran) PROVE ran # <<>>
    OBVIOUS
  <2>5. ASSUME Given("--download_testing") PROVE Ops \subseteq {"DOWNLOAD"}
    BY <2>1, <2>2, <2>4, <2>5 DEF OptionsRight, TestsRight, OneOnly, Ops
  <2>8. ASSUME Given("--upload_testing") PROVE Len(ran) <= 1
    <3> SUFFICES ASSUME ran # <<>> PROVE Len(ran) <= 1
      BY <2>1
    <3>1. \A n \in 1 .. Len(ran) : ran[n][1] = "DOWNLOAD"
      BY <2>1, <2>2, <2>8 DEF OptionsRight, TestsRight, OneOnly
    <3>2. \A n, m \in 1 .. Len(ran) : n < m => ran[n][1] # ran[m][1]
      BY <2>1 DEF TestsRight
    <3>3. Len(ran) \in Nat
      BY <2>1
    <3>4. ASSUME ~(Len(ran) <= 1) PROVE FALSE
      <4>1. 1 \in 1 .. Len(ran) /\ 2 \in 1 .. Len(ran) /\ 1 < 2
        BY <3>3, <3>4
      <4> QED BY <4>1, <3>1, <3>2
    <3> QED BY <3>4
  <2>6. ASSUME NEW n \in 1 .. Len(ran), ran[n][2] = "named" PROVE Given("--server")
    BY <2>1, <2>2, <2>4, <2>6 DEF OptionsRight, TestsRight
  <2>7. \A n, m \in 1 .. Len(ran) : n < m => ran[n][1] # ran[m][1]
    BY <2>1 DEF TestsRight
  <2> QED BY <2>3, <2>5, <2>6, <2>7, <2>8 DEF TestsLimited
<1> QED BY <1>1, Inductive, PTL
=============================================================================
