--------------------------- MODULE SpeedTestProofs ---------------------------
(***************************************************************************)
(* Proofs about SpeedTest for every number of slots, every set of threads, *)
(* every sequence of tests and every bound.                                *)
(***************************************************************************)
EXTENDS SpeedTest, FiniteSetTheorems, TLAPS

InTest == pc \in {"scan", "decide", "join", "free"}

\* What ties a thread that can still run to its slot: it is the one the slot
\* names, and the flag it will clear is up.  A slot whose flag is down has
\* therefore no thread, which is what lets the controller overwrite its tid.
LiveInv ==
  \A t \in Tid : Live(t) => /\ allocated
                            /\ todo # <<>> /\ kind[t] = Head(todo)
                            /\ tid[slot[t]] = t
                            /\ running[slot[t]] = 1

\* Where the controller is bounds the threads that are left.
CtlInv ==
  /\ InTest => allocated /\ todo # <<>>
  /\ pc \in {"begin", "free", "done"} => \A t \in Tid : ~Live(t)
  /\ pc = "join" => \A t \in Tid : Live(t) => slot[t] >= idx
  /\ pc \in {"decide", "free"} => idx = 0

\* The thread between its load and its store holds the mutex, and the total is
\* still the one it loaded.
LockInv ==
  /\ \A t \in Tid : st[t] = "store" => mutex = t /\ reg[t] = total[kind[t]]
  /\ total = credited

AlarmInv ==
  /\ timer = "off" => fired = begun
  /\ timer = "armed" => fired + 1 = begun /\ stop = 0
                        /\ pc \in {"scan", "decide", "killed"}

SocketInv == proto = "HTTP" => \A t \in open : Live(t) /\ st[t] # "clear"

\* What a thread is about to add is one unit, up or down.
AmtInv == \A t \in Tid : st[t] \in {"lock", "store"} => amt[t] \in {-1, 1}

IInv == /\ TypeOK /\ LiveInv /\ CtlInv /\ LockInv /\ AlarmInv /\ SocketInv
        /\ AmtInv

USE NAssumption, TidAssumption
-----------------------------------------------------------------------------
\* How the two loops over the slots move the index.
LEMMA NextSlotType ==
  ASSUME idx \in Slots, NextSlot
  PROVE  idx' \in Slots /\ pc' \in {pc, "decide"}
  BY DEF NextSlot, Slots

LEMMA NextJoinType ==
  ASSUME idx \in Slots, NextJoin
  PROVE  idx' \in Slots /\ pc' \in {pc, "free"}
  BY DEF NextJoin, Slots

\* The type invariant.  That the list of tests is not empty while one is under
\* way is needed where its head or its tail is taken.
LEMMA TypeStep == TypeOK /\ CtlInv /\ [Next]_vars => TypeOK'
<1> SUFFICES ASSUME TypeOK, CtlInv, [Next]_vars PROVE TypeOK'
  OBVIOUS
<1>1. CASE BeginTest
  <2>1. /\ pc' \in CtlLabels
        /\ idx' \in Slots
        /\ allocated' \in BOOLEAN
        /\ running' \in [Slots -> {0, 1}]
        /\ tid' \in [Slots -> Tid \cup {NoTid}]
        /\ stop' \in {0, 1}
        /\ timer' \in {"off", "armed"}
        /\ begun' \in Nat
    BY <1>1 DEF BeginTest, TypeOK, CtlLabels, Slots
  <2> QED
    BY <1>1, <2>1 DEF BeginTest, ctlVars, netVars, cntVars, thrVars, histVars, TypeOK
<1>2. CASE SkipTest
  <2>1. todo' \in Seq(Op)
    BY <1>2 DEF SkipTest, TypeOK, Op
  <2> QED
    BY <1>2, <2>1 DEF SkipTest, ctlVars, netVars, cntVars, thrVars, histVars, TypeOK
<1>3. CASE Exit
  <2>1. pc' \in CtlLabels
    BY <1>3 DEF Exit, TypeOK, CtlLabels
  <2> QED
    BY <1>3, <2>1 DEF Exit, ctlVars, netVars, cntVars, thrVars, histVars, TypeOK
<1>4. CASE ScanBusy
  <2>1. idx' \in Slots /\ pc' \in CtlLabels
    BY <1>4, NextSlotType, NextJoinType DEF ScanBusy, TypeOK, CtlLabels
  <2> QED
    BY <1>4, <2>1 DEF ScanBusy, ctlVars, netVars, cntVars, thrVars, histVars, TypeOK
<1>5. CASE CreateFails
  <2>2. idx' \in Slots /\ pc' \in CtlLabels
    BY <1>5, NextSlotType, NextJoinType DEF CreateFails, TypeOK, CtlLabels
  <2>3. running' \in [Slots -> {0, 1}]
    BY <1>5 DEF CreateFails, TypeOK
  <2>4. tid' \in [Slots -> Tid \cup {NoTid}]
    BY <1>5 DEF CreateFails, TypeOK
  <2> QED
    BY <1>5, <2>2, <2>3, <2>4 DEF CreateFails, ctlVars, netVars, cntVars, thrVars, histVars, TypeOK
<1>6. CASE Rescan
  <2>1. pc' \in CtlLabels
    BY <1>6 DEF Rescan, TypeOK, CtlLabels
  <2> QED
    BY <1>6, <2>1 DEF Rescan, ctlVars, netVars, cntVars, thrVars, histVars, TypeOK
<1>7. CASE Report
  <2>1. /\ pc' \in CtlLabels
        /\ reported' \in [Op -> Int]
    BY <1>7 DEF Report, TypeOK, CtlLabels, CtlInv, InTest
  <2> QED
    BY <1>7, <2>1 DEF Report, ctlVars, netVars, cntVars, thrVars, histVars, TypeOK
<1>8. CASE Join
  <2>2. idx' \in Slots /\ pc' \in CtlLabels
    BY <1>8, NextSlotType, NextJoinType DEF Join, TypeOK, CtlLabels
  <2> QED
    BY <1>8, <2>2 DEF Join, ctlVars, netVars, cntVars, thrVars, histVars, TypeOK
<1>9. CASE JoinInvalid
  <2>1. idx' \in Slots /\ pc' \in CtlLabels
    BY <1>9, NextSlotType, NextJoinType DEF JoinInvalid, TypeOK, CtlLabels
  <2> QED
    BY <1>9, <2>1 DEF JoinInvalid, ctlVars, netVars, cntVars, thrVars, histVars, TypeOK
<1>10. CASE Free
  <2>1. allocated' \in BOOLEAN
    BY <1>10 DEF Free, TypeOK
  <2>2. todo' \in Seq(Op)
    BY <1>10 DEF Free, TypeOK, Op, CtlInv, InTest
  <2>3. pc' \in CtlLabels
    BY <1>10 DEF Free, TypeOK, CtlLabels
  <2> QED
    BY <1>10, <2>1, <2>2, <2>3 DEF Free, ctlVars, netVars, cntVars, thrVars, histVars, TypeOK
<1>11. CASE Alarm
  <2>1. /\ stop' \in {0, 1}
        /\ timer' \in {"off", "armed"}
        /\ fired' \in Nat
    BY <1>11 DEF Alarm, TypeOK
  <2> QED
    BY <1>11, <2>1 DEF Alarm, ctlVars, netVars, cntVars, thrVars, histVars, TypeOK
<1>12. ASSUME NEW t \in Tid, CreateThread(t) PROVE TypeOK'
  <2>2. idx' \in Slots /\ pc' \in CtlLabels
    BY <1>12, NextSlotType, NextJoinType DEF CreateThread, TypeOK, CtlLabels
  <2>3. running' \in [Slots -> {0, 1}]
    BY <1>12 DEF CreateThread, TypeOK
  <2>4. tid' \in [Slots -> Tid \cup {NoTid}]
    BY <1>12 DEF CreateThread, TypeOK
  <2>5. st' \in [Tid -> WorkerLabels]
    BY <1>12 DEF CreateThread, NextSlot, TypeOK, WorkerLabels
  <2>6. slot' \in [Tid -> Slots]
    BY <1>12 DEF CreateThread, TypeOK
  <2>7. kind' \in [Tid -> Op]
    BY <1>12 DEF CreateThread, TypeOK, CtlInv, InTest
  <2> QED
    BY <1>12, <2>2, <2>3, <2>4, <2>5, <2>6, <2>7 DEF CreateThread, ctlVars, netVars, cntVars, thrVars, histVars, TypeOK
<1>13. ASSUME NEW t \in Tid, Connect(t) PROVE TypeOK'
  <2>1. /\ st' \in [Tid -> WorkerLabels]
        /\ open' \subseteq Tid
    BY <1>13 DEF Connect, Move, TypeOK, WorkerLabels
  <2> QED
    BY <1>13, <2>1 DEF Connect, ctlVars, netVars, cntVars, thrVars, histVars, TypeOK
<1>14. ASSUME NEW t \in Tid, ConnectHttps(t) PROVE TypeOK'
  <2>1. /\ st' \in [Tid -> WorkerLabels]
        /\ open' \subseteq Tid
        /\ pc' \in CtlLabels
    BY <1>14 DEF ConnectHttps, Move, TypeOK, WorkerLabels, CtlLabels
  <2> QED
    BY <1>14, <2>1 DEF ConnectHttps, ctlVars, netVars, cntVars, thrVars, histVars, TypeOK
<1>15. ASSUME NEW t \in Tid, SendHeader(t) PROVE TypeOK'
  <2>1. st' \in [Tid -> WorkerLabels]
    BY <1>15 DEF SendHeader, Move, TypeOK, WorkerLabels
  <2>2. amt' \in [Tid -> Int]
    BY <1>15 DEF SendHeader, TypeOK
  <2> QED
    BY <1>15, <2>1, <2>2 DEF SendHeader, ctlVars, netVars, cntVars, thrVars, histVars, TypeOK
<1>16. ASSUME NEW t \in Tid, HeaderFails(t) PROVE TypeOK'
  <2>1. st' \in [Tid -> WorkerLabels]
    BY <1>16 DEF HeaderFails, Move, TypeOK, WorkerLabels
  <2> QED
    BY <1>16, <2>1 DEF HeaderFails, ctlVars, netVars, cntVars, thrVars, histVars, TypeOK
<1>17. ASSUME NEW t \in Tid, Lock(t) PROVE TypeOK'
  <2>1. /\ st' \in [Tid -> WorkerLabels]
        /\ mutex' \in Tid \cup {NoTid}
        /\ reg' \in [Tid -> Int]
    BY <1>17 DEF Lock, Move, TypeOK, WorkerLabels
  <2> QED
    BY <1>17, <2>1 DEF Lock, ctlVars, netVars, cntVars, thrVars, histVars, TypeOK
<1>18. ASSUME NEW t \in Tid, Store(t) PROVE TypeOK'
  <2>1. st' \in [Tid -> WorkerLabels]
    BY <1>18 DEF Store, Move, TypeOK, WorkerLabels
  <2>a. /\ total \in [Op -> Int] /\ credited \in [Op -> Int]
        /\ amt[t] \in Int /\ reg[t] \in Int /\ kind[t] \in Op
    BY DEF TypeOK
  <2>b. /\ total' = [total EXCEPT ![kind[t]] = reg[t] + amt[t]]
        /\ credited' = [credited EXCEPT ![kind[t]] = @ + amt[t]]
    BY <1>18 DEF Store
  <2>2. total' \in [Op -> Int]
    BY <2>a, <2>b
  <2>3. credited' \in [Op -> Int]
    BY <2>a, <2>b
  <2>4. mutex' \in Tid \cup {NoTid}
    BY <1>18 DEF Store, TypeOK
  <2>5. amt' \in [Tid -> Int]
    BY <1>18 DEF Store, TypeOK
  <2>6. reg' \in [Tid -> Int]
    BY <1>18 DEF Store, TypeOK
  <2> QED
    BY <1>18, <2>1, <2>2, <2>3, <2>4, <2>5, <2>6 DEF Store, ctlVars, netVars, cntVars, thrVars, histVars, TypeOK
<1>19. ASSUME NEW t \in Tid, CheckStop(t) PROVE TypeOK'
  <2>1. st' \in [Tid -> WorkerLabels]
    BY <1>19 DEF CheckStop, AfterCheck, Move, TypeOK, WorkerLabels
  <2> QED
    BY <1>19, <2>1 DEF CheckStop, ctlVars, netVars, cntVars, thrVars, histVars, TypeOK
<1>20. ASSUME NEW t \in Tid, SelectReady(t) PROVE TypeOK'
  <2>1. st' \in [Tid -> WorkerLabels]
    BY <1>20 DEF SelectReady, Move, TypeOK, WorkerLabels
  <2> QED
    BY <1>20, <2>1 DEF SelectReady, ctlVars, netVars, cntVars, thrVars, histVars, TypeOK
<1>21. ASSUME NEW t \in Tid, SelectTimeout(t) PROVE TypeOK'
  <2>1. st' \in [Tid -> WorkerLabels]
    BY <1>21 DEF SelectTimeout, Move, TypeOK, WorkerLabels
  <2> QED
    BY <1>21, <2>1 DEF SelectTimeout, ctlVars, netVars, cntVars, thrVars, histVars, TypeOK
<1>22. ASSUME NEW t \in Tid, RecvData(t) PROVE TypeOK'
  <2>1. st' \in [Tid -> WorkerLabels]
    BY <1>22 DEF RecvData, Move, TypeOK, WorkerLabels
  <2>2. conn' \in [Tid -> {"empty", "data", "eof", "reset", "broken"}]
    BY <1>22 DEF RecvData, TypeOK
  <2>3. amt' \in [Tid -> Int]
    BY <1>22 DEF RecvData, TypeOK
  <2>4. taken' \in Nat
    BY <1>22 DEF RecvData, TypeOK
  <2> QED
    BY <1>22, <2>1, <2>2, <2>3, <2>4 DEF RecvData, ctlVars, netVars, cntVars, thrVars, histVars, TypeOK
<1>23. ASSUME NEW t \in Tid, RecvEnd(t) PROVE TypeOK'
  <2>1. st' \in [Tid -> WorkerLabels]
    BY <1>23 DEF RecvEnd, Move, TypeOK, WorkerLabels
  <2> QED
    BY <1>23, <2>1 DEF RecvEnd, ctlVars, netVars, cntVars, thrVars, histVars, TypeOK
<1>24. ASSUME NEW t \in Tid, LateData(t) PROVE TypeOK'
  <2>1. st' \in [Tid -> WorkerLabels]
    BY <1>24 DEF LateData, Move, TypeOK, WorkerLabels
  <2>2. conn' \in [Tid -> {"empty", "data", "eof", "reset", "broken"}]
    BY <1>24 DEF LateData, TypeOK
  <2>3. taken' \in Nat
    BY <1>24 DEF LateData, TypeOK
  <2>4. late' \in Nat
    BY <1>24 DEF LateData, TypeOK
  <2> QED
    BY <1>24, <2>1, <2>2, <2>3, <2>4 DEF LateData, ctlVars, netVars, cntVars, thrVars, histVars, TypeOK
<1>25. ASSUME NEW t \in Tid, LateEnd(t) PROVE TypeOK'
  <2>1. /\ st' \in [Tid -> WorkerLabels]
        /\ conn' \in [Tid -> {"empty", "data", "eof", "reset", "broken"}]
    BY <1>25 DEF LateEnd, Move, TypeOK, WorkerLabels
  <2> QED
    BY <1>25, <2>1 DEF LateEnd, ctlVars, netVars, cntVars, thrVars, histVars, TypeOK
<1>26. ASSUME NEW t \in Tid, Close(t) PROVE TypeOK'
  <2>1. /\ st' \in [Tid -> WorkerLabels]
        /\ open' \subseteq Tid
        /\ conn' \in [Tid -> {"empty", "data", "eof", "reset", "broken"}]
        /\ chunks' \in [Tid -> Nat]
        /\ j' \in [Tid -> Nat]
    BY <1>26 DEF Close, Move, TypeOK, WorkerLabels
  <2> QED
    BY <1>26, <2>1 DEF Close, ctlVars, netVars, cntVars, thrVars, histVars, TypeOK
<1>27. ASSUME NEW t \in Tid, ClearRunning(t) PROVE TypeOK'
  <2>1. /\ st' \in [Tid -> WorkerLabels]
        /\ running' \in [Slots -> {0, 1}]
    BY <1>27 DEF ClearRunning, Move, TypeOK, WorkerLabels
  <2> QED
    BY <1>27, <2>1 DEF ClearRunning, ctlVars, netVars, cntVars, thrVars, histVars, TypeOK
<1>28. ASSUME NEW t \in Tid, SigPipe(t) PROVE TypeOK'
  <2>1. pc' \in CtlLabels
    BY <1>28 DEF SigPipe, TypeOK, CtlLabels
  <2> QED
    BY <1>28, <2>1 DEF SigPipe, ctlVars, netVars, cntVars, thrVars, histVars, TypeOK
<1>29. ASSUME NEW t \in Tid, SendData(t) PROVE TypeOK'
  <2>1. st' \in [Tid -> WorkerLabels]
    BY <1>29 DEF SendData, Move, TypeOK, WorkerLabels
  <2>2. j' \in [Tid -> Nat]
    <3>1. j \in [Tid -> Nat]
      BY DEF TypeOK
    <3>2. j' = [j EXCEPT ![t] = @ + 1]
      BY <1>29 DEF SendData
    <3> QED
      BY <3>1, <3>2
  <2>3. amt' \in [Tid -> Int]
    BY <1>29 DEF SendData, TypeOK
  <2>4. conn' \in [Tid -> {"empty", "data", "eof", "reset", "broken"}]
    BY <1>29 DEF SendData, TypeOK
  <2> QED
    BY <1>29, <2>1, <2>2, <2>3, <2>4 DEF SendData, ctlVars, netVars, cntVars, thrVars, histVars, TypeOK
<1>30. ASSUME NEW t \in Tid, ServerData(t) PROVE TypeOK'
  <2>1. conn' \in [Tid -> {"empty", "data", "eof", "reset", "broken"}]
    BY <1>30 DEF ServerData, TypeOK
  <2>2. chunks' \in [Tid -> Nat]
    <3>1. chunks \in [Tid -> Nat]
      BY DEF TypeOK
    <3>2. chunks' = [chunks EXCEPT ![t] = @ + 1]
      BY <1>30 DEF ServerData
    <3> QED
      BY <3>1, <3>2
  <2> QED
    BY <1>30, <2>1, <2>2 DEF ServerData, ctlVars, netVars, cntVars, thrVars, histVars, TypeOK
<1>31. ASSUME NEW t \in Tid, ServerEnd(t) PROVE TypeOK'
  <2>1. conn' \in [Tid -> {"empty", "data", "eof", "reset", "broken"}]
    BY <1>31 DEF ServerEnd, TypeOK
  <2> QED
    BY <1>31, <2>1 DEF ServerEnd, ctlVars, netVars, cntVars, thrVars, histVars, TypeOK
<1>32. ASSUME NEW t \in Tid, ServerReset(t) PROVE TypeOK'
  <2>1. conn' \in [Tid -> {"empty", "data", "eof", "reset", "broken"}]
    BY <1>32 DEF ServerReset, TypeOK
  <2> QED
    BY <1>32, <2>1 DEF ServerReset, ctlVars, netVars, cntVars, thrVars, histVars, TypeOK
<1>33. CASE UNCHANGED vars
  BY <1>33 DEF vars, ctlVars, netVars, cntVars, thrVars, histVars, TypeOK
<1>34. QED
  BY <1>1, <1>2, <1>3, <1>4, <1>5, <1>6, <1>7, <1>8, <1>9, <1>10, <1>11, <1>12, <1>13, <1>14, <1>15, <1>16, <1>17, <1>18, <1>19, <1>20, <1>21, <1>22, <1>23, <1>24, <1>25, <1>26, <1>27, <1>28, <1>29, <1>30, <1>31, <1>32, <1>33 DEF Next, Controller, Worker, Server

\* A live thread keeps its slot: only the two actions that write a flag need
\* an argument.
LEMMA LiveInvStep == TypeOK /\ LiveInv /\ CtlInv /\ [Next]_vars => LiveInv'
<1> SUFFICES ASSUME TypeOK, LiveInv, CtlInv, [Next]_vars PROVE LiveInv'
  OBVIOUS
<1>1. CASE BeginTest
  BY <1>1 DEF BeginTest, ctlVars, netVars, cntVars, thrVars, histVars, TypeOK, LiveInv, CtlInv, Live, InTest
<1>2. CASE SkipTest
  BY <1>2 DEF SkipTest, ctlVars, netVars, cntVars, thrVars, histVars, TypeOK, LiveInv, CtlInv, Live, InTest
<1>3. CASE Exit
  BY <1>3 DEF Exit, ctlVars, netVars, cntVars, thrVars, histVars, TypeOK, LiveInv, CtlInv, Live, InTest
<1>4. CASE ScanBusy
  BY <1>4 DEF ScanBusy, NextSlot, ctlVars, netVars, cntVars, thrVars, histVars, TypeOK, LiveInv, CtlInv, Live, InTest
<1>5. CASE CreateFails
  BY <1>5 DEF CreateFails, NextSlot, ctlVars, netVars, cntVars, thrVars, histVars, TypeOK, LiveInv, CtlInv, Live, InTest
<1>6. CASE Rescan
  BY <1>6 DEF Rescan, ctlVars, netVars, cntVars, thrVars, histVars, TypeOK, LiveInv, CtlInv, Live, InTest
<1>7. CASE Report
  BY <1>7 DEF Report, ctlVars, netVars, cntVars, thrVars, histVars, TypeOK, LiveInv, CtlInv, Live, InTest
<1>8. CASE Join
  BY <1>8 DEF Join, NextJoin, ctlVars, netVars, cntVars, thrVars, histVars, TypeOK, LiveInv, CtlInv, Live, InTest
<1>9. CASE JoinInvalid
  BY <1>9 DEF JoinInvalid, NextJoin, ctlVars, netVars, cntVars, thrVars, histVars, TypeOK, LiveInv, CtlInv, Live, InTest
<1>10. CASE Free
  BY <1>10 DEF Free, ctlVars, netVars, cntVars, thrVars, histVars, TypeOK, LiveInv, CtlInv, Live, InTest
<1>11. CASE Alarm
  BY <1>11 DEF Alarm, ctlVars, netVars, cntVars, thrVars, histVars, TypeOK, LiveInv, CtlInv, Live, InTest
<1>12. ASSUME NEW t \in Tid, CreateThread(t) PROVE LiveInv'
  \* The flag of the slot is down, so no other live thread is in it.
  <2> SUFFICES ASSUME NEW u \in Tid, Live(u)'
               PROVE  /\ allocated' /\ todo' # <<>> /\ kind'[u] = Head(todo')
                      /\ tid'[slot'[u]] = u /\ running'[slot'[u]] = 1
    BY DEF LiveInv
  <2>1. allocated' /\ todo' # <<>> /\ todo' = todo
    BY <1>12 DEF CreateThread, CtlInv, InTest, ctlVars
  <2>2. CASE u = t
    BY <1>12, <2>1, <2>2 DEF CreateThread, TypeOK
  <2>3. CASE u # t
    <3>1. Live(u) /\ slot'[u] = slot[u] /\ kind'[u] = kind[u]
      BY <1>12, <2>3 DEF CreateThread, TypeOK, Live
    <3>2. slot[u] # idx
      BY <1>12, <3>1 DEF CreateThread, LiveInv
    <3> QED
      BY <1>12, <2>1, <3>1, <3>2 DEF CreateThread, TypeOK, LiveInv
  <2> QED
    BY <2>2, <2>3
<1>13. ASSUME NEW t \in Tid, Connect(t) PROVE LiveInv'
  <2>1. \A u \in Tid : Live(u)' => Live(u)
    BY <1>13 DEF Connect, Move, Live, TypeOK
  <2>2. UNCHANGED <<todo, allocated, running, tid, slot, kind>>
    BY <1>13 DEF Connect, ctlVars
  <2> QED
    BY <2>1, <2>2 DEF LiveInv
<1>14. ASSUME NEW t \in Tid, ConnectHttps(t) PROVE LiveInv'
  <2>1. \A u \in Tid : Live(u)' => Live(u)
    BY <1>14 DEF ConnectHttps, Move, Live, TypeOK
  <2>2. /\ pc' \in {pc, "killed"}
        /\ UNCHANGED <<todo, idx, allocated, running, tid, slot, kind>>
    BY <1>14 DEF ConnectHttps
  <2> QED
    BY <2>1, <2>2 DEF LiveInv
<1>15. ASSUME NEW t \in Tid, SendHeader(t) PROVE LiveInv'
  BY <1>15 DEF SendHeader, Move, ctlVars, netVars, cntVars, thrVars, histVars, TypeOK, LiveInv, CtlInv, Live, InTest
<1>16. ASSUME NEW t \in Tid, HeaderFails(t) PROVE LiveInv'
  BY <1>16 DEF HeaderFails, Move, ctlVars, netVars, cntVars, thrVars, histVars, TypeOK, LiveInv, CtlInv, Live, InTest
<1>17. ASSUME NEW t \in Tid, Lock(t) PROVE LiveInv'
  BY <1>17 DEF Lock, Move, ctlVars, netVars, cntVars, thrVars, histVars, TypeOK, LiveInv, CtlInv, Live, InTest
<1>18. ASSUME NEW t \in Tid, Store(t) PROVE LiveInv'
  BY <1>18 DEF Store, Move, ctlVars, netVars, cntVars, thrVars, histVars, TypeOK, LiveInv, CtlInv, Live, InTest
<1>19. ASSUME NEW t \in Tid, CheckStop(t) PROVE LiveInv'
  BY <1>19 DEF CheckStop, AfterCheck, Move, ctlVars, netVars, cntVars, thrVars, histVars, TypeOK, LiveInv, CtlInv, Live, InTest
<1>20. ASSUME NEW t \in Tid, SelectReady(t) PROVE LiveInv'
  BY <1>20 DEF SelectReady, Move, ctlVars, netVars, cntVars, thrVars, histVars, TypeOK, LiveInv, CtlInv, Live, InTest
<1>21. ASSUME NEW t \in Tid, SelectTimeout(t) PROVE LiveInv'
  BY <1>21 DEF SelectTimeout, Move, ctlVars, netVars, cntVars, thrVars, histVars, TypeOK, LiveInv, CtlInv, Live, InTest
<1>22. ASSUME NEW t \in Tid, RecvData(t) PROVE LiveInv'
  BY <1>22 DEF RecvData, Move, ctlVars, netVars, cntVars, thrVars, histVars, TypeOK, LiveInv, CtlInv, Live, InTest
<1>23. ASSUME NEW t \in Tid, RecvEnd(t) PROVE LiveInv'
  BY <1>23 DEF RecvEnd, Move, ctlVars, netVars, cntVars, thrVars, histVars, TypeOK, LiveInv, CtlInv, Live, InTest
<1>24. ASSUME NEW t \in Tid, LateData(t) PROVE LiveInv'
  BY <1>24 DEF LateData, Move, ctlVars, netVars, cntVars, thrVars, histVars, TypeOK, LiveInv, CtlInv, Live, InTest
<1>25. ASSUME NEW t \in Tid, LateEnd(t) PROVE LiveInv'
  BY <1>25 DEF LateEnd, Move, ctlVars, netVars, cntVars, thrVars, histVars, TypeOK, LiveInv, CtlInv, Live, InTest
<1>26. ASSUME NEW t \in Tid, Close(t) PROVE LiveInv'
  BY <1>26 DEF Close, Move, ctlVars, netVars, cntVars, thrVars, histVars, TypeOK, LiveInv, CtlInv, Live, InTest
<1>27. ASSUME NEW t \in Tid, ClearRunning(t) PROVE LiveInv'
  \* The slot names the thread that leaves, so no other live thread is in it.
  <2> SUFFICES ASSUME NEW u \in Tid, Live(u)'
               PROVE  /\ allocated' /\ todo' # <<>> /\ kind'[u] = Head(todo')
                      /\ tid'[slot'[u]] = u /\ running'[slot'[u]] = 1
    BY DEF LiveInv
  <2>1. u # t /\ Live(u)
    BY <1>27 DEF ClearRunning, Move, TypeOK, Live
  <2>2. Live(t)
    BY <1>27 DEF ClearRunning, Move, Live
  <2>3. slot[u] # slot[t]
    BY <2>1, <2>2 DEF LiveInv
  <2> QED
    BY <1>27, <2>1, <2>3 DEF ClearRunning, TypeOK, LiveInv, ctlVars, thrVars
<1>28. ASSUME NEW t \in Tid, SigPipe(t) PROVE LiveInv'
  BY <1>28 DEF SigPipe, ctlVars, netVars, cntVars, thrVars, histVars, TypeOK, LiveInv, CtlInv, Live, InTest
<1>29. ASSUME NEW t \in Tid, SendData(t) PROVE LiveInv'
  BY <1>29 DEF SendData, Move, ctlVars, netVars, cntVars, thrVars, histVars, TypeOK, LiveInv, CtlInv, Live, InTest
<1>30. ASSUME NEW t \in Tid, ServerData(t) PROVE LiveInv'
  BY <1>30 DEF ServerData, ctlVars, netVars, cntVars, thrVars, histVars, TypeOK, LiveInv, CtlInv, Live, InTest
<1>31. ASSUME NEW t \in Tid, ServerEnd(t) PROVE LiveInv'
  BY <1>31 DEF ServerEnd, ctlVars, netVars, cntVars, thrVars, histVars, TypeOK, LiveInv, CtlInv, Live, InTest
<1>32. ASSUME NEW t \in Tid, ServerReset(t) PROVE LiveInv'
  BY <1>32 DEF ServerReset, ctlVars, netVars, cntVars, thrVars, histVars, TypeOK, LiveInv, CtlInv, Live, InTest
<1>33. CASE UNCHANGED vars
  BY <1>33 DEF vars, ctlVars, netVars, cntVars, thrVars, histVars, TypeOK, LiveInv, CtlInv, Live, InTest
<1>34. QED
  BY <1>1, <1>2, <1>3, <1>4, <1>5, <1>6, <1>7, <1>8, <1>9, <1>10, <1>11, <1>12, <1>13, <1>14, <1>15, <1>16, <1>17, <1>18, <1>19, <1>20, <1>21, <1>22, <1>23, <1>24, <1>25, <1>26, <1>27, <1>28, <1>29, <1>30, <1>31, <1>32, <1>33 DEF Next, Controller, Worker, Server

\* The join loop gets rid of one slot's thread at a time.
LEMMA CtlInvStep == TypeOK /\ LiveInv /\ CtlInv /\ [Next]_vars => CtlInv'
<1> SUFFICES ASSUME TypeOK, LiveInv, CtlInv, [Next]_vars PROVE CtlInv'
  OBVIOUS
<1>1. CASE BeginTest
  BY <1>1 DEF BeginTest, ctlVars, netVars, cntVars, thrVars, histVars, TypeOK, LiveInv, CtlInv, Live, InTest, Slots
<1>2. CASE SkipTest
  BY <1>2 DEF SkipTest, ctlVars, netVars, cntVars, thrVars, histVars, TypeOK, LiveInv, CtlInv, Live, InTest, Slots
<1>3. CASE Exit
  BY <1>3 DEF Exit, ctlVars, netVars, cntVars, thrVars, histVars, TypeOK, LiveInv, CtlInv, Live, InTest, Slots
<1>4. CASE ScanBusy
  BY <1>4 DEF ScanBusy, NextSlot, ctlVars, netVars, cntVars, thrVars, histVars, TypeOK, LiveInv, CtlInv, Live, InTest, Slots
<1>5. CASE CreateFails
  BY <1>5 DEF CreateFails, NextSlot, ctlVars, netVars, cntVars, thrVars, histVars, TypeOK, LiveInv, CtlInv, Live, InTest, Slots
<1>6. CASE Rescan
  BY <1>6 DEF Rescan, ctlVars, netVars, cntVars, thrVars, histVars, TypeOK, LiveInv, CtlInv, Live, InTest, Slots
<1>7. CASE Report
  BY <1>7 DEF Report, ctlVars, netVars, cntVars, thrVars, histVars, TypeOK, LiveInv, CtlInv, Live, InTest, Slots
<1>8. CASE Join
  \* Slot idx has no live thread: the thread it waited for is gone.
  <2>1. \A t \in Tid : Live(t) => slot[t] \in Slots /\ slot[t] > idx
    BY <1>8 DEF Join, TypeOK, LiveInv, CtlInv, Live, Slots
  <2>2. \A t \in Tid : (Live(t)' <=> Live(t)) /\ slot'[t] = slot[t]
    BY <1>8 DEF Join, Live, thrVars
  <2>3. CASE NextJoin /\ idx = N - 1
    <3>1. \A t \in Tid : ~Live(t)'
      BY <2>1, <2>2, <2>3 DEF Slots
    <3> QED
      BY <1>8, <2>3, <3>1 DEF Join, NextJoin, CtlInv, InTest
  <2>4. CASE NextJoin /\ idx # N - 1
    <3>1. idx' = idx + 1 /\ pc' = "join"
      BY <1>8, <2>4 DEF Join, NextJoin
    <3>2. ASSUME NEW t \in Tid, Live(t)' PROVE slot'[t] >= idx'
      <4>1. slot[t] \in Slots /\ slot[t] > idx /\ slot'[t] = slot[t]
        BY <2>1, <2>2, <3>2
      <4>2. idx \in Int
        BY DEF TypeOK, Slots
      <4> QED
        BY <3>1, <4>1, <4>2 DEF Slots
    <3> QED
      BY <1>8, <3>1, <3>2 DEF Join, CtlInv, InTest
  <2>5. CASE pc' = "killed"
    BY <2>5 DEF CtlInv, InTest
  <2> QED
    BY <1>8, <2>3, <2>4, <2>5 DEF Join
<1>9. CASE JoinInvalid
  \* Slot idx has no live thread: it names no thread.
  <2>1. \A t \in Tid : Live(t) => slot[t] \in Slots /\ slot[t] > idx
    BY <1>9 DEF JoinInvalid, TypeOK, LiveInv, CtlInv, Live, Slots
  <2>2. \A t \in Tid : (Live(t)' <=> Live(t)) /\ slot'[t] = slot[t]
    BY <1>9 DEF JoinInvalid, Live, thrVars
  <2>3. CASE NextJoin /\ idx = N - 1
    <3>1. \A t \in Tid : ~Live(t)'
      BY <2>1, <2>2, <2>3 DEF Slots
    <3> QED
      BY <1>9, <2>3, <3>1 DEF JoinInvalid, NextJoin, CtlInv, InTest
  <2>4. CASE NextJoin /\ idx # N - 1
    <3>1. idx' = idx + 1 /\ pc' = "join"
      BY <1>9, <2>4 DEF JoinInvalid, NextJoin
    <3>2. ASSUME NEW t \in Tid, Live(t)' PROVE slot'[t] >= idx'
      <4>1. slot[t] \in Slots /\ slot[t] > idx /\ slot'[t] = slot[t]
        BY <2>1, <2>2, <3>2
      <4>2. idx \in Int
        BY DEF TypeOK, Slots
      <4> QED
        BY <3>1, <4>1, <4>2 DEF Slots
    <3> QED
      BY <1>9, <3>1, <3>2 DEF JoinInvalid, CtlInv, InTest
  <2>5. CASE pc' = "killed"
    BY <2>5 DEF CtlInv, InTest
  <2> QED
    BY <1>9, <2>3, <2>4, <2>5 DEF JoinInvalid
<1>10. CASE Free
  BY <1>10 DEF Free, ctlVars, netVars, cntVars, thrVars, histVars, TypeOK, LiveInv, CtlInv, Live, InTest, Slots
<1>11. CASE Alarm
  BY <1>11 DEF Alarm, ctlVars, netVars, cntVars, thrVars, histVars, TypeOK, LiveInv, CtlInv, Live, InTest, Slots
<1>12. ASSUME NEW t \in Tid, CreateThread(t) PROVE CtlInv'
  BY <1>12 DEF CreateThread, NextSlot, ctlVars, netVars, cntVars, thrVars, histVars, TypeOK, LiveInv, CtlInv, Live, InTest, Slots
<1>13. ASSUME NEW t \in Tid, Connect(t) PROVE CtlInv'
  BY <1>13 DEF Connect, Move, ctlVars, netVars, cntVars, thrVars, histVars, TypeOK, LiveInv, CtlInv, Live, InTest, Slots
<1>14. ASSUME NEW t \in Tid, ConnectHttps(t) PROVE CtlInv'
  <2>1. \A u \in Tid : Live(u)' => Live(u)
    BY <1>14 DEF ConnectHttps, Move, Live, TypeOK
  <2>2. /\ pc' \in {pc, "killed"}
        /\ UNCHANGED <<todo, idx, allocated, running, tid, slot, kind>>
    BY <1>14 DEF ConnectHttps
  <2> QED
    BY <2>1, <2>2 DEF CtlInv, InTest
<1>15. ASSUME NEW t \in Tid, SendHeader(t) PROVE CtlInv'
  BY <1>15 DEF SendHeader, Move, ctlVars, netVars, cntVars, thrVars, histVars, TypeOK, LiveInv, CtlInv, Live, InTest, Slots
<1>16. ASSUME NEW t \in Tid, HeaderFails(t) PROVE CtlInv'
  BY <1>16 DEF HeaderFails, Move, ctlVars, netVars, cntVars, thrVars, histVars, TypeOK, LiveInv, CtlInv, Live, InTest, Slots
<1>17. ASSUME NEW t \in Tid, Lock(t) PROVE CtlInv'
  BY <1>17 DEF Lock, Move, ctlVars, netVars, cntVars, thrVars, histVars, TypeOK, LiveInv, CtlInv, Live, InTest, Slots
<1>18. ASSUME NEW t \in Tid, Store(t) PROVE CtlInv'
  BY <1>18 DEF Store, Move, ctlVars, netVars, cntVars, thrVars, histVars, TypeOK, LiveInv, CtlInv, Live, InTest, Slots
<1>19. ASSUME NEW t \in Tid, CheckStop(t) PROVE CtlInv'
  BY <1>19 DEF CheckStop, AfterCheck, Move, ctlVars, netVars, cntVars, thrVars, histVars, TypeOK, LiveInv, CtlInv, Live, InTest, Slots
<1>20. ASSUME NEW t \in Tid, SelectReady(t) PROVE CtlInv'
  BY <1>20 DEF SelectReady, Move, ctlVars, netVars, cntVars, thrVars, histVars, TypeOK, LiveInv, CtlInv, Live, InTest, Slots
<1>21. ASSUME NEW t \in Tid, SelectTimeout(t) PROVE CtlInv'
  BY <1>21 DEF SelectTimeout, Move, ctlVars, netVars, cntVars, thrVars, histVars, TypeOK, LiveInv, CtlInv, Live, InTest, Slots
<1>22. ASSUME NEW t \in Tid, RecvData(t) PROVE CtlInv'
  BY <1>22 DEF RecvData, Move, ctlVars, netVars, cntVars, thrVars, histVars, TypeOK, LiveInv, CtlInv, Live, InTest, Slots
<1>23. ASSUME NEW t \in Tid, RecvEnd(t) PROVE CtlInv'
  BY <1>23 DEF RecvEnd, Move, ctlVars, netVars, cntVars, thrVars, histVars, TypeOK, LiveInv, CtlInv, Live, InTest, Slots
<1>24. ASSUME NEW t \in Tid, LateData(t) PROVE CtlInv'
  BY <1>24 DEF LateData, Move, ctlVars, netVars, cntVars, thrVars, histVars, TypeOK, LiveInv, CtlInv, Live, InTest, Slots
<1>25. ASSUME NEW t \in Tid, LateEnd(t) PROVE CtlInv'
  BY <1>25 DEF LateEnd, Move, ctlVars, netVars, cntVars, thrVars, histVars, TypeOK, LiveInv, CtlInv, Live, InTest, Slots
<1>26. ASSUME NEW t \in Tid, Close(t) PROVE CtlInv'
  BY <1>26 DEF Close, Move, ctlVars, netVars, cntVars, thrVars, histVars, TypeOK, LiveInv, CtlInv, Live, InTest, Slots
<1>27. ASSUME NEW t \in Tid, ClearRunning(t) PROVE CtlInv'
  BY <1>27 DEF ClearRunning, Move, ctlVars, netVars, cntVars, thrVars, histVars, TypeOK, LiveInv, CtlInv, Live, InTest, Slots
<1>28. ASSUME NEW t \in Tid, SigPipe(t) PROVE CtlInv'
  BY <1>28 DEF SigPipe, ctlVars, netVars, cntVars, thrVars, histVars, TypeOK, LiveInv, CtlInv, Live, InTest, Slots
<1>29. ASSUME NEW t \in Tid, SendData(t) PROVE CtlInv'
  BY <1>29 DEF SendData, Move, ctlVars, netVars, cntVars, thrVars, histVars, TypeOK, LiveInv, CtlInv, Live, InTest, Slots
<1>30. ASSUME NEW t \in Tid, ServerData(t) PROVE CtlInv'
  BY <1>30 DEF ServerData, ctlVars, netVars, cntVars, thrVars, histVars, TypeOK, LiveInv, CtlInv, Live, InTest, Slots
<1>31. ASSUME NEW t \in Tid, ServerEnd(t) PROVE CtlInv'
  BY <1>31 DEF ServerEnd, ctlVars, netVars, cntVars, thrVars, histVars, TypeOK, LiveInv, CtlInv, Live, InTest, Slots
<1>32. ASSUME NEW t \in Tid, ServerReset(t) PROVE CtlInv'
  BY <1>32 DEF ServerReset, ctlVars, netVars, cntVars, thrVars, histVars, TypeOK, LiveInv, CtlInv, Live, InTest, Slots
<1>33. CASE UNCHANGED vars
  BY <1>33 DEF vars, ctlVars, netVars, cntVars, thrVars, histVars, TypeOK, LiveInv, CtlInv, Live, InTest, Slots
<1>34. QED
  BY <1>1, <1>2, <1>3, <1>4, <1>5, <1>6, <1>7, <1>8, <1>9, <1>10, <1>11, <1>12, <1>13, <1>14, <1>15, <1>16, <1>17, <1>18, <1>19, <1>20, <1>21, <1>22, <1>23, <1>24, <1>25, <1>26, <1>27, <1>28, <1>29, <1>30, <1>31, <1>32, <1>33 DEF Next, Controller, Worker, Server

\* Only the holder of the mutex changes a total.
LEMMA LockInvStep == TypeOK /\ LockInv /\ [Next]_vars => LockInv'
<1> SUFFICES ASSUME TypeOK, LockInv, [Next]_vars PROVE LockInv'
  OBVIOUS
<1>1. CASE BeginTest
  BY <1>1 DEF BeginTest, ctlVars, netVars, cntVars, thrVars, histVars, TypeOK, LockInv
<1>2. CASE SkipTest
  BY <1>2 DEF SkipTest, ctlVars, netVars, cntVars, thrVars, histVars, TypeOK, LockInv
<1>3. CASE Exit
  BY <1>3 DEF Exit, ctlVars, netVars, cntVars, thrVars, histVars, TypeOK, LockInv
<1>4. CASE ScanBusy
  BY <1>4 DEF ScanBusy, NextSlot, ctlVars, netVars, cntVars, thrVars, histVars, TypeOK, LockInv
<1>5. CASE CreateFails
  BY <1>5 DEF CreateFails, NextSlot, ctlVars, netVars, cntVars, thrVars, histVars, TypeOK, LockInv
<1>6. CASE Rescan
  BY <1>6 DEF Rescan, ctlVars, netVars, cntVars, thrVars, histVars, TypeOK, LockInv
<1>7. CASE Report
  BY <1>7 DEF Report, ctlVars, netVars, cntVars, thrVars, histVars, TypeOK, LockInv
<1>8. CASE Join
  BY <1>8 DEF Join, NextJoin, ctlVars, netVars, cntVars, thrVars, histVars, TypeOK, LockInv
<1>9. CASE JoinInvalid
  BY <1>9 DEF JoinInvalid, NextJoin, ctlVars, netVars, cntVars, thrVars, histVars, TypeOK, LockInv
<1>10. CASE Free
  BY <1>10 DEF Free, ctlVars, netVars, cntVars, thrVars, histVars, TypeOK, LockInv
<1>11. CASE Alarm
  BY <1>11 DEF Alarm, ctlVars, netVars, cntVars, thrVars, histVars, TypeOK, LockInv
<1>12. ASSUME NEW t \in Tid, CreateThread(t) PROVE LockInv'
  BY <1>12 DEF CreateThread, NextSlot, ctlVars, netVars, cntVars, thrVars, histVars, TypeOK, LockInv
<1>13. ASSUME NEW t \in Tid, Connect(t) PROVE LockInv'
  BY <1>13 DEF Connect, Move, ctlVars, netVars, cntVars, thrVars, histVars, TypeOK, LockInv
<1>14. ASSUME NEW t \in Tid, ConnectHttps(t) PROVE LockInv'
  BY <1>14 DEF ConnectHttps, Move, ctlVars, netVars, cntVars, thrVars, histVars, TypeOK, LockInv
<1>15. ASSUME NEW t \in Tid, SendHeader(t) PROVE LockInv'
  BY <1>15 DEF SendHeader, Move, ctlVars, netVars, cntVars, thrVars, histVars, TypeOK, LockInv
<1>16. ASSUME NEW t \in Tid, HeaderFails(t) PROVE LockInv'
  BY <1>16 DEF HeaderFails, Move, ctlVars, netVars, cntVars, thrVars, histVars, TypeOK, LockInv
<1>17. ASSUME NEW t \in Tid, Lock(t) PROVE LockInv'
  BY <1>17 DEF Lock, Move, ctlVars, netVars, cntVars, thrVars, histVars, TypeOK, LockInv
<1>18. ASSUME NEW t \in Tid, Store(t) PROVE LockInv'
  BY <1>18 DEF Store, Move, ctlVars, netVars, cntVars, thrVars, histVars, TypeOK, LockInv
<1>19. ASSUME NEW t \in Tid, CheckStop(t) PROVE LockInv'
  BY <1>19 DEF CheckStop, AfterCheck, Move, ctlVars, netVars, cntVars, thrVars, histVars, TypeOK, LockInv
<1>20. ASSUME NEW t \in Tid, SelectReady(t) PROVE LockInv'
  BY <1>20 DEF SelectReady, Move, ctlVars, netVars, cntVars, thrVars, histVars, TypeOK, LockInv
<1>21. ASSUME NEW t \in Tid, SelectTimeout(t) PROVE LockInv'
  BY <1>21 DEF SelectTimeout, Move, ctlVars, netVars, cntVars, thrVars, histVars, TypeOK, LockInv
<1>22. ASSUME NEW t \in Tid, RecvData(t) PROVE LockInv'
  BY <1>22 DEF RecvData, Move, ctlVars, netVars, cntVars, thrVars, histVars, TypeOK, LockInv
<1>23. ASSUME NEW t \in Tid, RecvEnd(t) PROVE LockInv'
  BY <1>23 DEF RecvEnd, Move, ctlVars, netVars, cntVars, thrVars, histVars, TypeOK, LockInv
<1>24. ASSUME NEW t \in Tid, LateData(t) PROVE LockInv'
  BY <1>24 DEF LateData, Move, ctlVars, netVars, cntVars, thrVars, histVars, TypeOK, LockInv
<1>25. ASSUME NEW t \in Tid, LateEnd(t) PROVE LockInv'
  BY <1>25 DEF LateEnd, Move, ctlVars, netVars, cntVars, thrVars, histVars, TypeOK, LockInv
<1>26. ASSUME NEW t \in Tid, Close(t) PROVE LockInv'
  BY <1>26 DEF Close, Move, ctlVars, netVars, cntVars, thrVars, histVars, TypeOK, LockInv
<1>27. ASSUME NEW t \in Tid, ClearRunning(t) PROVE LockInv'
  BY <1>27 DEF ClearRunning, Move, ctlVars, netVars, cntVars, thrVars, histVars, TypeOK, LockInv
<1>28. ASSUME NEW t \in Tid, SigPipe(t) PROVE LockInv'
  BY <1>28 DEF SigPipe, ctlVars, netVars, cntVars, thrVars, histVars, TypeOK, LockInv
<1>29. ASSUME NEW t \in Tid, SendData(t) PROVE LockInv'
  BY <1>29 DEF SendData, Move, ctlVars, netVars, cntVars, thrVars, histVars, TypeOK, LockInv
<1>30. ASSUME NEW t \in Tid, ServerData(t) PROVE LockInv'
  BY <1>30 DEF ServerData, ctlVars, netVars, cntVars, thrVars, histVars, TypeOK, LockInv
<1>31. ASSUME NEW t \in Tid, ServerEnd(t) PROVE LockInv'
  BY <1>31 DEF ServerEnd, ctlVars, netVars, cntVars, thrVars, histVars, TypeOK, LockInv
<1>32. ASSUME NEW t \in Tid, ServerReset(t) PROVE LockInv'
  BY <1>32 DEF ServerReset, ctlVars, netVars, cntVars, thrVars, histVars, TypeOK, LockInv
<1>33. CASE UNCHANGED vars
  BY <1>33 DEF vars, ctlVars, netVars, cntVars, thrVars, histVars, TypeOK, LockInv
<1>34. QED
  BY <1>1, <1>2, <1>3, <1>4, <1>5, <1>6, <1>7, <1>8, <1>9, <1>10, <1>11, <1>12, <1>13, <1>14, <1>15, <1>16, <1>17, <1>18, <1>19, <1>20, <1>21, <1>22, <1>23, <1>24, <1>25, <1>26, <1>27, <1>28, <1>29, <1>30, <1>31, <1>32, <1>33 DEF Next, Controller, Worker, Server

\* One alarm per test, and a test does not leave its scan before it.
LEMMA AlarmInvStep == TypeOK /\ AlarmInv /\ [Next]_vars => AlarmInv'
<1> SUFFICES ASSUME TypeOK, AlarmInv, [Next]_vars PROVE AlarmInv'
  OBVIOUS
<1>1. CASE BeginTest
  BY <1>1 DEF BeginTest, ctlVars, netVars, cntVars, thrVars, histVars, TypeOK, AlarmInv
<1>2. CASE SkipTest
  BY <1>2 DEF SkipTest, ctlVars, netVars, cntVars, thrVars, histVars, TypeOK, AlarmInv
<1>3. CASE Exit
  BY <1>3 DEF Exit, ctlVars, netVars, cntVars, thrVars, histVars, TypeOK, AlarmInv
<1>4. CASE ScanBusy
  BY <1>4 DEF ScanBusy, NextSlot, ctlVars, netVars, cntVars, thrVars, histVars, TypeOK, AlarmInv
<1>5. CASE CreateFails
  BY <1>5 DEF CreateFails, NextSlot, ctlVars, netVars, cntVars, thrVars, histVars, TypeOK, AlarmInv
<1>6. CASE Rescan
  BY <1>6 DEF Rescan, ctlVars, netVars, cntVars, thrVars, histVars, TypeOK, AlarmInv
<1>7. CASE Report
  BY <1>7 DEF Report, ctlVars, netVars, cntVars, thrVars, histVars, TypeOK, AlarmInv
<1>8. CASE Join
  BY <1>8 DEF Join, NextJoin, ctlVars, netVars, cntVars, thrVars, histVars, TypeOK, AlarmInv
<1>9. CASE JoinInvalid
  BY <1>9 DEF JoinInvalid, NextJoin, ctlVars, netVars, cntVars, thrVars, histVars, TypeOK, AlarmInv
<1>10. CASE Free
  BY <1>10 DEF Free, ctlVars, netVars, cntVars, thrVars, histVars, TypeOK, AlarmInv
<1>11. CASE Alarm
  BY <1>11 DEF Alarm, ctlVars, netVars, cntVars, thrVars, histVars, TypeOK, AlarmInv
<1>12. ASSUME NEW t \in Tid, CreateThread(t) PROVE AlarmInv'
  BY <1>12 DEF CreateThread, NextSlot, ctlVars, netVars, cntVars, thrVars, histVars, TypeOK, AlarmInv
<1>13. ASSUME NEW t \in Tid, Connect(t) PROVE AlarmInv'
  BY <1>13 DEF Connect, Move, ctlVars, netVars, cntVars, thrVars, histVars, TypeOK, AlarmInv
<1>14. ASSUME NEW t \in Tid, ConnectHttps(t) PROVE AlarmInv'
  BY <1>14 DEF ConnectHttps, Move, ctlVars, netVars, cntVars, thrVars, histVars, TypeOK, AlarmInv
<1>15. ASSUME NEW t \in Tid, SendHeader(t) PROVE AlarmInv'
  BY <1>15 DEF SendHeader, Move, ctlVars, netVars, cntVars, thrVars, histVars, TypeOK, AlarmInv
<1>16. ASSUME NEW t \in Tid, HeaderFails(t) PROVE AlarmInv'
  BY <1>16 DEF HeaderFails, Move, ctlVars, netVars, cntVars, thrVars, histVars, TypeOK, AlarmInv
<1>17. ASSUME NEW t \in Tid, Lock(t) PROVE AlarmInv'
  BY <1>17 DEF Lock, Move, ctlVars, netVars, cntVars, thrVars, histVars, TypeOK, AlarmInv
<1>18. ASSUME NEW t \in Tid, Store(t) PROVE AlarmInv'
  BY <1>18 DEF Store, Move, ctlVars, netVars, cntVars, thrVars, histVars, TypeOK, AlarmInv
<1>19. ASSUME NEW t \in Tid, CheckStop(t) PROVE AlarmInv'
  BY <1>19 DEF CheckStop, AfterCheck, Move, ctlVars, netVars, cntVars, thrVars, histVars, TypeOK, AlarmInv
<1>20. ASSUME NEW t \in Tid, SelectReady(t) PROVE AlarmInv'
  BY <1>20 DEF SelectReady, Move, ctlVars, netVars, cntVars, thrVars, histVars, TypeOK, AlarmInv
<1>21. ASSUME NEW t \in Tid, SelectTimeout(t) PROVE AlarmInv'
  BY <1>21 DEF SelectTimeout, Move, ctlVars, netVars, cntVars, thrVars, histVars, TypeOK, AlarmInv
<1>22. ASSUME NEW t \in Tid, RecvData(t) PROVE AlarmInv'
  BY <1>22 DEF RecvData, Move, ctlVars, netVars, cntVars, thrVars, histVars, TypeOK, AlarmInv
<1>23. ASSUME NEW t \in Tid, RecvEnd(t) PROVE AlarmInv'
  BY <1>23 DEF RecvEnd, Move, ctlVars, netVars, cntVars, thrVars, histVars, TypeOK, AlarmInv
<1>24. ASSUME NEW t \in Tid, LateData(t) PROVE AlarmInv'
  BY <1>24 DEF LateData, Move, ctlVars, netVars, cntVars, thrVars, histVars, TypeOK, AlarmInv
<1>25. ASSUME NEW t \in Tid, LateEnd(t) PROVE AlarmInv'
  BY <1>25 DEF LateEnd, Move, ctlVars, netVars, cntVars, thrVars, histVars, TypeOK, AlarmInv
<1>26. ASSUME NEW t \in Tid, Close(t) PROVE AlarmInv'
  BY <1>26 DEF Close, Move, ctlVars, netVars, cntVars, thrVars, histVars, TypeOK, AlarmInv
<1>27. ASSUME NEW t \in Tid, ClearRunning(t) PROVE AlarmInv'
  BY <1>27 DEF ClearRunning, Move, ctlVars, netVars, cntVars, thrVars, histVars, TypeOK, AlarmInv
<1>28. ASSUME NEW t \in Tid, SigPipe(t) PROVE AlarmInv'
  BY <1>28 DEF SigPipe, ctlVars, netVars, cntVars, thrVars, histVars, TypeOK, AlarmInv
<1>29. ASSUME NEW t \in Tid, SendData(t) PROVE AlarmInv'
  BY <1>29 DEF SendData, Move, ctlVars, netVars, cntVars, thrVars, histVars, TypeOK, AlarmInv
<1>30. ASSUME NEW t \in Tid, ServerData(t) PROVE AlarmInv'
  BY <1>30 DEF ServerData, ctlVars, netVars, cntVars, thrVars, histVars, TypeOK, AlarmInv
<1>31. ASSUME NEW t \in Tid, ServerEnd(t) PROVE AlarmInv'
  BY <1>31 DEF ServerEnd, ctlVars, netVars, cntVars, thrVars, histVars, TypeOK, AlarmInv
<1>32. ASSUME NEW t \in Tid, ServerReset(t) PROVE AlarmInv'
  BY <1>32 DEF ServerReset, ctlVars, netVars, cntVars, thrVars, histVars, TypeOK, AlarmInv
<1>33. CASE UNCHANGED vars
  BY <1>33 DEF vars, ctlVars, netVars, cntVars, thrVars, histVars, TypeOK, AlarmInv
<1>34. QED
  BY <1>1, <1>2, <1>3, <1>4, <1>5, <1>6, <1>7, <1>8, <1>9, <1>10, <1>11, <1>12, <1>13, <1>14, <1>15, <1>16, <1>17, <1>18, <1>19, <1>20, <1>21, <1>22, <1>23, <1>24, <1>25, <1>26, <1>27, <1>28, <1>29, <1>30, <1>31, <1>32, <1>33 DEF Next, Controller, Worker, Server

\* Close precedes the end of an HTTP thread.
LEMMA SocketInvStep == TypeOK /\ SocketInv /\ [Next]_vars => SocketInv'
<1> SUFFICES ASSUME TypeOK, SocketInv, [Next]_vars PROVE SocketInv'
  OBVIOUS
<1>1. CASE BeginTest
  BY <1>1 DEF BeginTest, ctlVars, netVars, cntVars, thrVars, histVars, TypeOK, SocketInv, Live
<1>2. CASE SkipTest
  BY <1>2 DEF SkipTest, ctlVars, netVars, cntVars, thrVars, histVars, TypeOK, SocketInv, Live
<1>3. CASE Exit
  BY <1>3 DEF Exit, ctlVars, netVars, cntVars, thrVars, histVars, TypeOK, SocketInv, Live
<1>4. CASE ScanBusy
  BY <1>4 DEF ScanBusy, NextSlot, ctlVars, netVars, cntVars, thrVars, histVars, TypeOK, SocketInv, Live
<1>5. CASE CreateFails
  BY <1>5 DEF CreateFails, NextSlot, ctlVars, netVars, cntVars, thrVars, histVars, TypeOK, SocketInv, Live
<1>6. CASE Rescan
  BY <1>6 DEF Rescan, ctlVars, netVars, cntVars, thrVars, histVars, TypeOK, SocketInv, Live
<1>7. CASE Report
  BY <1>7 DEF Report, ctlVars, netVars, cntVars, thrVars, histVars, TypeOK, SocketInv, Live
<1>8. CASE Join
  BY <1>8 DEF Join, NextJoin, ctlVars, netVars, cntVars, thrVars, histVars, TypeOK, SocketInv, Live
<1>9. CASE JoinInvalid
  BY <1>9 DEF JoinInvalid, NextJoin, ctlVars, netVars, cntVars, thrVars, histVars, TypeOK, SocketInv, Live
<1>10. CASE Free
  BY <1>10 DEF Free, ctlVars, netVars, cntVars, thrVars, histVars, TypeOK, SocketInv, Live
<1>11. CASE Alarm
  BY <1>11 DEF Alarm, ctlVars, netVars, cntVars, thrVars, histVars, TypeOK, SocketInv, Live
<1>12. ASSUME NEW t \in Tid, CreateThread(t) PROVE SocketInv'
  BY <1>12 DEF CreateThread, NextSlot, ctlVars, netVars, cntVars, thrVars, histVars, TypeOK, SocketInv, Live
<1>13. ASSUME NEW t \in Tid, Connect(t) PROVE SocketInv'
  <2>1. /\ st' = [st EXCEPT ![t] = st'[t]] /\ st'[t] \in {"header", "close"}
        /\ open' \subseteq open \cup {t} /\ UNCHANGED proto
    BY <1>13 DEF Connect, Move, TypeOK
  <2> QED
    BY <2>1 DEF SocketInv, Live, TypeOK
<1>14. ASSUME NEW t \in Tid, ConnectHttps(t) PROVE SocketInv'
  BY <1>14 DEF ConnectHttps, Move, ctlVars, netVars, cntVars, thrVars, histVars, TypeOK, SocketInv, Live
<1>15. ASSUME NEW t \in Tid, SendHeader(t) PROVE SocketInv'
  BY <1>15 DEF SendHeader, Move, ctlVars, netVars, cntVars, thrVars, histVars, TypeOK, SocketInv, Live
<1>16. ASSUME NEW t \in Tid, HeaderFails(t) PROVE SocketInv'
  BY <1>16 DEF HeaderFails, Move, ctlVars, netVars, cntVars, thrVars, histVars, TypeOK, SocketInv, Live
<1>17. ASSUME NEW t \in Tid, Lock(t) PROVE SocketInv'
  BY <1>17 DEF Lock, Move, ctlVars, netVars, cntVars, thrVars, histVars, TypeOK, SocketInv, Live
<1>18. ASSUME NEW t \in Tid, Store(t) PROVE SocketInv'
  BY <1>18 DEF Store, Move, ctlVars, netVars, cntVars, thrVars, histVars, TypeOK, SocketInv, Live
<1>19. ASSUME NEW t \in Tid, CheckStop(t) PROVE SocketInv'
  BY <1>19 DEF CheckStop, AfterCheck, Move, ctlVars, netVars, cntVars, thrVars, histVars, TypeOK, SocketInv, Live
<1>20. ASSUME NEW t \in Tid, SelectReady(t) PROVE SocketInv'
  BY <1>20 DEF SelectReady, Move, ctlVars, netVars, cntVars, thrVars, histVars, TypeOK, SocketInv, Live
<1>21. ASSUME NEW t \in Tid, SelectTimeout(t) PROVE SocketInv'
  BY <1>21 DEF SelectTimeout, Move, ctlVars, netVars, cntVars, thrVars, histVars, TypeOK, SocketInv, Live
<1>22. ASSUME NEW t \in Tid, RecvData(t) PROVE SocketInv'
  BY <1>22 DEF RecvData, Move, ctlVars, netVars, cntVars, thrVars, histVars, TypeOK, SocketInv, Live
<1>23. ASSUME NEW t \in Tid, RecvEnd(t) PROVE SocketInv'
  BY <1>23 DEF RecvEnd, Move, ctlVars, netVars, cntVars, thrVars, histVars, TypeOK, SocketInv, Live
<1>24. ASSUME NEW t \in Tid, LateData(t) PROVE SocketInv'
  BY <1>24 DEF LateData, Move, ctlVars, netVars, cntVars, thrVars, histVars, TypeOK, SocketInv, Live
<1>25. ASSUME NEW t \in Tid, LateEnd(t) PROVE SocketInv'
  BY <1>25 DEF LateEnd, Move, ctlVars, netVars, cntVars, thrVars, histVars, TypeOK, SocketInv, Live
<1>26. ASSUME NEW t \in Tid, Close(t) PROVE SocketInv'
  BY <1>26 DEF Close, Move, ctlVars, netVars, cntVars, thrVars, histVars, TypeOK, SocketInv, Live
<1>27. ASSUME NEW t \in Tid, ClearRunning(t) PROVE SocketInv'
  BY <1>27 DEF ClearRunning, Move, ctlVars, netVars, cntVars, thrVars, histVars, TypeOK, SocketInv, Live
<1>28. ASSUME NEW t \in Tid, SigPipe(t) PROVE SocketInv'
  BY <1>28 DEF SigPipe, ctlVars, netVars, cntVars, thrVars, histVars, TypeOK, SocketInv, Live
<1>29. ASSUME NEW t \in Tid, SendData(t) PROVE SocketInv'
  BY <1>29 DEF SendData, Move, ctlVars, netVars, cntVars, thrVars, histVars, TypeOK, SocketInv, Live
<1>30. ASSUME NEW t \in Tid, ServerData(t) PROVE SocketInv'
  BY <1>30 DEF ServerData, ctlVars, netVars, cntVars, thrVars, histVars, TypeOK, SocketInv, Live
<1>31. ASSUME NEW t \in Tid, ServerEnd(t) PROVE SocketInv'
  BY <1>31 DEF ServerEnd, ctlVars, netVars, cntVars, thrVars, histVars, TypeOK, SocketInv, Live
<1>32. ASSUME NEW t \in Tid, ServerReset(t) PROVE SocketInv'
  BY <1>32 DEF ServerReset, ctlVars, netVars, cntVars, thrVars, histVars, TypeOK, SocketInv, Live
<1>33. CASE UNCHANGED vars
  BY <1>33 DEF vars, ctlVars, netVars, cntVars, thrVars, histVars, TypeOK, SocketInv, Live
<1>34. QED
  BY <1>1, <1>2, <1>3, <1>4, <1>5, <1>6, <1>7, <1>8, <1>9, <1>10, <1>11, <1>12, <1>13, <1>14, <1>15, <1>16, <1>17, <1>18, <1>19, <1>20, <1>21, <1>22, <1>23, <1>24, <1>25, <1>26, <1>27, <1>28, <1>29, <1>30, <1>31, <1>32, <1>33 DEF Next, Controller, Worker, Server

\* What a thread carries to the mutex is one unit.
LEMMA AmtInvStep == TypeOK /\ AmtInv /\ [Next]_vars => AmtInv'
<1> SUFFICES ASSUME TypeOK, AmtInv, [Next]_vars PROVE AmtInv'
  OBVIOUS
<1>1. CASE BeginTest
  BY <1>1 DEF BeginTest, ctlVars, netVars, cntVars, thrVars, histVars, TypeOK, AmtInv
<1>2. CASE SkipTest
  BY <1>2 DEF SkipTest, ctlVars, netVars, cntVars, thrVars, histVars, TypeOK, AmtInv
<1>3. CASE Exit
  BY <1>3 DEF Exit, ctlVars, netVars, cntVars, thrVars, histVars, TypeOK, AmtInv
<1>4. CASE ScanBusy
  BY <1>4 DEF ScanBusy, NextSlot, ctlVars, netVars, cntVars, thrVars, histVars, TypeOK, AmtInv
<1>5. CASE CreateFails
  BY <1>5 DEF CreateFails, NextSlot, ctlVars, netVars, cntVars, thrVars, histVars, TypeOK, AmtInv
<1>6. CASE Rescan
  BY <1>6 DEF Rescan, ctlVars, netVars, cntVars, thrVars, histVars, TypeOK, AmtInv
<1>7. CASE Report
  BY <1>7 DEF Report, ctlVars, netVars, cntVars, thrVars, histVars, TypeOK, AmtInv
<1>8. CASE Join
  BY <1>8 DEF Join, NextJoin, ctlVars, netVars, cntVars, thrVars, histVars, TypeOK, AmtInv
<1>9. CASE JoinInvalid
  BY <1>9 DEF JoinInvalid, NextJoin, ctlVars, netVars, cntVars, thrVars, histVars, TypeOK, AmtInv
<1>10. CASE Free
  BY <1>10 DEF Free, ctlVars, netVars, cntVars, thrVars, histVars, TypeOK, AmtInv
<1>11. CASE Alarm
  BY <1>11 DEF Alarm, ctlVars, netVars, cntVars, thrVars, histVars, TypeOK, AmtInv
<1>12. ASSUME NEW t \in Tid, CreateThread(t) PROVE AmtInv'
  BY <1>12 DEF CreateThread, NextSlot, ctlVars, netVars, cntVars, thrVars, histVars, TypeOK, AmtInv
<1>13. ASSUME NEW t \in Tid, Connect(t) PROVE AmtInv'
  BY <1>13 DEF Connect, Move, ctlVars, netVars, cntVars, thrVars, histVars, TypeOK, AmtInv
<1>14. ASSUME NEW t \in Tid, ConnectHttps(t) PROVE AmtInv'
  BY <1>14 DEF ConnectHttps, Move, ctlVars, netVars, cntVars, thrVars, histVars, TypeOK, AmtInv
<1>15. ASSUME NEW t \in Tid, SendHeader(t) PROVE AmtInv'
  BY <1>15 DEF SendHeader, Move, ctlVars, netVars, cntVars, thrVars, histVars, TypeOK, AmtInv
<1>16. ASSUME NEW t \in Tid, HeaderFails(t) PROVE AmtInv'
  BY <1>16 DEF HeaderFails, Move, ctlVars, netVars, cntVars, thrVars, histVars, TypeOK, AmtInv
<1>17. ASSUME NEW t \in Tid, Lock(t) PROVE AmtInv'
  BY <1>17 DEF Lock, Move, ctlVars, netVars, cntVars, thrVars, histVars, TypeOK, AmtInv
<1>18. ASSUME NEW t \in Tid, Store(t) PROVE AmtInv'
  BY <1>18 DEF Store, Move, ctlVars, netVars, cntVars, thrVars, histVars, TypeOK, AmtInv
<1>19. ASSUME NEW t \in Tid, CheckStop(t) PROVE AmtInv'
  BY <1>19 DEF CheckStop, AfterCheck, Move, ctlVars, netVars, cntVars, thrVars, histVars, TypeOK, AmtInv
<1>20. ASSUME NEW t \in Tid, SelectReady(t) PROVE AmtInv'
  BY <1>20 DEF SelectReady, Move, ctlVars, netVars, cntVars, thrVars, histVars, TypeOK, AmtInv
<1>21. ASSUME NEW t \in Tid, SelectTimeout(t) PROVE AmtInv'
  BY <1>21 DEF SelectTimeout, Move, ctlVars, netVars, cntVars, thrVars, histVars, TypeOK, AmtInv
<1>22. ASSUME NEW t \in Tid, RecvData(t) PROVE AmtInv'
  BY <1>22 DEF RecvData, Move, ctlVars, netVars, cntVars, thrVars, histVars, TypeOK, AmtInv
<1>23. ASSUME NEW t \in Tid, RecvEnd(t) PROVE AmtInv'
  BY <1>23 DEF RecvEnd, Move, ctlVars, netVars, cntVars, thrVars, histVars, TypeOK, AmtInv
<1>24. ASSUME NEW t \in Tid, LateData(t) PROVE AmtInv'
  BY <1>24 DEF LateData, Move, ctlVars, netVars, cntVars, thrVars, histVars, TypeOK, AmtInv
<1>25. ASSUME NEW t \in Tid, LateEnd(t) PROVE AmtInv'
  BY <1>25 DEF LateEnd, Move, ctlVars, netVars, cntVars, thrVars, histVars, TypeOK, AmtInv
<1>26. ASSUME NEW t \in Tid, Close(t) PROVE AmtInv'
  BY <1>26 DEF Close, Move, ctlVars, netVars, cntVars, thrVars, histVars, TypeOK, AmtInv
<1>27. ASSUME NEW t \in Tid, ClearRunning(t) PROVE AmtInv'
  BY <1>27 DEF ClearRunning, Move, ctlVars, netVars, cntVars, thrVars, histVars, TypeOK, AmtInv
<1>28. ASSUME NEW t \in Tid, SigPipe(t) PROVE AmtInv'
  BY <1>28 DEF SigPipe, ctlVars, netVars, cntVars, thrVars, histVars, TypeOK, AmtInv
<1>29. ASSUME NEW t \in Tid, SendData(t) PROVE AmtInv'
  BY <1>29 DEF SendData, Move, ctlVars, netVars, cntVars, thrVars, histVars, TypeOK, AmtInv
<1>30. ASSUME NEW t \in Tid, ServerData(t) PROVE AmtInv'
  BY <1>30 DEF ServerData, ctlVars, netVars, cntVars, thrVars, histVars, TypeOK, AmtInv
<1>31. ASSUME NEW t \in Tid, ServerEnd(t) PROVE AmtInv'
  BY <1>31 DEF ServerEnd, ctlVars, netVars, cntVars, thrVars, histVars, TypeOK, AmtInv
<1>32. ASSUME NEW t \in Tid, ServerReset(t) PROVE AmtInv'
  BY <1>32 DEF ServerReset, ctlVars, netVars, cntVars, thrVars, histVars, TypeOK, AmtInv
<1>33. CASE UNCHANGED vars
  BY <1>33 DEF vars, ctlVars, netVars, cntVars, thrVars, histVars, TypeOK, AmtInv
<1>34. QED
  BY <1>1, <1>2, <1>3, <1>4, <1>5, <1>6, <1>7, <1>8, <1>9, <1>10, <1>11, <1>12, <1>13, <1>14, <1>15, <1>16, <1>17, <1>18, <1>19, <1>20, <1>21, <1>22, <1>23, <1>24, <1>25, <1>26, <1>27, <1>28, <1>29, <1>30, <1>31, <1>32, <1>33 DEF Next, Controller, Worker, Server

-----------------------------------------------------------------------------
LEMMA InitInv == Init => IInv
<1> SUFFICES ASSUME Init PROVE IInv
  OBVIOUS
<1>1. TypeOK
  <2>1. todo \in Seq(Op)
    BY PlansAssumption DEF Init
  <2>2. 0 \in Slots /\ "DOWNLOAD" \in Op /\ pc \in CtlLabels
    BY DEF Init, Slots, Op, CtlLabels
  <2>3. st \in [Tid -> WorkerLabels]
    BY DEF Init, WorkerLabels
  <2>4. /\ conn \in [Tid -> {"empty", "data", "eof", "reset", "broken"}]
        /\ chunks \in [Tid -> Nat] /\ j \in [Tid -> Nat]
        /\ amt \in [Tid -> Int] /\ reg \in [Tid -> Int]
    BY DEF Init
  <2>5. /\ running \in [Slots -> {0, 1}] /\ tid \in [Slots -> Tid \cup {NoTid}]
        /\ slot \in [Tid -> Slots] /\ kind \in [Tid -> Op]
    BY <2>2 DEF Init
  <2>6. /\ total \in [Op -> Int] /\ credited \in [Op -> Int]
        /\ reported \in [Op -> Int]
    BY DEF Init
  <2> QED
    BY <2>1, <2>2, <2>3, <2>4, <2>5, <2>6 DEF Init, TypeOK
<1>2. LiveInv /\ CtlInv /\ LockInv /\ AlarmInv /\ SocketInv /\ AmtInv
  BY DEF Init, LiveInv, CtlInv, LockInv, AlarmInv, SocketInv, AmtInv, Live, InTest
<1> QED
  BY <1>1, <1>2 DEF IInv

\* The inductive invariant of the program.
THEOREM Inductive == Spec => []IInv
<1>1. IInv /\ [Next]_vars => IInv'
  BY TypeStep, LiveInvStep, CtlInvStep, LockInvStep, AlarmInvStep, SocketInvStep,
     AmtInvStep DEF IInv
<1> QED
  BY InitInv, <1>1, PTL DEF Spec

\* Every variable stays in its type, whatever the bounds.
THEOREM TypeCorrect == Spec => []TypeOK
<1>1. IInv => TypeOK
  BY DEF IInv
<1> QED
  BY Inductive, <1>1, PTL

\* speedtest_download and speedtest_upload free the array only when no thread
\* they created can write to it any more, although they join only the last
\* thread of each slot.
THEOREM SlotsOutliveThreads == Spec => []NoUseAfterFree
<1>1. IInv => NoUseAfterFree
  BY DEF IInv, LiveInv, NoUseAfterFree
<1> QED
  BY Inductive, <1>1, PTL

\* No two threads ever share a slot.
THEOREM SlotsAreExclusive == Spec => []OneThreadPerSlot
<1>1. IInv => OneThreadPerSlot
  BY DEF IInv, LiveInv, OneThreadPerSlot
<1> QED
  BY Inductive, <1>1, PTL

\* The mutex is enough: no transfer is lost from a total.
THEOREM NoLostUpdate == Spec => []TotalExact
<1>1. IInv => TotalExact
  BY DEF IInv, LockInv, TotalExact
<1> QED
  BY Inductive, <1>1, PTL

\* No test is cut short by the alarm of an earlier one.
THEOREM AlarmsDoNotLeak == Spec => []OwnAlarm
<1>1. IInv => OwnAlarm
  BY DEF IInv, AlarmInv, OwnAlarm, TypeOK
<1> QED
  BY Inductive, <1>1, PTL

\* Every HTTP thread that has returned has closed its socket.
THEOREM SocketsAreClosed == Spec => []SocketClosed
<1>1. IInv => SocketClosed
  BY DEF IInv, SocketInv, SocketClosed
<1> QED
  BY Inductive, <1>1, PTL

-----------------------------------------------------------------------------
(* Every chunk is counted once.                                            *)

\* The download threads between recv and the store of the total.
InHand == {t \in Tid : kind[t] = "DOWNLOAD" /\ st[t] \in {"lock", "store"}}

\* Each of them is about to add its one chunk, and only uploads send.
HandInv ==
  /\ \A t \in Tid : st[t] = "send" => kind[t] = "UPLOAD"
  /\ \A t \in InHand : amt[t] = 1

CountInv == HandInv /\ ChunksAccounted

\* The threads in hand can be counted, however many threads the system has:
\* each is the one its slot names.
LEMMA FewInHand == IInv => IsFiniteSet(InHand)
<1> SUFFICES ASSUME IInv PROVE IsFiniteSet(InHand)
  OBVIOUS
<1>1. IsFiniteSet(Slots)
  BY FS_Interval DEF Slots
<1>2. IsFiniteSet({tid[i] : i \in Slots})
  <2> DEFINE T == {tid[i] : i \in Slots}
  <2>1. tid \in Surjection(Slots, T)
    BY DEF IInv, TypeOK, Surjection
  <2> HIDE DEF T
  <2>2. IsFiniteSet(T)
    BY <1>1, <2>1, FS_Surjection
  <2> QED BY <2>2 DEF T
<1>3. InHand \subseteq {tid[i] : i \in Slots}
  <2> SUFFICES ASSUME NEW t \in InHand PROVE t \in {tid[i] : i \in Slots}
    OBVIOUS
  <2>1. Live(t) /\ t \in Tid
    BY DEF InHand, Live
  <2>2. tid[slot[t]] = t /\ slot[t] \in Slots
    BY <2>1 DEF IInv, LiveInv, TypeOK
  <2> QED BY <2>2
<1> QED BY <1>2, <1>3, FS_Subset

\* The steps that take nothing in hand and count nothing.
LEMMA CountKept ==
  ASSUME CountInv, HandInv', InHand' = InHand,
         total'["DOWNLOAD"] - taken' + late' = total["DOWNLOAD"] - taken + late,
         total["DOWNLOAD"] \in Int, total'["DOWNLOAD"] \in Int,
         {taken, taken', late, late'} \subseteq Nat, IsFiniteSet(InHand)
  PROVE  CountInv'
<1>1. Cardinality(InHand) \in Nat
  BY FS_CardinalityType
<1>2. taken = total["DOWNLOAD"] + Cardinality(InHand) + late
  BY DEF CountInv, ChunksAccounted, InHand
<1> DEFINE c == Cardinality(InHand)
<1> HIDE DEF c
<1>3. taken' = total'["DOWNLOAD"] + c + late'
  BY SMTT(30), <1>1, <1>2 DEF c
<1>4. c = Cardinality(InHand')
  BY DEF c
<1> QED BY <1>3, <1>4 DEF CountInv, ChunksAccounted, InHand

LEMMA CountStep == IInv /\ IInv' /\ CountInv /\ [Next]_vars => CountInv'
<1> SUFFICES ASSUME IInv, IInv', CountInv, [Next]_vars PROVE CountInv'
  OBVIOUS
<1>0. /\ TypeOK /\ TypeOK' /\ HandInv /\ "DOWNLOAD" \in Op
      /\ total["DOWNLOAD"] \in Int /\ total'["DOWNLOAD"] \in Int
      /\ {taken, taken', late, late'} \subseteq Nat
      /\ IsFiniteSet(InHand) /\ Cardinality(InHand) \in Nat
  <2>1. TypeOK /\ TypeOK'
    BY DEF IInv
  <2>2. "DOWNLOAD" \in Op
    BY DEF Op
  <2>3. total["DOWNLOAD"] \in Int /\ total'["DOWNLOAD"] \in Int
    BY <2>1, <2>2 DEF TypeOK
  <2> QED BY <2>1, <2>2, <2>3, FewInHand, FS_CardinalityType DEF TypeOK, CountInv
\* A thread moves, but not into the part where it has a chunk in hand, and not
\* out of it.
<1>1. ASSUME NEW t \in Tid, NEW to,
             Move(t, st[t], to), UNCHANGED <<kind, total, taken, late>>,
             \/ st[t] \notin {"lock", "store"} /\ (to \in {"lock", "store"} => kind[t] = "UPLOAD")
             \/ st[t] = "lock" /\ to = "store" /\ amt' = amt,
             to = "send" => kind[t] = "UPLOAD",
             \A u \in Tid : u # t => amt'[u] = amt[u]
      PROVE  CountInv'
  <2>1. \A u \in Tid : st'[u] = IF u = t THEN to ELSE st[u]
    BY <1>0, <1>1 DEF Move, TypeOK
  <2>2. InHand' = InHand
    BY <1>1, <2>1 DEF InHand
  <2>3. HandInv'
    BY <1>0, <1>1, <2>1, <2>2 DEF HandInv, InHand
  <2>4. total'["DOWNLOAD"] - taken' + late' = total["DOWNLOAD"] - taken + late
    BY <1>1
  <2> QED BY <1>0, <2>2, <2>3, <2>4, CountKept
\* No thread moves.
<1>2. ASSUME UNCHANGED <<st, kind, amt, total, taken, late>>
      PROVE  CountInv'
  <2>1. InHand' = InHand /\ HandInv'
    BY <1>0, <1>2 DEF InHand, HandInv
  <2>2. total'["DOWNLOAD"] - taken' + late' = total["DOWNLOAD"] - taken + late
    BY <1>2
  <2> QED BY <1>0, <2>1, <2>2, CountKept
<1>3. CASE BeginTest \/ SkipTest \/ Exit \/ ScanBusy \/ CreateFails \/ Rescan
  BY <1>2, <1>3 DEF BeginTest, SkipTest, Exit, ScanBusy, CreateFails, Rescan,
                    cntVars, thrVars, histVars
<1>4. CASE Report \/ Join \/ JoinInvalid \/ Free \/ Alarm \/ UNCHANGED vars
  BY <1>2, <1>4 DEF Report, Join, JoinInvalid, Free, Alarm, vars, cntVars, thrVars, histVars
<1>5. ASSUME NEW t \in Tid, SigPipe(t) \/ Server(t) PROVE CountInv'
  BY <1>2, <1>5 DEF SigPipe, Server, ServerData, ServerEnd, ServerReset,
                    cntVars, thrVars, histVars
<1>6. ASSUME NEW t \in Tid, CreateThread(t) PROVE CountInv'
  <2>1. /\ UNCHANGED <<amt, total, taken, late>> /\ st[t] = "none"
        /\ \A u \in Tid : st'[u] = IF u = t THEN "connect" ELSE st[u]
        /\ \A u \in Tid : u # t => kind'[u] = kind[u]
    BY <1>0, <1>6 DEF CreateThread, TypeOK, cntVars, histVars
  <2>2. InHand' = InHand /\ HandInv'
    BY <1>0, <2>1 DEF InHand, HandInv
  <2>3. total'["DOWNLOAD"] - taken' + late' = total["DOWNLOAD"] - taken + late
    BY <2>1
  <2> QED BY <1>0, <2>2, <2>3, CountKept
<1>7. ASSUME NEW t \in Tid,
             Connect(t) \/ ConnectHttps(t) \/ HeaderFails(t) \/ SelectReady(t)
             \/ SelectTimeout(t) \/ RecvEnd(t) \/ LateEnd(t) \/ Close(t) \/ ClearRunning(t)
      PROVE  CountInv'
  <2>1. UNCHANGED <<kind, amt, total, taken, late>>
    BY <1>7 DEF Connect, ConnectHttps, HeaderFails, SelectReady, SelectTimeout, RecvEnd,
                LateEnd, Close, ClearRunning, cntVars, thrVars, histVars
  <2>2. \/ UNCHANGED st
        \/ \E from \in {"connect", "header", "select", "ready", "late", "close", "clear"},
              to \in {"header", "close", "done", "select", "ready", "late", "clear"} :
             Move(t, from, to)
    BY <1>7 DEF Connect, ConnectHttps, HeaderFails, SelectReady, SelectTimeout, RecvEnd,
                LateEnd, Close, ClearRunning
  <2>3. CASE UNCHANGED st
    BY <1>2, <2>1, <2>3
  <2>4. CASE \E from \in {"connect", "header", "select", "ready", "late", "close", "clear"},
                to \in {"header", "close", "done", "select", "ready", "late", "clear"} :
               Move(t, from, to)
    <3>1. PICK to \in {"header", "close", "done", "select", "ready", "late", "clear"} :
            Move(t, st[t], to) /\ st[t] \notin {"lock", "store"}
      BY <2>4 DEF Move
    <3> QED BY <1>1, <2>1, <3>1
  <2> QED BY <2>2, <2>3, <2>4
<1>8. ASSUME NEW t \in Tid, SendHeader(t) PROVE CountInv'
  <2> DEFINE to == IF kind[t] = "UPLOAD" THEN "lock" ELSE "select"
  <2>1. /\ Move(t, st[t], to) /\ st[t] = "header"
        /\ UNCHANGED <<kind, total, taken, late>>
        /\ \A u \in Tid : u # t => amt'[u] = amt[u]
    BY <1>0, <1>8 DEF SendHeader, Move, TypeOK, cntVars, histVars
  <2> QED BY <1>1, <2>1
<1>9. ASSUME NEW t \in Tid, SendData(t) PROVE CountInv'
  <2>1. /\ Move(t, st[t], "lock") /\ st[t] = "send" /\ kind[t] = "UPLOAD"
        /\ UNCHANGED <<kind, total, taken, late>>
        /\ \A u \in Tid : u # t => amt'[u] = amt[u]
    BY <1>0, <1>9 DEF SendData, Move, TypeOK, HandInv, cntVars, histVars
  <2> QED BY <1>1, <2>1
<1>10. ASSUME NEW t \in Tid, Lock(t) PROVE CountInv'
  <2>1. /\ Move(t, st[t], "store") /\ st[t] = "lock"
        /\ UNCHANGED <<kind, amt, total, taken, late>>
    BY <1>10 DEF Lock, Move, histVars
  <2> QED BY <1>1, <2>1
<1>11. ASSUME NEW t \in Tid, CheckStop(t) PROVE CountInv'
  <2>1. /\ Move(t, st[t], AfterCheck(t)) /\ st[t] = "check"
        /\ UNCHANGED <<kind, amt, total, taken, late>>
    BY <1>11 DEF CheckStop, Move, cntVars, thrVars, histVars
  <2>2. /\ AfterCheck(t) \in {"close", "send", "select"}
        /\ AfterCheck(t) = "send" => kind[t] = "UPLOAD"
    BY DEF AfterCheck
  <2> QED BY <1>1, <2>1, <2>2
<1>12. ASSUME NEW t \in Tid, RecvData(t) PROVE CountInv'
  <2>1. CASE kind[t] = "UPLOAD"
    <3>1. /\ Move(t, st[t], "select") /\ st[t] = "ready"
          /\ UNCHANGED <<kind, total, taken, late>>
          /\ \A u \in Tid : u # t => amt'[u] = amt[u]
      BY <1>0, <1>12, <2>1 DEF RecvData, Move, TypeOK, cntVars
    <3> QED BY <1>1, <3>1
  <2>2. CASE kind[t] = "DOWNLOAD"
    <3>1. /\ UNCHANGED <<kind, total, late>> /\ taken' = taken + 1
          /\ st[t] = "ready" /\ \A u \in Tid : st'[u] = IF u = t THEN "lock" ELSE st[u]
          /\ \A u \in Tid : amt'[u] = IF u = t THEN 1 ELSE amt[u]
      BY <1>0, <1>12, <2>2 DEF RecvData, Move, TypeOK, cntVars
    <3>2. InHand' = InHand \cup {t} /\ t \notin InHand
      BY <2>2, <3>1 DEF InHand
    <3>3. Cardinality(InHand') = Cardinality(InHand) + 1
      BY <1>0, <3>2, FS_AddElement
    <3>4. HandInv'
      BY <1>0, <3>1, <3>2 DEF HandInv, InHand
    <3>5. taken = total["DOWNLOAD"] + Cardinality(InHand) + late
      BY DEF CountInv, ChunksAccounted, InHand
    <3>6. taken' = total'["DOWNLOAD"] + Cardinality(InHand') + late'
      BY <1>0, <3>1, <3>3, <3>5
    <3> QED BY <3>4, <3>6 DEF CountInv, ChunksAccounted, InHand
  <2> QED BY <1>0, <2>1, <2>2 DEF TypeOK, Op
<1>13. ASSUME NEW t \in Tid, Store(t) PROVE CountInv'
  <2>1. /\ st[t] = "store" /\ UNCHANGED <<kind, taken, late>>
        /\ total' = [total EXCEPT ![kind[t]] = reg[t] + amt[t]]
        /\ \A u \in Tid : u # t => amt'[u] = amt[u]
        /\ reg[t] = total[kind[t]]
    BY <1>0, <1>13 DEF Store, Move, TypeOK, IInv, LockInv, histVars
  <2>2. CASE kind[t] = "UPLOAD"
    <3>1. /\ \A u \in Tid : u # t => st'[u] = st[u]
          /\ st'[t] \in {"send", "check"}
          /\ total'["DOWNLOAD"] = total["DOWNLOAD"]
      BY <1>0, <1>13, <2>1, <2>2 DEF Store, Move, TypeOK
    <3>2. InHand' = InHand /\ HandInv'
      BY <1>0, <2>1, <2>2, <3>1 DEF InHand, HandInv
    <3>3. total'["DOWNLOAD"] - taken' + late' = total["DOWNLOAD"] - taken + late
      BY <2>1, <3>1
    <3> QED BY <1>0, <3>2, <3>3, CountKept
  <2>3. CASE kind[t] = "DOWNLOAD"
    <3>1. \A u \in Tid : st'[u] = IF u = t THEN "check" ELSE st[u]
      BY <1>0, <1>13, <2>3 DEF Store, Move, TypeOK
    <3>2. t \in InHand /\ InHand' = InHand \ {t}
      BY <2>1, <2>3, <3>1 DEF InHand
    <3>3. Cardinality(InHand') = Cardinality(InHand) - 1
      BY <1>0, <3>2, FS_RemoveElement
    <3>4. HandInv'
      BY <1>0, <2>1, <3>1, <3>2 DEF HandInv, InHand
    <3>5. amt[t] = 1
      BY <1>0, <3>2 DEF HandInv
    <3>6. total'["DOWNLOAD"] = total["DOWNLOAD"] + 1
      BY <1>0, <2>1, <2>3, <3>5 DEF TypeOK
    <3>7. taken = total["DOWNLOAD"] + Cardinality(InHand) + late
      BY DEF CountInv, ChunksAccounted, InHand
    <3>8. taken' = total'["DOWNLOAD"] + Cardinality(InHand') + late'
      BY <1>0, <2>1, <3>3, <3>6, <3>7
    <3> QED BY <3>4, <3>8 DEF CountInv, ChunksAccounted, InHand
  <2> QED BY <1>0, <2>2, <2>3 DEF TypeOK, Op
<1>14. ASSUME NEW t \in Tid, LateData(t) PROVE CountInv'
  <2>1. /\ st[t] = "late" /\ UNCHANGED <<kind, amt, total>>
        /\ \A u \in Tid : st'[u] = IF u = t THEN "select" ELSE st[u]
        /\ \E d \in {0, 1} : taken' = taken + d /\ late' = late + d
    BY <1>0, <1>14 DEF LateData, Move, TypeOK, cntVars, thrVars
  <2>2. InHand' = InHand /\ HandInv'
    BY <1>0, <2>1 DEF InHand, HandInv
  <2>3. total'["DOWNLOAD"] - taken' + late' = total["DOWNLOAD"] - taken + late
    BY <1>0, <2>1
  <2> QED BY <1>0, <2>2, <2>3, CountKept
<1> QED
  BY <1>3, <1>4, <1>5, <1>6, <1>7, <1>8, <1>9, <1>10, <1>11, <1>12, <1>13, <1>14
  DEF Next, Controller, Worker

\* Every chunk a download thread received is counted once, is about to be, or
\* was dropped after a select that had timed out, for every number of threads
\* and whatever they are doing.
THEOREM ChunksAreCounted == Spec => []ChunksAccounted
<1>1. Init => CountInv
  <2> SUFFICES ASSUME Init PROVE CountInv
    OBVIOUS
  <2>1. InHand = {}
    BY DEF Init, InHand
  <2>2. Cardinality(InHand) = 0
    BY <2>1, FS_EmptySet
  <2>3. taken = total["DOWNLOAD"] + Cardinality(InHand) + late
    BY <2>2 DEF Init, Op
  <2> QED BY <2>1, <2>3 DEF Init, CountInv, HandInv, ChunksAccounted, InHand
<1>2. CountInv => ChunksAccounted
  BY DEF CountInv
<1> QED
  BY <1>1, <1>2, CountStep, Inductive, PTL DEF Spec

-----------------------------------------------------------------------------
(* The program implements Meter.  A store under the mutex is one whole       *)
(* transfer; everything else is a step of the test's life or invisible.      *)

LEMMA MeterInit == Init => M!Init
  BY PlansAssumption DEF Init, M!Init, Phase

\* The steps that Meter does not see.
LEMMA Invisible ==
  ASSUME UNCHANGED <<todo, Phase, total, reported>>
  PROVE  UNCHANGED M!vars
  BY DEF M!vars

LEMMA MeterStep == IInv /\ [Next]_vars => [M!Next]_(M!vars)
<1> SUFFICES ASSUME IInv, [Next]_vars PROVE [M!Next]_(M!vars)
  OBVIOUS
<1> USE DEF M!Next
<1>1. CASE BeginTest
  BY <1>1 DEF BeginTest, M!Begin, Phase, cntVars, ctlVars
<1>2. CASE SkipTest
  BY <1>2 DEF SkipTest, M!Skip, Phase, cntVars, ctlVars
<1>3. CASE Exit
  BY <1>3 DEF Exit, M!Finish, Phase, cntVars, ctlVars
<1>4. CASE ScanBusy
  BY <1>4, Invisible DEF ScanBusy, NextSlot, Phase, ctlVars, cntVars
<1>5. CASE CreateFails
  BY <1>5, Invisible DEF CreateFails, NextSlot, Phase, ctlVars, cntVars
<1>6. CASE Rescan
  BY <1>6, Invisible DEF Rescan, Phase, ctlVars, cntVars
<1>7. CASE Report
  BY <1>7 DEF Report, M!Show, Phase, cntVars, ctlVars
<1>8. CASE Join
  BY <1>8, Invisible DEF Join, NextJoin, Phase, ctlVars, cntVars
<1>9. CASE JoinInvalid
  <2>1. CASE NextJoin
    BY <1>9, <2>1, Invisible DEF JoinInvalid, NextJoin, Phase, cntVars
  <2>2. CASE pc' = "killed"
    BY <1>9, <2>2 DEF JoinInvalid, M!Killed, Phase, cntVars
  <2> QED
    BY <1>9, <2>1, <2>2 DEF JoinInvalid
<1>10. CASE Free
  BY <1>10 DEF Free, M!End, Phase, cntVars, ctlVars, IInv, CtlInv, InTest
<1>11. CASE Alarm
  BY <1>11, Invisible DEF Alarm, Phase, ctlVars, cntVars
<1>12. ASSUME NEW t \in Tid, CreateThread(t) PROVE [M!Next]_(M!vars)
  BY <1>12, Invisible DEF CreateThread, NextSlot, Phase, ctlVars, cntVars
<1>13. ASSUME NEW t \in Tid, Connect(t) PROVE [M!Next]_(M!vars)
  BY <1>13, Invisible DEF Connect, Phase, ctlVars, cntVars
<1>14. ASSUME NEW t \in Tid, ConnectHttps(t) PROVE [M!Next]_(M!vars)
  <2>1. Live(t) /\ Up
    BY <1>14 DEF ConnectHttps, Move, Live
  <2>2. Phase \in {"measuring", "shown"}
    BY <2>1 DEF IInv, TypeOK, CtlInv, CtlLabels, Phase, Up
  <2>3. CASE pc' = "killed"
    BY <1>14, <2>2, <2>3 DEF ConnectHttps, M!Killed, Phase, cntVars
  <2>4. CASE pc' = pc
    BY <1>14, <2>4, Invisible DEF ConnectHttps, Phase, cntVars
  <2> QED
    BY <1>14, <2>3, <2>4 DEF ConnectHttps
<1>15. ASSUME NEW t \in Tid, SendHeader(t) PROVE [M!Next]_(M!vars)
  BY <1>15, Invisible DEF SendHeader, Phase, ctlVars, cntVars
<1>16. ASSUME NEW t \in Tid, HeaderFails(t) PROVE [M!Next]_(M!vars)
  BY <1>16, Invisible DEF HeaderFails, Phase, ctlVars, cntVars
<1>17. ASSUME NEW t \in Tid, Lock(t) PROVE [M!Next]_(M!vars)
  BY <1>17, Invisible DEF Lock, Phase, ctlVars, cntVars
<1>18. ASSUME NEW t \in Tid, Store(t) PROVE [M!Next]_(M!vars)
  <2>1. st[t] = "store" /\ Live(t) /\ Up
    BY <1>18 DEF Store, Move, Live
  <2>2. Phase \in {"measuring", "shown"}
    BY <2>1 DEF IInv, TypeOK, CtlInv, CtlLabels, Phase, Up
  <2>3. kind[t] = Head(todo) /\ reg[t] = total[kind[t]] /\ kind[t] \in Op
    BY <2>1 DEF IInv, LiveInv, LockInv, TypeOK
  <2>4. total' = [total EXCEPT ![Head(todo)] = @ + amt[t]]
    BY <1>18, <2>3 DEF Store
  <2>5. amt[t] \in {-1, 1}
    BY <2>1 DEF IInv, AmtInv
  <2>6. M!Add(amt[t])
    BY <1>18, <2>2, <2>4 DEF Store, M!Add, Phase, ctlVars
  <2> QED
    BY <2>5, <2>6
<1>19. ASSUME NEW t \in Tid, CheckStop(t) PROVE [M!Next]_(M!vars)
  BY <1>19, Invisible DEF CheckStop, Phase, ctlVars, cntVars
<1>20. ASSUME NEW t \in Tid, SelectReady(t) PROVE [M!Next]_(M!vars)
  BY <1>20, Invisible DEF SelectReady, Phase, ctlVars, cntVars
<1>21. ASSUME NEW t \in Tid, SelectTimeout(t) PROVE [M!Next]_(M!vars)
  BY <1>21, Invisible DEF SelectTimeout, Phase, ctlVars, cntVars
<1>22. ASSUME NEW t \in Tid, RecvData(t) PROVE [M!Next]_(M!vars)
  BY <1>22, Invisible DEF RecvData, Phase, ctlVars, cntVars
<1>23. ASSUME NEW t \in Tid, RecvEnd(t) PROVE [M!Next]_(M!vars)
  BY <1>23, Invisible DEF RecvEnd, Phase, ctlVars, cntVars
<1>24. ASSUME NEW t \in Tid, LateData(t) PROVE [M!Next]_(M!vars)
  BY <1>24, Invisible DEF LateData, Phase, ctlVars, cntVars
<1>25. ASSUME NEW t \in Tid, LateEnd(t) PROVE [M!Next]_(M!vars)
  BY <1>25, Invisible DEF LateEnd, Phase, ctlVars, cntVars
<1>26. ASSUME NEW t \in Tid, Close(t) PROVE [M!Next]_(M!vars)
  BY <1>26, Invisible DEF Close, Phase, ctlVars, cntVars
<1>27. ASSUME NEW t \in Tid, ClearRunning(t) PROVE [M!Next]_(M!vars)
  BY <1>27, Invisible DEF ClearRunning, Phase, ctlVars, cntVars
<1>28. ASSUME NEW t \in Tid, SigPipe(t) PROVE [M!Next]_(M!vars)
  <2>1. Live(t) /\ Up
    BY <1>28 DEF SigPipe, Live
  <2>2. Phase \in {"measuring", "shown"}
    BY <2>1 DEF IInv, TypeOK, CtlInv, CtlLabels, Phase, Up
  <2>3. CASE pc' = "killed"
    BY <1>28, <2>2, <2>3 DEF SigPipe, M!Killed, Phase, cntVars
  <2> QED
    BY <1>28, <2>3 DEF SigPipe
<1>29. ASSUME NEW t \in Tid, SendData(t) PROVE [M!Next]_(M!vars)
  BY <1>29, Invisible DEF SendData, Phase, ctlVars, cntVars
<1>30. ASSUME NEW t \in Tid, ServerData(t) PROVE [M!Next]_(M!vars)
  BY <1>30, Invisible DEF ServerData, Phase, ctlVars, cntVars
<1>31. ASSUME NEW t \in Tid, ServerEnd(t) PROVE [M!Next]_(M!vars)
  BY <1>31, Invisible DEF ServerEnd, Phase, ctlVars, cntVars
<1>32. ASSUME NEW t \in Tid, ServerReset(t) PROVE [M!Next]_(M!vars)
  BY <1>32, Invisible DEF ServerReset, Phase, ctlVars, cntVars
<1>33. CASE UNCHANGED vars
  BY <1>33, Invisible DEF vars, Phase, ctlVars, cntVars
<1> QED
  BY <1>1, <1>2, <1>3, <1>4, <1>5, <1>6, <1>7, <1>8, <1>9, <1>10, <1>11, <1>12, <1>13, <1>14, <1>15, <1>16, <1>17, <1>18, <1>19, <1>20, <1>21, <1>22, <1>23, <1>24, <1>25, <1>26, <1>27, <1>28, <1>29, <1>30, <1>31, <1>32, <1>33 DEF Next, Controller, Worker, Server

\* Every behaviour of the two tests, their threads and the network is one of
\* the abstract meter.
THEOREM ImplementsMeter == Spec => MeterSpec
<1> QED
  BY Inductive, MeterInit, MeterStep, PTL DEF Spec, MeterSpec, M!Spec
=============================================================================
