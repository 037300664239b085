--------------------------- MODULE ProcessSyncProofs ---------------------------
(***************************************************************************)
(* What holds of the two processes for all bounds Wrap and Keep.           *)
(***************************************************************************)
EXTENDS ProcessSync, SequenceTheorems, TLAPS

(* Only a file that was created has records. *)
Created == ~ exists => file = <<>>

(* The process that writes has opened it. *)
Written == \A p \in alive : pc[p] = "write" => exists

(* What a scan has copied is the counter of the record it passed last. *)
Scanned ==
  \A p \in alive : pc[p] = "scan" =>
    /\ from[p] <= Len(file)
    /\ from[p] > 0 => found[p] = file[from[p]]

(* A process that has read the file still has its last counter when it     *)
(* appends, because the other one does not work.                           *)
Fresh ==
  ~ garbled => \A p \in alive :
    /\ pc[p] = "append" => counter[p] = LastCounter
    /\ pc[p] = "write" => counter[p] = (LastCounter + 1) % Wrap

(* A scan passes records, and remembers one, only while it is under way. *)
AtRest == \A p \in alive : pc[p] # "scan" => from[p] = 0

(* The signal of a turn is pending only for a process that waits. *)
PendingWaits == \A p \in pending : Waiting(p)

IInv == TypeOK /\ Created /\ Written /\ AtRest /\ Scanned /\ PendingWaits /\ OneWorks /\ Fresh /\ Counted

LEMMA WrapNat == Wrap \in Nat /\ Wrap > 1 /\ Keep \in Nat /\ Keep > 0
BY WrapAssumption, KeepAssumption

(* A counter stays in range when it is increased modulo Wrap. *)
LEMMA InRange == \A n \in Count : (n + 1) % Wrap \in Count
BY WrapNat DEF Count

(* Each process is one of two, and the other one of the other is itself. *)
LEMMA Two == \A p \in Proc : Other(p) \in Proc /\ Other(p) # p
                             /\ \A q \in Proc : q = p \/ q = Other(p)
BY DEF Proc, Other

(* The record a scan copies is the next one of the file. *)
LEMMA NextRecord ==
  ASSUME TypeOK, NEW p \in Proc, HasRecord(p)
  PROVE  /\ from[p] + 1 <= Len(file)
         /\ Copied(p) = file[from[p] + 1]
<1> DEFINE least(n) == n \in Window(p) /\ \A m \in Window(p) : n <= m
<1>1. from[p] \in Nat /\ Len(file) \in Nat
  BY DEF TypeOK
<1>2. from[p] + 1 \in Window(p)
  BY <1>1 DEF HasRecord, Window
<1>3. \A m \in Window(p) : m \in Nat /\ from[p] + 1 <= m
  BY <1>1 DEF Window
<1>4. \A n : least(n) => n = from[p] + 1
  BY <1>1, <1>2, <1>3
<1>5. least(from[p] + 1)
  BY <1>2, <1>3
<1>6. (CHOOSE n \in Window(p) : \A m \in Window(p) : n <= m) = from[p] + 1
  BY <1>4, <1>5
<1> QED
  BY <1>1, <1>2, <1>6 DEF Window, Copied

(* A scan that finds no record has passed all of them. *)
LEMMA NoRecord ==
  ASSUME TypeOK, NEW p \in Proc, ~ HasRecord(p)
  PROVE  Len(file) <= from[p]
<1>1. from[p] \in Nat /\ Len(file) \in Nat
  BY DEF TypeOK
<1>2. from[p] + 1 \notin Window(p)
  BY DEF HasRecord
<1> QED
  BY <1>1, <1>2 DEF Window

(* The file after a record has been appended. *)
LEMMA Appended ==
  ASSUME TypeOK, NEW c \in Count,
         NEW f, f = Append(IF Len(file) = Keep THEN Tail(file) ELSE file, c)
  PROVE  f \in Seq(Count) /\ Len(f) <= Keep /\ f # <<>> /\ f[Len(f)] = c
<1> DEFINE g == IF Len(file) = Keep THEN Tail(file) ELSE file
<1>1. g \in Seq(Count) /\ Len(g) < Keep
  BY WrapNat DEF TypeOK
<1> HIDE DEF g
<1>2. f = Append(g, c)
  BY DEF g
<1>a. g \in Seq(Count)
  BY <1>1
<1>b. Append(g, c) \in Seq(Count) /\ Len(Append(g, c)) = Len(g) + 1 /\ Append(g, c)[Len(g) + 1] = c
  BY <1>a, AppendProperties, Zenon
<1>3. Len(f) = Len(g) + 1 /\ f \in Seq(Count) /\ f[Len(g) + 1] = c
  BY <1>b, <1>2, Zenon
<1>4. Len(g) \in Nat
  BY <1>1
<1> QED
  BY <1>1, <1>3, <1>4, WrapNat

(* The program starts in the invariant. *)
LEMMA InitInv == Init => IInv
<1>1. 0 \in Count
  BY WrapNat DEF Count
<1> SUFFICES ASSUME Init PROVE IInv
  OBVIOUS
<1>2. <<>> \in Seq(Count) /\ Len(<<>>) = 0
  OBVIOUS
<1>3. TypeOK
  <2>1. Start \in [Proc -> {"read", "scan", "append", "write", "signal", "wait", "suspend"}]
    BY DEF Start, Proc
  <2>2. Zero \in [Proc -> Count] /\ Zero \in [Proc -> Nat]
    BY <1>1 DEF Zero
  <2>3. file \in Seq(Count) /\ Len(file) <= Keep
    BY <1>2, WrapNat DEF Init
  <2> QED
    BY <1>1, <2>1, <2>2, <2>3 DEF Init, TypeOK
<1>4. Created /\ Written /\ AtRest /\ Scanned
  BY DEF Init, Created, Written, AtRest, Scanned, Start, Zero, Proc
<1>5. PendingWaits /\ OneWorks /\ Fresh /\ Counted
  BY DEF Init, PendingWaits, OneWorks, Active, Waiting, Fresh, Counted, LastCounter, Start, Proc
<1> QED
  BY <1>3, <1>4, <1>5 DEF IInv

(* OneWorks in terms of a process and the other one. *)
LEMMA Turn == ASSUME OneWorks, NEW p \in Proc, Active(p) PROVE ~ Active(Other(p))
BY DEF OneWorks, Proc, Other
LEMMA TurnNext == ASSUME NEW p \in Proc, ~ Active(Other(p))' PROVE OneWorks'
BY DEF OneWorks, Active, Proc, Other

(* A process that works leaves the other one waiting. *)
LEMMA Working ==
  ASSUME IInv, NEW p \in Proc, p \in alive, ~ Waiting(p)
  PROVE  /\ ~ Active(Other(p)) /\ p \notin pending
         /\ \A q \in alive : q # p => Waiting(q) /\ q \notin pending
BY Turn, Two DEF IInv, Active, PendingWaits, TypeOK

(* Every step keeps the invariant. *)
LEMMA StepInv == IInv /\ [Next]_vars => IInv'
<1> SUFFICES ASSUME IInv, [Next]_vars PROVE IInv'
  OBVIOUS
<1> USE DEF Waiting, fileVars, scanVars
<1>0. TypeOK /\ Created /\ Written /\ AtRest /\ Scanned /\ PendingWaits /\ OneWorks /\ Fresh /\ Counted
  BY DEF IInv
<1>i. 0 \in Count
  BY WrapNat DEF Count
<1>1. ASSUME NEW p \in Proc, CheckExist(p) PROVE IInv'
  <2> USE <1>1 DEF CheckExist, Go
  <2>1. ~ Waiting(p) /\ p \in alive
    BY DEF TypeOK
  <2>2. /\ ~ Active(Other(p)) /\ p \notin pending
        /\ \A q \in alive : q # p => Waiting(q) /\ q \notin pending
    BY <2>1, Working DEF IInv
  <2>3. TypeOK'
    BY <1>0, <1>i DEF TypeOK
  <2>4. Created' /\ Written'
    BY <1>0 DEF Created, Written, TypeOK
  <2>5. AtRest'
    BY <1>0 DEF AtRest, TypeOK
  <2>6. Scanned'
    BY <1>0 DEF Scanned, AtRest, TypeOK
  <2>7. PendingWaits'
    BY <1>0, <2>2, Two DEF PendingWaits, TypeOK
  <2>8. OneWorks'
    BY <1>0, <2>2, Two, TurnNext DEF Active, TypeOK
  <2>9. Fresh'
    BY <1>0, <2>2 DEF Fresh, LastCounter, TypeOK, Created, Written
  <2>10. Counted'
    BY <1>0 DEF Counted, LastCounter
  <2> QED
    BY <2>3, <2>4, <2>5, <2>6, <2>7, <2>8, <2>9, <2>10 DEF IInv
<1>2. ASSUME NEW p \in Proc, Scan(p) PROVE IInv'
  <2> USE <1>2 DEF Scan, Go
  <2>1. ~ Waiting(p) /\ p \in alive
    BY DEF TypeOK
  <2>2. /\ ~ Active(Other(p)) /\ p \notin pending
        /\ \A q \in alive : q # p => Waiting(q) /\ q \notin pending
    BY <2>1, Working DEF IInv
  <2>20. from[p] + 1 <= Len(file) /\ Copied(p) = file[from[p] + 1] /\ from[p] \in Nat
    BY <1>0, NextRecord DEF TypeOK
  <2>21. Copied(p) \in Count
    BY <1>0, <2>20 DEF TypeOK
  <2>3. TypeOK'
    BY <1>0, <2>20, <2>21 DEF TypeOK
  <2>4. Created' /\ Written'
    BY <1>0 DEF Created, Written, TypeOK
  <2>5. AtRest'
    BY <1>0 DEF AtRest, TypeOK
  <2>6. Scanned'
    BY <1>0, <2>20 DEF Scanned, TypeOK
  <2>7. PendingWaits'
    BY <1>0, <2>2, Two DEF PendingWaits, TypeOK
  <2>8. OneWorks'
    BY <1>0, <2>2, Two, TurnNext DEF Active, TypeOK
  <2>9. Fresh'
    BY <1>0 DEF Fresh, LastCounter, TypeOK
  <2>10. Counted'
    BY <1>0 DEF Counted, LastCounter
  <2> QED
    BY <2>3, <2>4, <2>5, <2>6, <2>7, <2>8, <2>9, <2>10 DEF IInv
<1>3. ASSUME NEW p \in Proc, ScanEnd(p) PROVE IInv'
  <2> USE <1>3 DEF ScanEnd, Go
  <2>1. ~ Waiting(p) /\ p \in alive
    BY DEF TypeOK
  <2>2. /\ ~ Active(Other(p)) /\ p \notin pending
        /\ \A q \in alive : q # p => Waiting(q) /\ q \notin pending
    BY <2>1, Working DEF IInv
  <2>20. Len(file) <= from[p] /\ from[p] \in Nat
    BY <1>0, NoRecord DEF TypeOK
  <2>21. from[p] = Len(file) /\ Len(file) > 0 /\ found[p] = file[Len(file)]
    BY <1>0, <2>20 DEF Scanned, TypeOK
  <2>22. found[p] = LastCounter
    BY <2>21 DEF LastCounter
  <2>3. TypeOK'
    BY <1>0, <1>i DEF TypeOK, Forget
  <2>4. Created' /\ Written'
    BY <1>0 DEF Created, Written, TypeOK
  <2>5. AtRest'
    BY <1>0 DEF AtRest, TypeOK, Forget
  <2>6. Scanned'
    BY <1>0 DEF Scanned, TypeOK, Forget
  <2>7. PendingWaits'
    BY <1>0, <2>2, Two DEF PendingWaits, TypeOK
  <2>8. OneWorks'
    BY <1>0, <2>2, Two, TurnNext DEF Active, TypeOK
  <2>9. Fresh'
    BY <1>0, <2>2, <2>22 DEF Fresh, LastCounter, TypeOK
  <2>10. Counted'
    BY <1>0 DEF Counted, LastCounter
  <2> QED
    BY <2>3, <2>4, <2>5, <2>6, <2>7, <2>8, <2>9, <2>10 DEF IInv
<1>4. ASSUME NEW p \in Proc, ScanNothing(p) PROVE IInv'
  <2> USE <1>4 DEF ScanNothing, Go
  <2>1. ~ Waiting(p) /\ p \in alive
    BY DEF TypeOK
  <2>2. /\ ~ Active(Other(p)) /\ p \notin pending
        /\ \A q \in alive : q # p => Waiting(q) /\ q \notin pending
    BY <2>1, Working DEF IInv
  <2>25. alive' \subseteq Proc /\ pending' \subseteq alive'
    BY <1>0, <2>2 DEF TypeOK
  <2>26. pc' \in [Proc -> {"read", "scan", "append", "write", "signal", "wait", "suspend"}]
    BY <1>0 DEF TypeOK
  <2>27. counter' \in [Proc -> Count]
    BY <1>0 DEF TypeOK
  <2>3. TypeOK'
    BY <1>0, <2>25, <2>26, <2>27 DEF TypeOK
  <2>4. Created' /\ Written'
    BY <1>0 DEF Created, Written, TypeOK
  <2>5. AtRest'
    BY <1>0 DEF AtRest, TypeOK
  <2>6. Scanned'
    BY <1>0 DEF Scanned, TypeOK
  <2>7. PendingWaits'
    BY <1>0, <2>2, Two DEF PendingWaits, TypeOK
  <2>8. OneWorks'
    BY <1>0, <2>2, Two, TurnNext DEF Active, TypeOK
  <2>9. Fresh'
    BY DEF Fresh
  <2>10. Counted'
    BY DEF Counted
  <2> QED
    BY <2>3, <2>4, <2>5, <2>6, <2>7, <2>8, <2>9, <2>10 DEF IInv
<1>5. ASSUME NEW p \in Proc, Open(p) PROVE IInv'
  <2> USE <1>5 DEF Open, Go
  <2>1. ~ Waiting(p) /\ p \in alive
    BY DEF TypeOK
  <2>2. /\ ~ Active(Other(p)) /\ p \notin pending
        /\ \A q \in alive : q # p => Waiting(q) /\ q \notin pending
    BY <2>1, Working DEF IInv
  <2>3. TypeOK'
    BY <1>0, InRange DEF TypeOK
  <2>4. Created' /\ Written'
    BY <1>0 DEF Created, Written, TypeOK
  <2>5. AtRest'
    BY <1>0 DEF AtRest, TypeOK
  <2>6. Scanned'
    BY <1>0 DEF Scanned, TypeOK
  <2>7. PendingWaits'
    BY <1>0, <2>2, Two DEF PendingWaits, TypeOK
  <2>8. OneWorks'
    BY <1>0, <2>2, Two, TurnNext DEF Active, TypeOK
  <2>9. Fresh'
    BY <1>0, <2>2 DEF Fresh, LastCounter, TypeOK
  <2>10. Counted'
    BY <1>0 DEF Counted, LastCounter
  <2> QED
    BY <2>3, <2>4, <2>5, <2>6, <2>7, <2>8, <2>9, <2>10 DEF IInv
<1>6. ASSUME NEW p \in Proc, Write(p) PROVE IInv'
  <2> USE <1>6 DEF Write, Go
  <2>1. ~ Waiting(p) /\ p \in alive
    BY DEF TypeOK
  <2>2. /\ ~ Active(Other(p)) /\ p \notin pending
        /\ \A q \in alive : q # p => Waiting(q) /\ q \notin pending
    BY <2>1, Working DEF IInv
  <2>20. counter[p] \in Count
    BY <1>0 DEF TypeOK
  <2>21. file' \in Seq(Count) /\ Len(file') <= Keep /\ file' # <<>> /\ file'[Len(file')] = counter[p]
    BY <1>0, <2>20, Appended
  <2>22. LastCounter' = counter[p]
    BY <2>21 DEF LastCounter
  <2>24. exists = TRUE
    BY <1>0 DEF Written
  <2>23. \A q \in alive : pc'[q] \notin {"scan", "append", "write"}
    BY <1>0, <2>2 DEF TypeOK
  <2>25. pc' \in [Proc -> {"read", "scan", "append", "write", "signal", "wait", "suspend"}]
    BY <1>0 DEF TypeOK
  <2>26. appends' \in Count
    BY <1>0, InRange DEF TypeOK
  <2> HIDE DEF Write, Go
  <2>27. UNCHANGED <<alive, pending, counter, exists, from, found, garbled>>
    BY DEF Write
  <2>3. TypeOK'
    BY <1>0, <2>21, <2>25, <2>26, <2>27 DEF TypeOK
  <2> USE DEF Write, Go
  <2>4. Created' /\ Written'
    BY <1>0, <2>24 DEF Created, Written, TypeOK
  <2>5. AtRest'
    BY <1>0 DEF AtRest, TypeOK
  <2>6. Scanned'
    BY <1>0, <2>23 DEF Scanned
  <2>7. PendingWaits'
    BY <1>0, <2>2, Two DEF PendingWaits, TypeOK
  <2>8. OneWorks'
    BY <1>0, <2>2, Two, TurnNext DEF Active, TypeOK
  <2>9. Fresh'
    BY <1>0, <2>23 DEF Fresh
  <2>10. Counted'
    BY <1>0, <2>22 DEF Counted, Fresh
  <2> QED
    BY <2>3, <2>4, <2>5, <2>6, <2>7, <2>8, <2>9, <2>10 DEF IInv
<1>7. ASSUME NEW p \in Proc, Signal(p) PROVE IInv'
  <2> USE <1>7 DEF Signal, Go
  <2>1. ~ Waiting(p) /\ p \in alive
    BY DEF TypeOK
  <2>2. /\ ~ Active(Other(p)) /\ p \notin pending
        /\ \A q \in alive : q # p => Waiting(q) /\ q \notin pending
    BY <2>1, Working DEF IInv
  <2>3. TypeOK'
    BY <1>0, Two DEF TypeOK
  <2>4. Created' /\ Written' /\ AtRest' /\ Scanned'
    BY <1>0 DEF Created, Written, AtRest, Scanned, TypeOK
  <2>5. PendingWaits'
    BY <1>0, <2>2, Two DEF PendingWaits, TypeOK
  <2>6. ~ Active(p)'
    BY <1>0, <2>2, Two DEF Active, TypeOK
  <2>7. OneWorks'
    BY <2>6 DEF OneWorks, Proc
  <2>8. Fresh' /\ Counted'
    BY <1>0 DEF Fresh, Counted, LastCounter, TypeOK
  <2> QED
    BY <2>3, <2>4, <2>5, <2>7, <2>8 DEF IInv
<1>8. ASSUME NEW p \in Proc, Suspend(p) PROVE IInv'
  <2> USE <1>8 DEF Suspend, Go
  <2>1. TypeOK'
    BY <1>0 DEF TypeOK
  <2>2. \A q \in Proc : Active(q)' <=> Active(q)
    BY <1>0 DEF Active, TypeOK
  <2>3. OneWorks'
    BY <1>0, <2>2 DEF OneWorks, Proc
  <2>4. PendingWaits'
    BY <1>0 DEF PendingWaits, TypeOK
  <2>5. Created' /\ Written' /\ AtRest' /\ Scanned'
    BY <1>0 DEF Created, Written, AtRest, Scanned, TypeOK
  <2>6. Fresh' /\ Counted'
    BY <1>0 DEF Fresh, Counted, LastCounter, TypeOK
  <2> QED
    BY <2>1, <2>3, <2>4, <2>5, <2>6 DEF IInv
<1>9. ASSUME NEW p \in Proc, Resume(p) PROVE IInv'
  <2> USE <1>9 DEF Resume, Go
  <2>1. TypeOK'
    BY <1>0 DEF TypeOK
  <2>2. ~ Active(Other(p))
    BY <1>0, Turn DEF Active
  <2>3. OneWorks'
    BY <1>0, <2>2, Two, TurnNext DEF Active, TypeOK
  <2>4. PendingWaits'
    BY <1>0 DEF PendingWaits, TypeOK
  <2>5. Created' /\ Written' /\ AtRest' /\ Scanned'
    BY <1>0 DEF Created, Written, AtRest, Scanned, TypeOK
  <2>6. Fresh' /\ Counted'
    BY <1>0 DEF Fresh, Counted, LastCounter, TypeOK
  <2> QED
    BY <2>1, <2>3, <2>4, <2>5, <2>6 DEF IInv
<1>10. ASSUME NEW p \in Proc, Kill(p) PROVE IInv'
  BY <1>0, <1>10 DEF IInv, Kill, TypeOK, Created, Written, AtRest, Scanned, PendingWaits, OneWorks, Active,
     Fresh, Counted, LastCounter
<1>11. CASE Restart
  <2>1. TypeOK'
    BY <1>0, <1>i, <1>11 DEF Restart, TypeOK, Start, Zero, Proc
  <2>2. Created' /\ Written' /\ AtRest' /\ Scanned'
    BY <1>0, <1>11 DEF Restart, TypeOK, Start, Zero, Proc, Created, Written, AtRest, Scanned
  <2>3. PendingWaits' /\ OneWorks'
    BY <1>11 DEF Restart, Start, PendingWaits, OneWorks, Active
  <2>4. Fresh' /\ Counted'
    BY <1>0, <1>11 DEF Restart, Start, Proc, Fresh, Counted, LastCounter
  <2> QED
    BY <2>1, <2>2, <2>3, <2>4 DEF IInv
<1>12. CASE UNCHANGED vars
  BY <1>0, <1>12 DEF vars, IInv, TypeOK, Created, Written, AtRest, Scanned, PendingWaits, OneWorks, Active,
     Fresh, Counted, LastCounter
<1> QED
  BY <1>1, <1>2, <1>3, <1>4, <1>5, <1>6, <1>7, <1>8, <1>9, <1>10, <1>11, <1>12 DEF Next, Step, Read

LEMMA Invariant == Spec => []IInv
BY InitInv, StepInv, PTL DEF Spec

(* The type invariant. *)
THEOREM TypeCorrect == Spec => []TypeOK
BY Invariant, PTL DEF IInv

(* Parent and child never work at the same time, whatever is killed and    *)
(* restarted.                                                              *)
THEOREM TurnsAreTaken == Spec => []OneWorks
BY Invariant, PTL DEF IInv

(* The last record counts all of them: no update is lost, unless a process *)
(* has read a file that one killed before it had left empty.               *)
THEOREM NoUpdateIsLost == Spec => []Counted
BY Invariant, PTL DEF IInv
===============================================================================
