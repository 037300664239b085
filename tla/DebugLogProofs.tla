---------------------------- MODULE DebugLogProofs ----------------------------
(***************************************************************************)
(* The log's promises to a callback, for every number of threads,          *)
(* callbacks and slots and every size of the ring buffer: first what does  *)
(* not depend on the texts, then that each text is what its format calls   *)
(* for, for every width of int and long, every length of a dump's rows and *)
(* every size of the array of custom_itoa_isr.                             *)
(***************************************************************************)
EXTENDS DebugLog, FiniteSetTheorems, WellFoundedInduction, SequenceTheorems, TLAPS

\* The part of the types the proofs use.
Types ==
  /\ owner \in Thread \cup {NULL}
  /\ at \in [Thread -> {"idle", "lock", "pop", "put", "unlock"} \cup Ops]
  /\ op \in [Thread -> Ops] /\ cb \in [Thread -> Port \cup {NULL}]
  /\ index \in [Thread -> 0 .. NumPorts]
  /\ m_write_cb \in [Slots -> Port \cup {NULL}]
  /\ from \in [Port -> Thread \cup {NULL}]
  /\ ahead \in [Port -> Nat]

\* Whoever is past the lock holds it, and there is nobody before it is there.
LockInv ==
  /\ \A t \in Thread : Inside(t) => owner = t
  /\ ~m_lock_cb => \A t \in Thread : at[t] = "idle"

\* A callback has one slot.
TableInv ==
  \A s1, s2 \in Slots : m_write_cb[s1] = m_write_cb[s2] /\ m_write_cb[s1] # NULL => s1 = s2

Printing(t) == at[t] \in {"print", "dump", "flush", "pop", "put"}

\* A port is ahead when the loop has passed its slot; between bytes none is,
\* and a text ends between bytes.
Round(t) ==
  /\ Printing(t) => Ports = members
  /\ Printing(t) /\ at[t] # "put" => \A p \in Port : ahead[p] = 0
  /\ at[t] = "put" => \A p \in Port :
       ahead[p] = IF \E s \in Slots : s < index[t] /\ m_write_cb[s] = p THEN 1 ELSE 0
  /\ at[t] = "put" /\ ~MoreText(t) => index[t] = 0

RoundInv == \A t \in Thread : Round(t)

IInv == Types /\ LockInv /\ TableInv /\ RoundInv

\* It holds before the first call.
LEMMA InitInv == Init => IInv
<1> SUFFICES ASSUME Init PROVE IInv OBVIOUS
<1> USE NullAssumption, CapAssumption
<1>1. Types
  BY DEF Init, Types, Slots, Ops
<1>2. LockInv /\ TableInv /\ RoundInv
  BY DEF Init, LockInv, TableInv, RoundInv, Round, Inside, Printing, Slots
<1> QED BY <1>1, <1>2 DEF IInv

\* Preserved by every step, one action at a time.
LEMMA TypesStep == IInv /\ [Next]_vars => Types'
<1> SUFFICES ASSUME IInv, [Next]_vars PROVE Types' OBVIOUS
<1> USE NullAssumption, CapAssumption
    DEF IInv, Types, threadVars, tableVars, portVars, Goto, Slots, Ops
<1>1. ASSUME NEW p \in Port, RegisterFirst(p) PROVE Types'
  BY <1>1 DEF RegisterFirst, Install
<1>2. ASSUME app_debug_init PROVE Types'
  BY <1>2 DEF app_debug_init
<1>3. ASSUME NEW u \in Thread, Call(u) PROVE Types'
  BY <1>3 DEF Call
<1>4. ASSUME NEW u \in Thread, Lock(u) PROVE Types'
  BY <1>4 DEF Lock
<1>5. ASSUME NEW u \in Thread, Unlock(u) PROVE Types'
  BY <1>5 DEF Unlock
<1>6. ASSUME NEW u \in Thread, Convert(u) PROVE Types'
  BY <1>6 DEF Convert, Puts
<1>7. ASSUME NEW u \in Thread, EndOfFormat(u) PROVE Types'
  BY <1>7 DEF EndOfFormat
<1>8. ASSUME NEW u \in Thread, StartDump(u) PROVE Types'
  BY <1>8 DEF StartDump, Puts
<1>9. ASSUME NEW u \in Thread, Flush(u) PROVE Types'
  BY <1>9 DEF Flush
<1>20. ASSUME NEW u \in Thread, Pop(u) PROVE Types'
  BY <1>20 DEF Pop, Puts
<1>10. ASSUME NEW u \in Thread, FlushEnd(u) PROVE Types'
  BY <1>10 DEF FlushEnd
<1>11. ASSUME NEW u \in Thread, Register(u) PROVE Types'
  BY <1>11 DEF Register, Install
<1>12. ASSUME NEW u \in Thread, Unregister(u) PROVE Types'
  BY <1>12 DEF Unregister
<1>13. ASSUME NEW u \in Thread, PutByte(u) PROVE Types'
  <2>1. index[u] \in Slots
    BY <1>13 DEF PutByte
  <2>2. m_write_cb[index[u]] \in Port \cup {NULL}
    BY <2>1
  <2>3. from' \in [Port -> Thread \cup {NULL}] /\ ahead' \in [Port -> Nat]
    <3>1. CASE m_write_cb[index[u]] = NULL
      BY <1>13, <3>1 DEF PutByte
    <3>2. CASE m_write_cb[index[u]] # NULL
      <4>1. Deliver(u, m_write_cb[index[u]])
        BY <1>13, <3>2 DEF PutByte
      <4> QED
        BY <2>2, <3>2, <4>1 DEF Deliver
    <3> QED
      BY <3>1, <3>2
  <2>4. index' \in [Thread -> 0 .. NumPorts]
    BY <1>13 DEF PutByte
  <2> QED
    BY <1>13, <2>3, <2>4 DEF PutByte
<1>14. ASSUME NEW u \in Thread, NextByte(u) PROVE Types'
  BY <1>14 DEF NextByte
<1>15. ASSUME NEW u \in Thread, PutEnd(u) PROVE Types'
  BY <1>15 DEF PutEnd
<1>16. ASSUME IsrConvert PROVE Types'
  BY <1>16 DEF IsrConvert
<1>17. ASSUME IsrPut PROVE Types'
  BY <1>17 DEF IsrPut
<1>18. ASSUME IsrPutEnd PROVE Types'
  BY <1>18 DEF IsrPutEnd
<1>19. ASSUME UNCHANGED vars PROVE Types'
  BY <1>19 DEF vars, tableVars, threadVars, portVars, Ports
<1> QED
  BY <1>1, <1>2, <1>3, <1>4, <1>5, <1>6, <1>7, <1>8, <1>9, <1>10,
     <1>11, <1>12, <1>13, <1>14, <1>15, <1>16, <1>17, <1>18, <1>19, <1>20
  DEF Next, ThreadStep, Isr

\* The lock keeps the others out, whatever is called.
LEMMA LockStep == IInv /\ [Next]_vars => LockInv'
<1> SUFFICES ASSUME IInv, [Next]_vars PROVE LockInv' OBVIOUS
<1> USE NullAssumption DEF IInv, Types, LockInv, Inside, threadVars, Goto, Ops
<1>1. ASSUME NEW p \in Port, RegisterFirst(p) PROVE LockInv'
  BY <1>1 DEF RegisterFirst, Install
<1>2. ASSUME app_debug_init PROVE LockInv'
  BY <1>2 DEF app_debug_init
<1>3. ASSUME NEW u \in Thread, Call(u) PROVE LockInv'
  BY <1>3 DEF Call
<1>4. ASSUME NEW u \in Thread, Lock(u) PROVE LockInv'
  BY <1>4 DEF Lock
<1>5. ASSUME NEW u \in Thread, Unlock(u) PROVE LockInv'
  BY <1>5 DEF Unlock
<1>6. ASSUME NEW u \in Thread, Convert(u) PROVE LockInv'
  BY <1>6 DEF Convert, Puts
<1>7. ASSUME NEW u \in Thread, EndOfFormat(u) PROVE LockInv'
  BY <1>7 DEF EndOfFormat
<1>8. ASSUME NEW u \in Thread, StartDump(u) PROVE LockInv'
  BY <1>8 DEF StartDump, Puts
<1>9. ASSUME NEW u \in Thread, Flush(u) PROVE LockInv'
  BY <1>9 DEF Flush
<1>20. ASSUME NEW u \in Thread, Pop(u) PROVE LockInv'
  BY <1>20 DEF Pop, Puts
<1>10. ASSUME NEW u \in Thread, FlushEnd(u) PROVE LockInv'
  BY <1>10 DEF FlushEnd
<1>11. ASSUME NEW u \in Thread, Register(u) PROVE LockInv'
  BY <1>11 DEF Register, Install
<1>12. ASSUME NEW u \in Thread, Unregister(u) PROVE LockInv'
  BY <1>12 DEF Unregister
<1>13. ASSUME NEW u \in Thread, PutByte(u) PROVE LockInv'
  BY <1>13 DEF PutByte, Deliver
<1>14. ASSUME NEW u \in Thread, NextByte(u) PROVE LockInv'
  BY <1>14 DEF NextByte
<1>15. ASSUME NEW u \in Thread, PutEnd(u) PROVE LockInv'
  BY <1>15 DEF PutEnd
<1>16. ASSUME IsrConvert PROVE LockInv'
  BY <1>16 DEF IsrConvert
<1>17. ASSUME IsrPut PROVE LockInv'
  BY <1>17 DEF IsrPut
<1>18. ASSUME IsrPutEnd PROVE LockInv'
  BY <1>18 DEF IsrPutEnd
<1>19. ASSUME UNCHANGED vars PROVE LockInv'
  BY <1>19 DEF vars, tableVars, threadVars, portVars, Ports
<1> QED
  BY <1>1, <1>2, <1>3, <1>4, <1>5, <1>6, <1>7, <1>8, <1>9, <1>10,
     <1>11, <1>12, <1>13, <1>14, <1>15, <1>16, <1>17, <1>18, <1>19, <1>20
  DEF Next, ThreadStep, Isr

\* Callbacks are added once and never moved.
LEMMA TableStep == IInv /\ [Next]_vars => TableInv'
<1> SUFFICES ASSUME IInv, [Next]_vars PROVE TableInv' OBVIOUS
<1> USE DEF IInv, Types, TableInv, tableVars, Ports
<1>1. ASSUME NEW p \in Port, RegisterFirst(p) PROVE TableInv'
  BY <1>1 DEF RegisterFirst, Install
<1>2. ASSUME app_debug_init PROVE TableInv'
  BY <1>2 DEF app_debug_init
<1>3. ASSUME NEW u \in Thread, Call(u) PROVE TableInv'
  BY <1>3 DEF Call
<1>4. ASSUME NEW u \in Thread, Lock(u) PROVE TableInv'
  BY <1>4 DEF Lock
<1>5. ASSUME NEW u \in Thread, Unlock(u) PROVE TableInv'
  BY <1>5 DEF Unlock
<1>6. ASSUME NEW u \in Thread, Convert(u) PROVE TableInv'
  BY <1>6 DEF Convert, Puts
<1>7. ASSUME NEW u \in Thread, EndOfFormat(u) PROVE TableInv'
  BY <1>7 DEF EndOfFormat
<1>8. ASSUME NEW u \in Thread, StartDump(u) PROVE TableInv'
  BY <1>8 DEF StartDump, Puts
<1>9. ASSUME NEW u \in Thread, Flush(u) PROVE TableInv'
  BY <1>9 DEF Flush
<1>20. ASSUME NEW u \in Thread, Pop(u) PROVE TableInv'
  BY <1>20 DEF Pop, Puts
<1>10. ASSUME NEW u \in Thread, FlushEnd(u) PROVE TableInv'
  BY <1>10 DEF FlushEnd
<1>11. ASSUME NEW u \in Thread, Register(u) PROVE TableInv'
  BY <1>11 DEF Register, Install
<1>12. ASSUME NEW u \in Thread, Unregister(u) PROVE TableInv'
  BY <1>12 DEF Unregister
<1>13. ASSUME NEW u \in Thread, PutByte(u) PROVE TableInv'
  BY <1>13 DEF PutByte, Deliver
<1>14. ASSUME NEW u \in Thread, NextByte(u) PROVE TableInv'
  BY <1>14 DEF NextByte
<1>15. ASSUME NEW u \in Thread, PutEnd(u) PROVE TableInv'
  BY <1>15 DEF PutEnd
<1>16. ASSUME IsrConvert PROVE TableInv'
  BY <1>16 DEF IsrConvert
<1>17. ASSUME IsrPut PROVE TableInv'
  BY <1>17 DEF IsrPut
<1>18. ASSUME IsrPutEnd PROVE TableInv'
  BY <1>18 DEF IsrPutEnd
<1>19. ASSUME UNCHANGED vars PROVE TableInv'
  BY <1>19 DEF vars, tableVars, threadVars, portVars, Ports
<1> QED
  BY <1>1, <1>2, <1>3, <1>4, <1>5, <1>6, <1>7, <1>8, <1>9, <1>10,
     <1>11, <1>12, <1>13, <1>14, <1>15, <1>16, <1>17, <1>18, <1>19, <1>20
  DEF Next, ThreadStep, Isr

\* The loop over the table is where index says, for the thread that puts.
LEMMA RoundStep == IInv /\ [Next]_vars => RoundInv'
<1> SUFFICES ASSUME IInv, [Next]_vars, NEW t \in Thread PROVE Round(t)'
  BY DEF RoundInv
<1> USE DEF IInv
<1>0. \A u \in Thread : Inside(u) /\ u # t => ~Inside(t)
  BY DEF LockInv
<1>R. Round(t) BY DEF RoundInv
<1>T. ~Printing(t)' => Round(t)'
  BY DEF Round, Printing
<1>P. Printing(t) => Inside(t)
  BY DEF Printing, Inside
<1>U. ASSUME UNCHANGED <<tableVars, at, pos, text, index, ahead, members>> PROVE Round(t)'
  BY <1>R, <1>U DEF Round, Printing, Ports, tableVars, MoreText
<1>W. ASSUME NEW u \in Thread, Inside(u), u # t,
             \E l : Goto(u, l)
      PROVE Round(t)'
  <2>1. at'[t] = at[t]
    BY <1>W DEF Goto, Types
  <2>2. ~Inside(t)
    BY <1>0, <1>W
  <2> QED
    BY <2>1, <2>2, <1>T DEF Inside, Printing
<1>1. ASSUME NEW p \in Port, RegisterFirst(p) PROVE Round(t)'
  BY <1>1, <1>T DEF RegisterFirst, LockInv, Printing, threadVars
<1>2. ASSUME app_debug_init PROVE Round(t)'
  BY <1>2, <1>U DEF app_debug_init, threadVars, portVars
<1>3. ASSUME NEW u \in Thread, Call(u) PROVE Round(t)'
  <2>1. CASE u = t
    BY <1>3, <1>T, <2>1 DEF Call, Goto, Printing, Types
  <2>2. CASE u # t
    BY <1>3, <1>R, <2>2 DEF Call, Goto, Types, Round, Printing, Ports, tableVars, portVars, MoreText
  <2> QED BY <2>1, <2>2
<1>4. ASSUME NEW u \in Thread, Lock(u) PROVE Round(t)'
  <2>1. ~Inside(t)
    BY <1>4, NullAssumption DEF Lock, LockInv
  <2>2. CASE u # t
    BY <1>4, <1>T, <2>1, <2>2 DEF Lock, Goto, Types, Inside, Printing
  <2>3. CASE u = t
    <3>1. at'[t] = op[t] /\ op[t] \in Ops
      BY <1>4, <2>3 DEF Lock, Goto, Types
    <3>2. at'[t] # "put"
      BY <3>1 DEF Ops
    <3>3. Ports' = members' /\ \A p \in Port : ahead'[p] = 0
      BY <1>4 DEF Lock, Ports, tableVars
    <3> QED
      BY <3>2, <3>3 DEF Round
  <2> QED BY <2>2, <2>3
<1>5. ASSUME NEW u \in Thread, at[u] \in {"print", "dump", "pop"}, Goto(u, "put"),
             index' = [index EXCEPT ![u] = 0], UNCHANGED <<tableVars, portVars>>
      PROVE Round(t)'
  <2>1. CASE u # t
    BY <1>5, <1>W, <2>1 DEF Inside
  <2>2. CASE u = t
    <3>1. index'[t] = 0 /\ Ports' = members' /\ \A p \in Port : ahead'[p] = 0
      BY <1>5, <1>R, <2>2 DEF Types, Round, Printing, Ports, tableVars, portVars
    <3>2. at'[t] = "put"
      BY <1>5, <2>2 DEF Goto, Types
    <3>3. ~(\E s \in Slots : s < index'[t] /\ m_write_cb'[s] \in Port)
      BY <3>1, CapAssumption DEF Slots
    <3> QED
      BY <3>1, <3>2, <3>3 DEF Round
  <2> QED BY <2>1, <2>2
<1>6. ASSUME NEW u \in Thread, Inside(u), Goto(u, "unlock") PROVE Round(t)'
  <2>1. CASE u # t
    BY <1>6, <1>W, <2>1
  <2>2. CASE u = t
    BY <1>6, <1>T, <2>2 DEF Goto, Types, Printing
  <2> QED BY <2>1, <2>2
<1>7. ASSUME NEW u \in Thread, Unlock(u) PROVE Round(t)'
  <2>1. CASE u # t
    BY <1>7, <1>W, <2>1 DEF Unlock, Inside
  <2>2. CASE u = t
    BY <1>7, <1>T, <2>2 DEF Unlock, Goto, Types, Printing
  <2> QED BY <2>1, <2>2
<1>8. ASSUME NEW u \in Thread, PutByte(u) PROVE Round(t)'
  <2>1. CASE u # t
    <3>1. ~Inside(t)
      BY <1>0, <1>8, <2>1 DEF PutByte, Inside
    <3> QED
      BY <1>8, <1>T, <3>1 DEF PutByte, Inside, Printing
  <2>2. CASE u = t
    <3> DEFINE k == index[t]
               p == m_write_cb[k]
    <3>1. at[t] = "put" /\ MoreText(t) /\ k \in Slots /\ index'[t] = k + 1
      BY <1>8, <2>2, CapAssumption DEF PutByte, Types, Slots
    <3>2. UNCHANGED <<m_write_cb, at, pos, text, members>>
      BY <1>8, <2>2 DEF PutByte, tableVars
    <3>3. Ports' = members'
      BY <1>R, <3>1, <3>2 DEF Round, Printing, Ports
    <3>4. ASSUME NEW q \in Port
          PROVE ahead'[q] = IF \E s \in Slots : s < k + 1 /\ m_write_cb[s] = q THEN 1 ELSE 0
      <4>1. ahead[q] = IF \E s \in Slots : s < k /\ m_write_cb[s] = q THEN 1 ELSE 0
        BY <1>R, <3>1 DEF Round
      <4>2. CASE p = NULL
        <5>1. ahead' = ahead
          BY <1>8, <2>2, <4>2 DEF PutByte
        <5>2. \A s \in Slots : s < k + 1 /\ m_write_cb[s] = q => s < k
          BY <4>2, <3>1, NullAssumption DEF Slots
        <5>3. \A s \in Slots : s < k => s < k + 1
          BY <3>1 DEF Slots
        <5> QED BY <4>1, <5>1, <5>2, <5>3
      <4>3. CASE p # NULL
        <5>1. p \in Port
          BY <3>1, <4>3 DEF Types
        <5>2. ahead' = [ahead EXCEPT ![p] = @ + 1]
          BY <1>8, <2>2, <4>3 DEF PutByte, Deliver
        <5>3. CASE q = p
          <6>1. ~(\E s \in Slots : s < k /\ m_write_cb[s] = q)
            <7> SUFFICES ASSUME NEW s \in Slots, s < k, m_write_cb[s] = q PROVE FALSE
              OBVIOUS
            <7>1. s = k
              BY <3>1, <4>3, <5>3 DEF TableInv
            <7> QED BY <7>1, <3>1 DEF Slots
          <6>2. ahead[q] = 0
            BY <4>1, <6>1
          <6>3. ahead'[q] = 1
            BY <5>1, <5>2, <5>3, <6>2 DEF Types
          <6>4. k \in Slots /\ k < k + 1 /\ m_write_cb[k] = q
            BY <3>1, <5>3 DEF Slots
          <6> QED BY <6>3, <6>4
        <5>4. CASE q # p
          <6>1. ahead'[q] = ahead[q]
            BY <5>2, <5>4 DEF Types
          <6>2. \A s \in Slots : s < k + 1 /\ m_write_cb[s] = q => s < k
            BY <5>4, <3>1 DEF Slots
          <6>3. \A s \in Slots : s < k => s < k + 1
            BY <3>1 DEF Slots
          <6> QED BY <4>1, <6>1, <6>2, <6>3
        <5> QED BY <5>3, <5>4
      <4> QED BY <4>2, <4>3
    <3>5. at'[t] = "put" /\ MoreText(t)'
      <4>1. pos'[t] = pos[t] /\ text'[t] = text[t]
        BY <3>2
      <4> QED BY <3>1, <3>2, <4>1 DEF MoreText
    <3> QED
      BY <3>1, <3>2, <3>3, <3>4, <3>5 DEF Round
  <2> QED BY <2>1, <2>2
<1>9. ASSUME NEW u \in Thread, NextByte(u) PROVE Round(t)'
  <2>1. CASE u # t
    <3>1. ~Inside(t)
      BY <1>0, <1>9, <2>1 DEF NextByte, Inside
    <3> QED
      BY <1>9, <1>T, <3>1 DEF NextByte, Inside, Printing
  <2>2. CASE u = t
    <3>1. index'[t] = 0 /\ \A p \in Port : ahead'[p] = 0
      BY <1>9, <2>2 DEF NextByte, Types
    <3>2. at[t] = "put" /\ UNCHANGED <<at, m_write_cb, members>>
      BY <1>9, <2>2 DEF NextByte, tableVars
    <3>3. Ports' = members'
      BY <1>R, <3>2 DEF Round, Printing, Ports
    <3>4. ~(\E s \in Slots : s < index'[t] /\ m_write_cb'[s] \in Port)
      BY <3>1, CapAssumption DEF Slots
    <3> QED
      BY <3>1, <3>2, <3>3, <3>4 DEF Round
  <2> QED BY <2>1, <2>2
<1>10. ASSUME NEW u \in Thread, PutEnd(u) PROVE Round(t)'
  <2>1. CASE u # t
    BY <1>10, <1>W, <2>1 DEF PutEnd, Inside
  <2>2. CASE u = t
    <3>1. index[t] = 0 /\ at[t] = "put"
      BY <1>10, <1>R, <2>2 DEF PutEnd, Round
    <3>2. \A p \in Port : ahead'[p] = 0
      <4>1. ~(\E s \in Slots : s < index[t])
        BY <3>1, CapAssumption DEF Slots
      <4> QED
        BY <1>10, <1>R, <3>1, <4>1 DEF PutEnd, Round, portVars
    <3>3. Ports' = members'
      BY <1>10, <1>R, <3>1 DEF PutEnd, Round, Printing, Ports, tableVars, portVars
    <3>4. at'[t] # "put"
      BY <1>10, <2>2 DEF PutEnd, Goto, Types, Ops
    <3> QED
      BY <3>2, <3>3, <3>4 DEF Round
  <2> QED BY <2>1, <2>2
<1>11. ASSUME Isr PROVE Round(t)'
  BY <1>11, <1>U DEF Isr, IsrConvert, IsrPut, IsrPutEnd, threadVars, portVars
<1>12. ASSUME UNCHANGED vars PROVE Round(t)'
  BY <1>12, <1>U DEF vars, threadVars, portVars
<1>13. ASSUME NEW u \in Thread, Convert(u) \/ StartDump(u) \/ Pop(u) PROVE Round(t)'
  <2>1. at[u] \in {"print", "dump", "pop"} /\ Goto(u, "put")
          /\ index' = [index EXCEPT ![u] = 0] /\ UNCHANGED <<tableVars, portVars>>
    <3>1. Convert(u) => at[u] = "print" /\ \E it, chars : Puts(u, it, chars)
      BY DEF Convert
    <3>2. StartDump(u) => at[u] = "dump" /\ \E it, chars : Puts(u, it, chars)
      BY DEF StartDump
    <3>3. Pop(u) => at[u] = "pop" /\ \E it, chars : Puts(u, it, chars)
      BY DEF Pop
    <3> QED
      BY <1>13, <3>1, <3>2, <3>3 DEF Puts
  <2> QED BY <1>5, <2>1
<1>15. ASSUME NEW u \in Thread, Flush(u) PROVE Round(t)'
  <2>1. at[u] = "flush" /\ Goto(u, "pop") /\ UNCHANGED <<tableVars, portVars>>
    BY <1>15 DEF Flush
  <2>2. CASE u # t
    BY <1>W, <2>1, <2>2 DEF Inside
  <2>3. CASE u = t
    <3>1. at'[t] = "pop" /\ Ports' = members' /\ \A p \in Port : ahead'[p] = 0
      BY <1>R, <2>1, <2>3 DEF Goto, Types, Round, Printing, Ports, tableVars, portVars
    <3> QED BY <3>1 DEF Round
  <2> QED BY <2>2, <2>3
<1>14. ASSUME NEW u \in Thread,
              EndOfFormat(u) \/ FlushEnd(u) \/ Register(u) \/ Unregister(u)
       PROVE Round(t)'
  <2>1. Inside(u) /\ Goto(u, "unlock")
    BY <1>14 DEF EndOfFormat, FlushEnd, Register, Unregister, Inside
  <2> QED BY <1>6, <2>1
<1> QED
  BY <1>1, <1>2, <1>3, <1>4, <1>7, <1>8, <1>9, <1>10, <1>11, <1>12, <1>13, <1>14,
     <1>15
  DEF Next, ThreadStep

-----------------------------------------------------------------------------
\* The invariant of the lock, the table and the loop.
THEOREM Inductive == Spec => []IInv
<1>1. IInv /\ [Next]_vars => IInv'
  BY TypesStep, LockStep, TableStep, RoundStep DEF IInv
<1> QED
  BY InitInv, <1>1, PTL DEF Spec

\* Every callback of the table gets every byte of every call, once: the table
\* does not change during a call and holds no callback twice.
THEOREM PortsGetTheSame == Spec => []AllPortsAlike
<1>1. IInv => AllPortsAlike
  <2> SUFFICES ASSUME IInv, NEW t \in Thread, at[t] = "put"
               PROVE  /\ Ports = members
                      /\ \A s \in Slots : m_write_cb[s] # NULL =>
                           ahead[m_write_cb[s]] = IF s < index[t] THEN 1 ELSE 0
    BY DEF AllPortsAlike
  <2>1. Round(t)
    BY DEF IInv, RoundInv
  <2>2. Ports = members
    BY <2>1 DEF Round, Printing
  <2>3. ASSUME NEW s \in Slots, m_write_cb[s] # NULL
        PROVE ahead[m_write_cb[s]] = IF s < index[t] THEN 1 ELSE 0
    <3>1. m_write_cb[s] \in Port
      BY <2>3 DEF IInv, Types
    <3>2. (\E s2 \in Slots : s2 < index[t] /\ m_write_cb[s2] = m_write_cb[s]) <=> s < index[t]
      BY <2>3 DEF IInv, TableInv
    <3> QED
      BY <2>1, <3>1, <3>2 DEF Round
  <2> QED BY <2>2, <2>3
<1> QED
  BY Inductive, <1>1, PTL

\* The bytes of one call are together at every port, whatever the threads do.
THEOREM CallsAreContiguous == Spec => Contiguous
<1>1. IInv /\ [Next]_vars =>
        [\A p \in Port, t \in Thread : Inside(t) /\ from[p] = t => from'[p] = t]_vars
  <2> SUFFICES ASSUME IInv, Next, NEW p \in Port, NEW t \in Thread, Inside(t), from[p] = t
               PROVE from'[p] = t
    OBVIOUS
  <2>1. ASSUME NEW u \in Thread, PutByte(u) PROVE from'[p] = t
    <3>1. u = t
      BY <2>1 DEF IInv, LockInv, PutByte, Inside
    <3>2. CASE m_write_cb[index[u]] = NULL
      BY <2>1, <3>2 DEF PutByte
    <3>3. CASE m_write_cb[index[u]] # NULL
      BY <2>1, <3>1, <3>3 DEF PutByte, Deliver, IInv, Types
    <3> QED BY <3>2, <3>3
  <2>2. CASE UNCHANGED from
    BY <2>2
  <2>3. UNCHANGED from \/ \E u \in Thread : PutByte(u)
    <3>1. ASSUME NEW u \in Thread, ThreadStep(u) PROVE UNCHANGED from \/ PutByte(u)
      <4>1. ASSUME Convert(u) \/ StartDump(u) \/ Pop(u) PROVE UNCHANGED from
        <5>1. \E it, chars : Puts(u, it, chars)
          BY <4>1 DEF Convert, StartDump, Pop
        <5> QED
          BY <5>1 DEF Puts, portVars
      <4> QED
        BY <3>1, <4>1
        DEF ThreadStep, Call, Lock, Unlock, EndOfFormat, Flush, FlushEnd, Register, Unregister,
            NextByte, PutEnd, portVars
    <3>2. ASSUME \/ \E q \in Port : RegisterFirst(q)
                 \/ app_debug_init
                 \/ Isr
          PROVE  UNCHANGED from
      BY <3>2 DEF Isr, RegisterFirst, app_debug_init, IsrConvert, IsrPut, IsrPutEnd, portVars
    <3> QED
      BY <3>1, <3>2 DEF Next
  <2> QED BY <2>1, <2>2, <2>3
<1> QED
  BY Inductive, <1>1, PTL DEF Spec, Contiguous

-----------------------------------------------------------------------------
(* The bytes of the ring buffer. *)

\* The number after another.
LEMMA AfterRight ==
  ASSUME NEW x \in Serials
  PROVE  After(x) \in Serials /\ After(x) = IF x = Cap + 1 THEN 0 ELSE x + 1
<1> DEFINE n == Cap + 2
<1>1. n \in Nat \ {0} /\ x \in 0 .. n - 1 /\ After(x) = (x + 1) % n
  BY CapAssumption DEF Serials, After
<1>2. (x + 1) % n = IF x = n - 1 THEN 0 ELSE x + 1
  <2> HIDE DEF n
  <2> QED
    BY <1>1
<1> QED
  BY <1>1, <1>2, CapAssumption DEF Serials

\* The bytes accepted together are numbered on from the next number.
LEMMA NumbersRight ==
  ASSUME NEW x \in Serials, NEW k \in 0 .. Cap
  PROVE  /\ \A j \in 1 .. k : (x + j - 1) % (Cap + 2) \in Serials
         /\ \A j \in 1 .. k - 1 :
              (x + (j + 1) - 1) % (Cap + 2) = After((x + j - 1) % (Cap + 2))
         /\ k > 0 => /\ (x + 1 - 1) % (Cap + 2) = x
                     /\ After((x + k - 1) % (Cap + 2)) = (x + k) % (Cap + 2)
         /\ (x + k) % (Cap + 2) \in Serials
<1> DEFINE n == Cap + 2
<1>1. n \in Nat \ {0} /\ x \in 0 .. n - 1 /\ k \in 0 .. n - 2 /\ Serials = 0 .. n - 1
  BY CapAssumption DEF Serials
<1>2. \A y \in 0 .. 2 * n - 1 : y % n = IF y < n THEN y ELSE y - n
  <2> HIDE DEF n
  <2> QED
    BY <1>1
<1>3. \A y \in 0 .. n - 1 : After(y) = IF y = n - 1 THEN 0 ELSE y + 1
  <2>1. \A y \in Serials : After(y) = IF y = n - 1 THEN 0 ELSE y + 1
    BY AfterRight, CapAssumption
  <2> QED
    BY <1>1, <2>1
<1> HIDE DEF n
<1>4. \A j \in 0 .. k : (x + j) % n = IF x + j < n THEN x + j ELSE (x + j) - n
  <2> SUFFICES ASSUME NEW j \in 0 .. k
               PROVE  (x + j) % n = IF x + j < n THEN x + j ELSE (x + j) - n
    OBVIOUS
  <2> DEFINE y == x + j
  <2>1. y \in 0 .. 2 * n - 1
    BY <1>1
  <2>2. y % n = IF y < n THEN y ELSE y - n
    <3> HIDE DEF y
    <3> QED
      BY <1>2, <2>1
  <2> QED
    BY <2>2
<1>5. \A j \in 0 .. k : (x + j) % n \in 0 .. n - 1
  BY <1>1, <1>4
<1>6. \A j \in 0 .. k - 1 : (x + (j + 1)) % n = After((x + j) % n)
  <2> SUFFICES ASSUME NEW j \in 0 .. k - 1
               PROVE  (x + (j + 1)) % n = After((x + j) % n)
    OBVIOUS
  <2> DEFINE y == (x + j) % n
  <2>1. y = (IF x + j < n THEN x + j ELSE (x + j) - n) /\ y \in 0 .. n - 1
    BY <1>1, <1>4, <1>5
  <2>2. (x + (j + 1)) % n = IF x + (j + 1) < n THEN x + (j + 1) ELSE (x + (j + 1)) - n
    BY <1>1, <1>4
  <2> HIDE DEF y
  <2>3. After(y) = IF y = n - 1 THEN 0 ELSE y + 1
    BY <1>3, <2>1
  <2> QED
    BY <1>1, <2>1, <2>2, <2>3 DEF y
<1>7. \A j \in 1 .. k : (x + j - 1) % n \in 0 .. n - 1
  <2> SUFFICES ASSUME NEW j \in 1 .. k PROVE (x + j - 1) % n \in 0 .. n - 1
    OBVIOUS
  <2>1. j - 1 \in 0 .. k /\ x + (j - 1) = x + j - 1
    BY <1>1
  <2> QED
    BY <1>5, <2>1
<1>8. \A j \in 1 .. k : (x + j) % n = After((x + j - 1) % n)
  <2> SUFFICES ASSUME NEW j \in 1 .. k PROVE (x + j) % n = After((x + j - 1) % n)
    OBVIOUS
  <2>1. j - 1 \in 0 .. k - 1 /\ x + (j - 1) = x + j - 1 /\ x + ((j - 1) + 1) = x + j
    BY <1>1
  <2> QED
    BY <1>6, <2>1
<1>9. \A j \in 1 .. k - 1 : (x + (j + 1) - 1) % n = After((x + j - 1) % n)
  <2> SUFFICES ASSUME NEW j \in 1 .. k - 1
               PROVE  (x + (j + 1) - 1) % n = After((x + j - 1) % n)
    OBVIOUS
  <2>1. j \in 1 .. k /\ x + (j + 1) - 1 = x + j
    BY <1>1
  <2> QED
    BY <1>8, <2>1
<1>10. k > 0 => /\ (x + 1 - 1) % n = x /\ After((x + k - 1) % n) = (x + k) % n
  <2> SUFFICES ASSUME k > 0 PROVE (x + 1 - 1) % n = x /\ After((x + k - 1) % n) = (x + k) % n
    OBVIOUS
  <2>1. k \in 1 .. k /\ x + 1 - 1 = x /\ x < n /\ x \in 0 .. 2 * n - 1
    BY <1>1
  <2> QED
    BY <1>2, <1>8, <2>1
<1>11. (x + k) % n \in 0 .. n - 1
  BY <1>1, <1>5
<1> QED
  BY <1>1, <1>7, <1>9, <1>10, <1>11 DEF n

-----------------------------------------------------------------------------
(* What is flushed from the ring buffer. *)

\* The bytes in the ring buffer follow each other up to the next number, and
\* nothing is printed into it before the lock is there.
RingInv ==
  /\ ring \in Seq(Serials) /\ Len(ring) <= Cap /\ serial \in Serials
  /\ \A i \in 1 .. Len(ring) - 1 : ring[i + 1] = After(ring[i])
  /\ ring # <<>> => After(ring[Len(ring)]) = serial
  /\ ~m_lock_cb => ring = <<>> /\ isrItem = NoIsrItem

\* The byte that leaves it next.
NextOut == IF ring = <<>> THEN serial ELSE ring[1]

\* The step takes nothing out.
NextStays == NextOut' = NextOut /\ (ring # <<>> => ring' # <<>>)

Flushing(t) == at[t] = "put" /\ op[t] = "flush"

\* A thread is where its call is; one that has copied a byte of the ring buffer
\* has the next one, and one that puts it the byte that left last, as a text of
\* one character.
CallRight(t) ==
  /\ at[t] \in Ops => op[t] = at[t]
  /\ at[t] = "pop" => /\ op[t] = "flush" /\ ring # <<>>
                      /\ taken[t] \in Serials /\ taken[t] = NextOut
  /\ Flushing(t) => /\ Len(text[t]) = 1 /\ pos[t] \in {1, 2}
                    /\ taken[t] \in Serials /\ After(taken[t]) = NextOut

CallInv == \A t \in Thread : CallRight(t)

\* A callback got the byte being put when its slot was passed, and had the one
\* in front of it, or none, before.
ServedInv ==
  /\ flushed \in [Port -> Serials \cup {-1}]
  /\ \A t \in Thread, s \in Slots : Flushing(t) /\ m_write_cb[s] # NULL =>
       IF pos[t] = 1 /\ s >= index[t]
       THEN flushed[m_write_cb[s]] = -1 \/ After(flushed[m_write_cb[s]]) = taken[t]
       ELSE flushed[m_write_cb[s]] = taken[t]
  /\ (\A t \in Thread : ~Flushing(t)) =>
       \A p \in Ports : flushed[p] = -1 \/ After(flushed[p]) = NextOut

PutTypes ==
  /\ pos \in [Thread -> Nat]
  /\ DOMAIN text = Thread /\ DOMAIN taken = Thread

FlushInv == IInv /\ PutTypes /\ RingInv /\ CallInv /\ ServedInv

\* Preserved by every step.
LEMMA PutTypesStep == IInv /\ PutTypes /\ [Next]_vars => PutTypes'
<1> SUFFICES ASSUME PutTypes, [Next]_vars PROVE PutTypes'
  OBVIOUS
<1> USE DEF PutTypes
<1>1. ASSUME UNCHANGED <<pos, text, taken>> PROVE PutTypes'
  BY <1>1
<1>2. ASSUME NEW u \in Thread, Convert(u) \/ StartDump(u) \/ Pop(u) PROVE PutTypes'
  <2>1. taken' = taken /\ \E it, chars : Puts(u, it, chars)
    BY <1>2 DEF Convert, StartDump, Pop
  <2> QED
    BY <2>1 DEF Puts
<1>4. ASSUME NEW u \in Thread, Flush(u) PROVE PutTypes'
  BY <1>4 DEF Flush
<1>3. ASSUME NEW u \in Thread, NextByte(u) \/ PutEnd(u) PROVE PutTypes'
  BY <1>3 DEF NextByte, PutEnd
<1> QED
  BY <1>1, <1>2, <1>3, <1>4
  DEF Next, ThreadStep, Isr, RegisterFirst, app_debug_init, Call, Lock, Unlock, EndOfFormat,
      FlushEnd, Register, Unregister, PutByte, IsrConvert, IsrPut, IsrPutEnd, vars, threadVars

\* The interrupt service puts what it accepts behind what is there.
LEMMA IsrPutRight ==
  ASSUME RingInv, IsrPut
  PROVE  RingInv' /\ NextStays
<1>1. PICK n \in {1, 4} :
        LET k == Few(n, Cap - Len(ring))
        IN /\ ring' = ring \o [j \in 1 .. k |-> (serial + j - 1) % (Cap + 2)]
           /\ serial' = (serial + k) % (Cap + 2)
  BY DEF IsrPut
<1> DEFINE k == Few(n, Cap - Len(ring))
           news == [j \in 1 .. k |-> (serial + j - 1) % (Cap + 2)]
           m == Len(ring)
<1>2. m \in Nat /\ m <= Cap /\ k \in 0 .. Cap /\ m + k <= Cap /\ serial \in Serials
  BY CapAssumption DEF RingInv, Few
<1>3. ring' = ring \o news /\ serial' = (serial + k) % (Cap + 2)
  BY <1>1
<1> HIDE DEF k
<1>4. /\ \A j \in 1 .. k : news[j] \in Serials
      /\ \A j \in 1 .. k - 1 : news[j + 1] = After(news[j])
      /\ k > 0 => news[1] = serial /\ After(news[k]) = serial'
      /\ serial' \in Serials
  <2>1. /\ \A j \in 1 .. k : (serial + j - 1) % (Cap + 2) \in Serials
        /\ \A j \in 1 .. k - 1 :
             (serial + (j + 1) - 1) % (Cap + 2) = After((serial + j - 1) % (Cap + 2))
        /\ k > 0 => /\ (serial + 1 - 1) % (Cap + 2) = serial
                    /\ After((serial + k - 1) % (Cap + 2)) = (serial + k) % (Cap + 2)
        /\ (serial + k) % (Cap + 2) \in Serials
    BY <1>2, NumbersRight
  <2>2. \A j \in 1 .. k : news[j] = (serial + j - 1) % (Cap + 2)
    OBVIOUS
  <2> HIDE DEF news
  <2>3. \A j \in 1 .. k : news[j] \in Serials
    BY <2>1, <2>2
  <2>4. ASSUME NEW j \in 1 .. k - 1 PROVE news[j + 1] = After(news[j])
    <3>1. j \in 1 .. k /\ j + 1 \in 1 .. k
      BY <1>2
    <3>2. news[j] = (serial + j - 1) % (Cap + 2)
      BY <2>2, <3>1
    <3>3. news[j + 1] = (serial + (j + 1) - 1) % (Cap + 2)
      BY <2>2, <3>1
    <3> QED
      BY <2>1, <3>2, <3>3
  <2>5. ASSUME k > 0 PROVE news[1] = serial /\ After(news[k]) = serial'
    <3>1. 1 \in 1 .. k /\ k \in 1 .. k
      BY <1>2, <2>5
    <3>2. news[1] = (serial + 1 - 1) % (Cap + 2)
      BY <2>2, <3>1
    <3>3. news[k] = (serial + k - 1) % (Cap + 2)
      BY <2>2, <3>1
    <3> QED
      BY <1>3, <2>1, <2>5, <3>2, <3>3
  <2> QED
    BY <1>3, <2>1, <2>3, <2>4, <2>5
<1>5. news \in Seq(Serials) /\ Len(news) = k
  BY <1>2, <1>4
<1> HIDE DEF news
<1>6. /\ ring \in Seq(Serials)
      /\ \A i \in 1 .. m - 1 : ring[i + 1] = After(ring[i])
      /\ m > 0 => After(ring[m]) = serial
      /\ ring = <<>> <=> m = 0
  BY DEF RingInv
<1>7. /\ ring' \in Seq(Serials) /\ Len(ring') = m + k
      /\ \A i \in 1 .. m : ring'[i] = ring[i]
      /\ \A j \in 1 .. k : ring'[m + j] = news[j]
  <2> DEFINE all == ring \o news
  <2>1. /\ all \in Seq(Serials) /\ Len(all) = Len(ring) + Len(news)
        /\ \A i \in 1 .. Len(ring) + Len(news) :
             all[i] = IF i <= Len(ring) THEN ring[i] ELSE news[i - Len(ring)]
    <3>1. ring \in Seq(Serials) /\ news \in Seq(Serials)
      BY <1>5, <1>6
    <3> QED
      BY <3>1, ConcatProperties
  <2> HIDE DEF all
  <2>2. ring' = all
    BY <1>3 DEF all
  <2>3. /\ Len(all) = m + k
        /\ \A i \in 1 .. m + k : all[i] = IF i <= m THEN ring[i] ELSE news[i - m]
    BY <1>5, <2>1
  <2> HIDE DEF m
  <2>4. ASSUME NEW i \in 1 .. m PROVE all[i] = ring[i]
    <3>1. i \in 1 .. m + k /\ i <= m
      BY <1>2
    <3> QED
      BY <2>3, <3>1
  <2>5. ASSUME NEW j \in 1 .. k PROVE all[m + j] = news[j]
    <3> DEFINE i == m + j
    <3>1. i \in 1 .. m + k /\ ~(i <= m) /\ i - m = j
      BY <1>2
    <3> HIDE DEF i
    <3>2. all[i] = news[i - m]
      BY <2>3, <3>1
    <3> QED
      BY <3>1, <3>2 DEF i
  <2> QED
    BY <2>1, <2>2, <2>3, <2>4, <2>5
<1>8. ring' = <<>> <=> m + k = 0
  BY <1>7
<1> HIDE DEF m
<1>a. serial % (Cap + 2) = serial
  <2> DEFINE c == Cap + 2
  <2>1. c \in Nat \ {0} /\ serial \in 0 .. c - 1
    BY <1>2, CapAssumption DEF Serials
  <2> HIDE DEF c
  <2>2. serial % c = serial
    BY <2>1
  <2> QED
    BY <2>2 DEF c
<1>b. k = 0 => serial' = serial
  BY <1>2, <1>3, <1>a DEF Serials
<1>9. ASSUME NEW i \in 1 .. (m + k) - 1 PROVE ring'[i + 1] = After(ring'[i])
  <2>1. CASE i < m
    <3>1. i \in 1 .. m /\ i + 1 \in 1 .. m /\ i \in 1 .. m - 1
      BY <1>2, <2>1
    <3> QED
      BY <1>6, <1>7, <3>1
  <2>2. CASE i = m
    <3>1. m > 0 /\ k > 0 /\ 1 \in 1 .. k /\ m \in 1 .. m
      BY <1>2, <2>2
    <3>2. ring'[m] = ring[m] /\ ring'[m + 1] = news[1]
      BY <1>7, <3>1
    <3> QED
      BY <1>4, <1>6, <2>2, <3>1, <3>2
  <2>3. CASE i > m
    <3> DEFINE j == i - m
    <3>1. j \in 1 .. k - 1 /\ j \in 1 .. k /\ j + 1 \in 1 .. k /\ m + j = i
          /\ m + (j + 1) = i + 1
      BY <1>2, <2>3
    <3> HIDE DEF j
    <3>2. ring'[m + j] = news[j] /\ ring'[m + (j + 1)] = news[j + 1]
      BY <1>7, <3>1
    <3>3. ring'[i] = news[j] /\ ring'[i + 1] = news[j + 1]
      BY <3>1, <3>2
    <3> QED
      BY <1>4, <3>1, <3>3
  <2> QED
    BY <1>2, <2>1, <2>2, <2>3
<1>10. ASSUME m + k # 0 PROVE After(ring'[m + k]) = serial'
  <2>1. CASE k = 0
    <3>1. m > 0 /\ m \in 1 .. m /\ m + k = m
      BY <1>2, <1>10, <2>1
    <3> QED
      BY <1>6, <1>7, <1>b, <2>1, <3>1
  <2>2. CASE k > 0
    <3>1. k \in 1 .. k
      BY <1>2, <2>2
    <3> QED
      BY <1>4, <1>7, <2>2, <3>1
  <2> QED
    BY <1>2, <2>1, <2>2
<1>11. RingInv'
  <2>1. m_lock_cb' = m_lock_cb /\ isrItem' = isrItem /\ isrItem # NoIsrItem
    BY DEF IsrPut
  <2>2. ~(~m_lock_cb')
    BY <2>1 DEF RingInv
  <2>3. Len(ring') <= Cap /\ ring' \in Seq(Serials) /\ serial' \in Serials
    BY <1>2, <1>4, <1>7
  <2>4. \A i \in 1 .. Len(ring') - 1 : ring'[i + 1] = After(ring'[i])
    <3> HIDE DEF After
    <3>1. Len(ring') - 1 = (m + k) - 1
      BY <1>7
    <3>2. 1 .. Len(ring') - 1 = 1 .. (m + k) - 1
      BY <3>1
    <3> QED
      BY <1>9, <3>2
  <2>5. ring' # <<>> => After(ring'[Len(ring')]) = serial'
    BY <1>7, <1>8, <1>10
  <2> QED
    BY <2>2, <2>3, <2>4, <2>5 DEF RingInv, After
<1>12. NextOut' = NextOut
  <2>1. CASE m = 0 /\ k = 0
    <3>1. ring = <<>> /\ ring' = <<>> /\ serial' = serial
      BY <1>2, <1>6, <1>8, <1>b, <2>1
    <3> QED
      BY <3>1 DEF NextOut
  <2>2. CASE m = 0 /\ k > 0
    <3>1. 1 \in 1 .. k /\ m + 1 = 1 /\ m + k # 0
      BY <1>2, <2>2
    <3>2. ring'[1] = news[1]
      BY <1>7, <3>1
    <3> QED
      BY <1>4, <1>6, <1>8, <2>2, <3>1, <3>2 DEF NextOut
  <2>3. CASE m > 0
    <3>1. 1 \in 1 .. m /\ m + k # 0
      BY <1>2, <2>3
    <3>2. ring'[1] = ring[1]
      BY <1>7, <3>1
    <3> QED
      BY <1>6, <1>8, <2>3, <3>1, <3>2 DEF NextOut
  <2> QED
    BY <1>2, <2>1, <2>2, <2>3
<1>13. ring # <<>> => ring' # <<>>
  <2>1. ring # <<>> => m # 0
    BY <1>6
  <2>2. m # 0 => m + k # 0
    BY <1>2
  <2> QED
    BY <1>8, <2>1, <2>2
<1> QED
  BY <1>11, <1>12, <1>13 DEF NextStays

\* Only a flush takes a byte out.
LEMMA PopRight ==
  ASSUME IInv, PutTypes, RingInv, NEW t \in Thread, CallRight(t), Pop(t)
  PROVE  RingInv' /\ After(taken[t]) = NextOut'
<1>1. /\ ring # <<>> /\ ring' = SubSeq(ring, 2, Len(ring)) /\ taken[t] = ring[1]
      /\ serial' = serial /\ m_lock_cb' = m_lock_cb /\ isrItem' = isrItem
  <2>1. ring # <<>> /\ taken[t] = ring[1] /\ ring \in Seq(Serials)
    BY DEF Pop, CallRight, NextOut, RingInv
  <2>2. Head(ring) = taken[t]
    BY <2>1
  <2> QED
    BY <2>1, <2>2 DEF Pop, Puts, isrVars
<1> DEFINE m == Len(ring)
<1>2. /\ ring \in Seq(Serials) /\ m \in Nat /\ m <= Cap /\ m > 0 /\ serial \in Serials
      /\ \A i \in 1 .. m - 1 : ring[i + 1] = After(ring[i])
      /\ After(ring[m]) = serial
      /\ m_lock_cb
  BY <1>1 DEF RingInv
<1>4. /\ ring' \in Seq(Serials) /\ Len(ring') = m - 1
      /\ \A i \in 1 .. m - 1 : ring'[i] = ring[i + 1]
  <2>1. \A i \in 2 .. m : ring[i] \in Serials
    BY <1>2
  <2>2. ring' = SubSeq(ring, 2, m)
    BY <1>1
  <2> HIDE DEF m
  <2>3. /\ ring' \in Seq(Serials)
        /\ Len(ring') = IF 2 <= m THEN m - 2 + 1 ELSE 0
        /\ \A i \in 1 .. m - 2 + 1 : ring'[i] = ring[2 + i - 1]
    BY <1>2, <2>1, <2>2, SubSeqProperties
  <2>4. Len(ring') = m - 1
    BY <1>2, <2>3
  <2>5. ASSUME NEW i \in 1 .. m - 1 PROVE ring'[i] = ring[i + 1]
    <3>1. i \in 1 .. m - 2 + 1 /\ 2 + i - 1 = i + 1
      BY <1>2
    <3> QED
      BY <2>3, <3>1
  <2> QED
    BY <2>3, <2>4, <2>5
<1>5. ring' = <<>> <=> m = 1
  BY <1>2, <1>4
<1> HIDE DEF m
<1>6. ASSUME NEW i \in 1 .. (m - 1) - 1 PROVE ring'[i + 1] = After(ring'[i])
  <2>1. i \in 1 .. m - 1 /\ i + 1 \in 1 .. m - 1
    BY <1>2
  <2> QED
    BY <1>2, <1>4, <2>1
<1>7. ASSUME m # 1 PROVE After(ring'[m - 1]) = serial'
  <2>1. m - 1 \in 1 .. m - 1 /\ (m - 1) + 1 = m
    BY <1>2, <1>7
  <2> QED
    BY <1>1, <1>2, <1>4, <2>1
<1>8. RingInv'
  <2>1. 1 .. Len(ring') - 1 = 1 .. (m - 1) - 1
    BY <1>4
  <2>2. \A i \in 1 .. Len(ring') - 1 : ring'[i + 1] = After(ring'[i])
    BY <1>6, <2>1
  <2>3. ring' # <<>> => After(ring'[Len(ring')]) = serial'
    BY <1>4, <1>5, <1>7
  <2>4. Len(ring') <= Cap
    BY <1>2, <1>4, CapAssumption
  <2> QED
    BY <1>1, <1>2, <1>4, <2>2, <2>3, <2>4 DEF RingInv, After
<1>9. After(ring[1]) = NextOut'
  <2>1. CASE m = 1
    BY <1>1, <1>2, <1>5, <2>1 DEF NextOut
  <2>2. CASE m # 1
    <3>1. 1 \in 1 .. m - 1
      BY <1>2, <2>2
    <3>2. ring'[1] = ring[1 + 1] /\ ring[1 + 1] = After(ring[1])
      BY <1>2, <1>4, <3>1
    <3> QED
      BY <1>5, <2>2, <3>2 DEF NextOut
  <2> QED
    BY <2>1, <2>2
<1> QED
  BY <1>1, <1>8, <1>9

\* The ring buffer holds bytes that follow each other, whoever writes or reads.
LEMMA RingStep ==
  ASSUME IInv, PutTypes, RingInv, CallInv, [Next]_vars
  PROVE  RingInv' /\ (NextStays \/ \E t \in Thread : Pop(t))
<1>1. ASSUME UNCHANGED <<m_lock_cb, ring, serial, isrItem>>
      PROVE  RingInv' /\ NextStays
  BY <1>1 DEF RingInv, NextStays, NextOut, After
<1>2. ASSUME app_debug_init PROVE RingInv' /\ NextStays
  <2>1. ring = <<>> /\ ring' = <<>> /\ m_lock_cb' /\ serial' = serial
    BY <1>2 DEF app_debug_init, RingInv
  <2>2. RingInv'
    BY <2>1, CapAssumption DEF RingInv
  <2> QED
    BY <2>1, <2>2 DEF NextStays, NextOut
<1>3. ASSUME IsrConvert PROVE RingInv' /\ NextStays
  <2>1. m_lock_cb /\ UNCHANGED <<m_lock_cb, ring, serial>>
    BY <1>3 DEF IsrConvert
  <2> QED
    BY <2>1 DEF RingInv, NextStays, NextOut, After
<1>4. ASSUME IsrPutEnd PROVE RingInv' /\ NextStays
  <2>1. isrItem' = NoIsrItem /\ UNCHANGED <<m_lock_cb, ring, serial>>
    BY <1>4 DEF IsrPutEnd
  <2> QED
    BY <2>1 DEF RingInv, NextStays, NextOut, After
<1>5. ASSUME NEW t \in Thread, Pop(t) PROVE RingInv'
  BY <1>5, PopRight DEF CallInv
<1>6. ASSUME NEW t \in Thread, ThreadStep(t), ~Pop(t) PROVE RingInv' /\ NextStays
  <2>1. UNCHANGED <<m_lock_cb, ring, serial, isrItem>>
    BY <1>6 DEF ThreadStep, Call, Lock, Unlock, Convert, EndOfFormat, StartDump, Puts,
                Flush, FlushEnd, Register, Unregister, PutByte, NextByte, PutEnd, isrVars
  <2> QED
    BY <1>1, <2>1
<1>7. ASSUME NEW p \in Port, RegisterFirst(p) PROVE RingInv' /\ NextStays
  BY <1>1, <1>7 DEF RegisterFirst, isrVars
<1>8. ASSUME UNCHANGED vars PROVE RingInv' /\ NextStays
  BY <1>1, <1>8 DEF vars, isrVars
<1> QED
  BY <1>2, <1>3, <1>4, <1>5, <1>6, <1>7, <1>8, IsrPutRight DEF Next, Isr

\* One thread at a time is past the lock.
LEMMA Alone ==
  ASSUME IInv, NEW t \in Thread, NEW u \in Thread, Inside(t), Inside(u)
  PROVE  t = u
  BY DEF IInv, LockInv

\* Each thread is where its call is.
LEMMA CallStep ==
  ASSUME IInv, PutTypes, RingInv, CallInv, [Next]_vars
  PROVE  CallInv'
<1> SUFFICES ASSUME NEW t \in Thread PROVE CallRight(t)'
  BY DEF CallInv
<1>0. /\ at \in [Thread -> {"idle", "lock", "pop", "put", "unlock"} \cup Ops]
      /\ op \in [Thread -> Ops]
      /\ DOMAIN pos = Thread /\ DOMAIN text = Thread /\ DOMAIN taken = Thread
      /\ CallRight(t)
  BY DEF IInv, Types, PutTypes, CallInv
<1> DEFINE Same == at'[t] = at[t] /\ op'[t] = op[t] /\ text'[t] = text[t]
                   /\ pos'[t] = pos[t] /\ taken'[t] = taken[t]
<1>1. ASSUME Same, NextStays PROVE CallRight(t)'
  BY <1>0, <1>1 DEF CallRight, Flushing, NextStays, After
<1>2. ASSUME at'[t] \in {"idle", "lock", "unlock"} PROVE CallRight(t)'
  BY <1>2 DEF CallRight, Flushing, Ops
<1>3. ASSUME at'[t] = op'[t], op'[t] \in Ops PROVE CallRight(t)'
  BY <1>3 DEF CallRight, Flushing, Ops
<1>4. ASSUME at'[t] = "put", op'[t] # "flush" PROVE CallRight(t)'
  BY <1>4 DEF CallRight, Flushing, Ops
<1>5. ASSUME NEW u \in Thread, Pop(u) PROVE CallRight(t)'
  <2>1. CASE u = t
    <3>1. /\ at'[t] = "put" /\ text'[t] = <<"s">> /\ pos'[t] = 1
          /\ taken'[t] = taken[t]
      BY <1>0, <1>5, <2>1 DEF Pop, Puts, Goto
    <3>2. taken[t] \in Serials /\ After(taken[t]) = NextOut'
      BY <1>0, <1>5, <2>1, PopRight DEF Pop, CallRight
    <3> QED
      BY <3>1, <3>2 DEF CallRight, Flushing, Ops, After
  <2>2. CASE u # t
    <3>1. ~Inside(t)
      BY <1>5, <2>2, Alone DEF Pop, Inside
    <3>2. at'[t] = at[t]
      BY <1>0, <1>5, <2>2 DEF Pop, Puts, Goto
    <3> QED
      BY <1>2, <3>1, <3>2 DEF Inside
  <2> QED
    BY <2>1, <2>2
<1>6. ASSUME NEW u \in Thread, ThreadStep(u), ~Pop(u), u # t, NextStays
      PROVE  CallRight(t)'
  <2>1. Same
    BY <1>0, <1>6
    DEF ThreadStep, Call, Lock, Unlock, Convert, EndOfFormat, StartDump, Puts, Goto,
        Flush, FlushEnd, Register, Unregister, PutByte, NextByte, PutEnd, threadVars
  <2> QED
    BY <1>1, <1>6, <2>1
<1>7. ASSUME ThreadStep(t), ~Pop(t), NextStays PROVE CallRight(t)'
  <2>1. ASSUME Call(t) \/ Unlock(t) \/ EndOfFormat(t) \/ FlushEnd(t) \/ Register(t)
               \/ Unregister(t)
        PROVE  CallRight(t)'
    BY <1>0, <1>2, <2>1
    DEF Call, Unlock, EndOfFormat, FlushEnd, Register, Unregister, Goto
  <2>2. ASSUME Lock(t) PROVE CallRight(t)'
    BY <1>0, <1>3, <2>2 DEF Lock, Goto
  <2>3. ASSUME Convert(t) \/ StartDump(t) PROVE CallRight(t)'
    <3>1. op[t] \in {"print", "dump"}
      BY <1>0, <2>3 DEF Convert, StartDump, CallRight, Ops
    <3>2. at'[t] = "put" /\ op'[t] = op[t]
      BY <1>0, <2>3 DEF Convert, StartDump, Puts, Goto
    <3> QED
      BY <1>4, <3>1, <3>2
  <2>4. ASSUME PutByte(t) PROVE CallRight(t)'
    <3>1. Same
      BY <2>4 DEF PutByte
    <3> QED
      BY <1>1, <1>7, <3>1
  <2>5. ASSUME NextByte(t) PROVE CallRight(t)'
    <3>1. /\ at[t] = "put" /\ pos[t] <= Len(text[t])
          /\ at'[t] = at[t] /\ op'[t] = op[t] /\ text'[t] = text[t] /\ taken'[t] = taken[t]
          /\ pos'[t] = pos[t] + 1
      BY <1>0, <2>5 DEF NextByte, MoreText
    <3>2. CASE op[t] = "flush"
      <4>1. Len(text[t]) = 1 /\ pos[t] \in {1, 2} /\ taken[t] \in Serials
            /\ After(taken[t]) = NextOut
        BY <1>0, <3>1, <3>2 DEF CallRight, Flushing
      <4>2. pos'[t] = 2
        BY <3>1, <4>1
      <4>3. NextOut' = NextOut
        BY <1>7 DEF NextStays
      <4> QED
        BY <3>1, <3>2, <4>1, <4>2, <4>3 DEF CallRight, Flushing, Ops, After
    <3>3. CASE op[t] # "flush"
      BY <1>4, <3>1, <3>3
    <3> QED
      BY <3>2, <3>3
  <2>6. ASSUME PutEnd(t) PROVE CallRight(t)'
    <3>1. op'[t] = op[t] /\ (at'[t] = "unlock" \/ at'[t] = op[t])
      BY <1>0, <2>6 DEF PutEnd, Goto
    <3> QED
      BY <1>0, <1>2, <1>3, <3>1
  <2>7. ASSUME Flush(t) PROVE CallRight(t)'
    <3>1. /\ at[t] = "flush" /\ op[t] = "flush" /\ ring # <<>> /\ ring \in Seq(Serials)
          /\ UNCHANGED <<op, ring, serial>>
      BY <1>0, <2>7 DEF Flush, CallRight, Ops, RingInv
    <3>2. at'[t] = "pop" /\ taken'[t] = Head(ring)
      BY <1>0, <2>7 DEF Flush, Goto
    <3>3. taken'[t] = ring[1] /\ ring[1] \in Serials /\ NextOut' = ring[1]
      BY <3>1, <3>2 DEF NextOut
    <3> QED
      BY <3>1, <3>2, <3>3 DEF CallRight, Flushing, Ops
  <2> QED
    BY <1>7, <2>1, <2>2, <2>3, <2>4, <2>5, <2>6, <2>7 DEF ThreadStep
<1>8. ASSUME UNCHANGED threadVars, NextStays PROVE CallRight(t)'
  <2>1. Same
    BY <1>8 DEF threadVars
  <2> QED
    BY <1>1, <1>8, <2>1
<1>9. (\E u \in Thread : ThreadStep(u)) \/ UNCHANGED threadVars
  BY DEF Next, Isr, RegisterFirst, app_debug_init, IsrConvert, IsrPut, IsrPutEnd, vars
<1> QED
  BY <1>5, <1>6, <1>7, <1>8, <1>9, RingStep

\* A byte is put to one callback, or its end is reached.
LEMMA ServedStep ==
  ASSUME IInv, PutTypes, RingInv, CallInv, ServedInv, [Next]_vars
  PROVE  ServedInv'
<1> USE DEF Slots
<1>0. /\ at \in [Thread -> {"idle", "lock", "pop", "put", "unlock"} \cup Ops]
      /\ op \in [Thread -> Ops] /\ index \in [Thread -> 0 .. NumPorts]
      /\ DOMAIN pos = Thread /\ DOMAIN text = Thread /\ DOMAIN taken = Thread
      /\ m_write_cb \in [Slots -> Port \cup {NULL}]
      /\ flushed \in [Port -> Serials \cup {-1}]
      /\ \A t \in Thread : CallRight(t)
  BY DEF IInv, Types, PutTypes, CallInv, ServedInv
<1> DEFINE Same(t) == /\ Flushing(t)' <=> Flushing(t)
                      /\ Flushing(t) => /\ pos'[t] = pos[t] /\ index'[t] = index[t]
                                        /\ taken'[t] = taken[t]
<1>1. ASSUME UNCHANGED <<m_write_cb, flushed>>, NextOut' = NextOut,
             \A t \in Thread : Same(t)
      PROVE  ServedInv'
  <2>1. Ports' = Ports
    BY <1>1 DEF Ports
  <2> QED
    BY <1>1, <2>1 DEF ServedInv, After
\* The thread of a step is the only one that can flush.
<1>2. ASSUME NEW u \in Thread, Inside(u), NEW t \in Thread, t # u
      PROVE  ~Flushing(t)
  BY <1>2, Alone DEF Flushing, Inside
<1>3. ASSUME NEW p \in Port, Install(p), NextOut' = NextOut,
             \A t \in Thread : ~Flushing(t) /\ ~Flushing(t)'
      PROVE  ServedInv'
  <2>1. \A q \in Ports : flushed[q] = -1 \/ After(flushed[q]) = NextOut
    BY <1>3 DEF ServedInv
  <2>2. CASE p \in Ports
    <3>1. UNCHANGED <<m_write_cb, flushed>>
      BY <1>3, <2>2 DEF Install, tableVars
    <3> QED
      BY <1>1, <1>3, <3>1
  <2>3. CASE p \notin Ports
    <3>1. /\ m_write_cb' = [m_write_cb EXCEPT ![number_of_callback] = p]
          /\ flushed' = [flushed EXCEPT ![p] = -1]
      BY <1>3, <2>3 DEF Install
    <3>2. flushed' \in [Port -> Serials \cup {-1}]
      BY <1>0, <3>1
    <3>3. ASSUME NEW q \in Ports' PROVE flushed'[q] = -1 \/ After(flushed'[q]) = NextOut'
      <4>1. PICK s \in Slots : q = m_write_cb'[s] /\ q # NULL
        BY DEF Ports
      <4>2. q = p \/ q = m_write_cb[s]
        BY <1>0, <3>1, <4>1
      <4>3. q = p \/ (q \in Ports /\ q # p)
        BY <2>3, <4>1, <4>2 DEF Ports
      <4>4. q \in Ports => q \in Port
        BY <1>0 DEF Ports
      <4> QED
        BY <1>0, <1>3, <2>1, <3>1, <4>3, <4>4
    <3> QED
      BY <1>3, <3>2, <3>3 DEF ServedInv, After
  <2> QED
    BY <2>2, <2>3
<1>4. ASSUME NEW p \in Port, RegisterFirst(p), NextOut' = NextOut PROVE ServedInv'
  <2>1. \A t \in Thread : at[t] = "idle" /\ at'[t] = at[t]
    BY <1>4 DEF RegisterFirst, threadVars, IInv, LockInv
  <2> QED
    BY <1>3, <1>4, <2>1 DEF RegisterFirst, Flushing
<1>5. ASSUME NEW u \in Thread, Register(u), NextOut' = NextOut PROVE ServedInv'
  <2>1. at[u] = "register" /\ at' = [at EXCEPT ![u] = "unlock"] /\ Install(cb[u])
    BY <1>5 DEF Register, Goto
  <2>2. \A t \in Thread : ~Flushing(t) /\ ~Flushing(t)'
    BY <1>0, <1>2, <2>1, <1>5 DEF Inside, Flushing, Register
  <2>3. CASE cb[u] \in Port
    BY <1>3, <1>5, <2>1, <2>2, <2>3
  <2>4. CASE cb[u] = NULL
    <3>1. \A t \in Thread : Same(t)
      BY <2>2
    <3>2. flushed' = flushed
      <4>1. NULL \notin Ports
        BY DEF Ports
      <4>2. flushed' = [flushed EXCEPT ![NULL] = -1]
        BY <2>1, <2>4, <4>1 DEF Install
      <4> QED
        BY <1>0, <4>2, NullAssumption
    <3>3. ASSUME NEW q \in Ports' PROVE q \in Ports
      <4>1. PICK s \in Slots : q = m_write_cb'[s] /\ q # NULL
        BY DEF Ports
      <4>2. q = m_write_cb[s]
        BY <1>0, <2>1, <2>4, <4>1 DEF Install, Ports
      <4> QED
        BY <4>1, <4>2 DEF Ports
    <3> QED
      BY <1>5, <2>2, <3>2, <3>3 DEF ServedInv, After
  <2> QED
    BY <1>0, <2>3, <2>4 DEF IInv, Types
<1>6. ASSUME NEW u \in Thread, Pop(u) PROVE ServedInv'
  <2>1. at[u] = "pop" /\ op[u] = "flush" /\ taken[u] = NextOut
    BY <1>0, <1>6 DEF Pop, CallRight, Ops
  <2>2. /\ at'[u] = "put" /\ op' = op /\ pos'[u] = 1 /\ index'[u] = 0
        /\ taken'[u] = NextOut /\ UNCHANGED <<m_write_cb, flushed>>
        /\ \A t \in Thread : t # u => at'[t] = at[t]
    BY <1>0, <1>6, <2>1 DEF Pop, Puts, Goto, tableVars, portVars
  <2>3. \A t \in Thread : ~Flushing(t)
    BY <1>2, <2>1 DEF Inside, Flushing
  <2>4. \A p \in Ports : flushed[p] = -1 \/ After(flushed[p]) = NextOut
    BY <2>3 DEF ServedInv
  <2>5. \A t \in Thread : Flushing(t)' <=> t = u
    BY <2>1, <2>2, <2>3 DEF Flushing
  <2>6. ASSUME NEW s \in Slots, m_write_cb[s] # NULL
        PROVE  flushed[m_write_cb[s]] = -1 \/ After(flushed[m_write_cb[s]]) = NextOut
    BY <2>4, <2>6 DEF Ports
  <2> QED
    BY <1>0, <2>2, <2>5, <2>6 DEF ServedInv, After
<1>7. ASSUME NEW u \in Thread, PutByte(u), NextOut' = NextOut PROVE ServedInv'
  <2>1. /\ at[u] = "put" /\ pos[u] <= Len(text[u]) /\ index[u] \in Slots
        /\ index' = [index EXCEPT ![u] = index[u] + 1]
        /\ UNCHANGED <<at, op, pos, taken, m_write_cb>>
    <3>1. index[u] \in 0 .. NumPorts /\ index[u] < NumPorts
      BY <1>0, <1>7 DEF PutByte
    <3>2. index[u] \in Slots
      BY <3>1, CapAssumption
    <3> QED
      BY <1>7, <3>2 DEF PutByte, MoreText, tableVars
  <2>2. CASE op[u] # "flush"
    <3>1. flushed' = flushed
      BY <1>7, <2>2 DEF PutByte, Deliver
    <3>2. \A t \in Thread : Same(t)
      BY <1>0, <2>1, <2>2 DEF Flushing
    <3> QED
      BY <1>1, <1>7, <2>1, <3>1, <3>2
  <2>3. CASE op[u] = "flush"
    <3>1. Flushing(u) /\ pos[u] = 1 /\ taken[u] \in Serials
      <4>1. /\ Flushing(u) /\ taken[u] \in Serials
            /\ Len(text[u]) = 1 /\ pos[u] \in {1, 2}
        BY <1>0, <2>1, <2>3 DEF Flushing, CallRight
      <4>2. pos[u] <= 1
        BY <2>1, <4>1
      <4> QED
        BY <4>1, <4>2
    <3>2. \A t \in Thread : (Flushing(t)' <=> t = u) /\ (Flushing(t) <=> t = u)
      BY <1>2, <2>1, <3>1 DEF Inside, Flushing
    <3> DEFINE i == index[u]
               p == m_write_cb[i]
    <3>3. flushed' = IF p = NULL THEN flushed ELSE [flushed EXCEPT ![p] = taken[u]]
      BY <1>7, <2>3 DEF PutByte, Deliver
    <3>4. p # NULL => p \in Port
      BY <1>0, <2>1
    <3>5. flushed' \in [Port -> Serials \cup {-1}]
      BY <1>0, <3>1, <3>3, <3>4
    <3>6. ASSUME NEW s \in Slots, m_write_cb[s] # NULL
          PROVE  IF s >= index'[u]
                 THEN flushed'[m_write_cb[s]] = -1
                      \/ After(flushed'[m_write_cb[s]]) = taken[u]
                 ELSE flushed'[m_write_cb[s]] = taken[u]
      <4>1. IF s >= i
            THEN flushed[m_write_cb[s]] = -1 \/ After(flushed[m_write_cb[s]]) = taken[u]
            ELSE flushed[m_write_cb[s]] = taken[u]
        BY <3>1, <3>6 DEF ServedInv
      <4>2. index'[u] = i + 1 /\ i \in Nat /\ s \in Int
        BY <1>0, <2>1
      <4>3. CASE s = i
        <5>1. flushed'[m_write_cb[s]] = taken[u]
          BY <1>0, <3>3, <3>4, <3>6, <4>3
        <5> QED
          BY <4>2, <4>3, <5>1
      <4>4. CASE s # i
        <5>1. p = NULL \/ m_write_cb[s] # p
          BY <2>1, <3>6, <4>4 DEF IInv, TableInv
        <5>2. flushed'[m_write_cb[s]] = flushed[m_write_cb[s]]
          BY <1>0, <3>3, <3>6, <5>1
        <5>3. s >= i <=> s >= index'[u]
          BY <4>2, <4>4
        <5> QED
          BY <4>1, <5>2, <5>3
      <4> QED
        BY <4>3, <4>4
    <3> HIDE DEF i, p
    <3> QED
      BY <2>1, <3>1, <3>2, <3>5, <3>6 DEF ServedInv, After
  <2> QED
    BY <2>2, <2>3
<1>8. ASSUME NEW u \in Thread, NextByte(u), NextOut' = NextOut PROVE ServedInv'
  <2>1. /\ at[u] = "put" /\ pos[u] <= Len(text[u]) /\ index[u] = NumPorts
        /\ index' = [index EXCEPT ![u] = 0] /\ pos' = [pos EXCEPT ![u] = pos[u] + 1]
        /\ UNCHANGED <<at, op, taken, m_write_cb, flushed>>
    BY <1>0, <1>8 DEF NextByte, MoreText, tableVars
  <2>2. CASE op[u] # "flush"
    <3>1. \A t \in Thread : Same(t)
      BY <1>0, <2>1, <2>2 DEF Flushing
    <3> QED
      BY <1>1, <1>8, <2>1, <3>1
  <2>3. CASE op[u] = "flush"
    <3>1. Flushing(u) /\ pos[u] = 1 /\ pos'[u] = 2
      <4>1. Flushing(u) /\ Len(text[u]) = 1 /\ pos[u] \in {1, 2}
        BY <1>0, <2>1, <2>3 DEF Flushing, CallRight
      <4>2. pos[u] <= 1
        BY <2>1, <4>1
      <4> QED
        BY <1>0, <2>1, <4>1, <4>2
    <3>2. \A t \in Thread : Flushing(t)' <=> t = u
      BY <1>2, <2>1, <3>1 DEF Inside, Flushing
    <3>3. ASSUME NEW s \in Slots, m_write_cb[s] # NULL
          PROVE  flushed[m_write_cb[s]] = taken[u]
      <4>1. ~(s >= index[u])
        BY <2>1, CapAssumption
      <4> QED
        BY <3>1, <3>3, <4>1 DEF ServedInv
    <3> QED
      BY <1>0, <2>1, <3>1, <3>2, <3>3 DEF ServedInv, After
  <2> QED
    BY <2>2, <2>3
<1>9. ASSUME NEW u \in Thread, PutEnd(u), NextOut' = NextOut PROVE ServedInv'
  <2>1. /\ at[u] = "put" /\ ~(pos[u] <= Len(text[u]))
        /\ at' = [at EXCEPT ![u] = IF op[u] = "dump" THEN "unlock" ELSE op[u]]
        /\ pos' = [pos EXCEPT ![u] = 1] /\ taken' = [taken EXCEPT ![u] = 0]
        /\ UNCHANGED <<op, index, m_write_cb, flushed>>
    BY <1>9 DEF PutEnd, MoreText, Goto, tableVars, portVars
  <2>2. ~Flushing(u)'
    BY <1>0, <2>1 DEF Flushing, Ops
  <2>3. CASE op[u] # "flush"
    <3>1. \A t \in Thread : Same(t)
      BY <1>0, <2>1, <2>2, <2>3 DEF Flushing
    <3> QED
      BY <1>1, <1>9, <2>1, <3>1
  <2>4. CASE op[u] = "flush"
    <3>1. Flushing(u) /\ pos[u] = 2 /\ After(taken[u]) = NextOut
      <4>1. Flushing(u) /\ CallRight(u)
        BY <1>0, <2>1, <2>4 DEF Flushing
      <4>2. Len(text[u]) = 1 /\ pos[u] \in {1, 2} /\ After(taken[u]) = NextOut
        BY <4>1 DEF CallRight
      <4>3. ~(pos[u] <= 1)
        BY <2>1, <4>2
      <4> QED
        BY <4>1, <4>2, <4>3
    <3>2. \A t \in Thread : ~Flushing(t)'
      BY <1>0, <1>2, <2>1, <2>2 DEF Inside, Flushing
    <3>3. ASSUME NEW p \in Ports PROVE flushed[p] = taken[u]
      <4>1. PICK s \in Slots : p = m_write_cb[s] /\ p # NULL
        BY DEF Ports
      <4> QED
        BY <3>1, <4>1 DEF ServedInv
    <3>4. Ports' = Ports
      BY <2>1 DEF Ports
    <3> QED
      BY <1>0, <1>9, <2>1, <3>1, <3>2, <3>3, <3>4 DEF ServedInv, After
  <2> QED
    BY <2>3, <2>4
<1>10. ASSUME NEW u \in Thread, NextOut' = NextOut,
              Call(u) \/ Lock(u) \/ Unlock(u) \/ Convert(u) \/ EndOfFormat(u) \/ StartDump(u)
              \/ Flush(u) \/ FlushEnd(u) \/ Unregister(u)
       PROVE  ServedInv'
  <2>1. at[u] # "put" /\ UNCHANGED <<m_write_cb, flushed>>
    BY <1>10
    DEF Call, Lock, Unlock, Convert, EndOfFormat, StartDump, Puts, Flush, FlushEnd,
        Unregister, tableVars, portVars
  <2>2. ~(at'[u] = "put" /\ op'[u] = "flush")
    <3>1. CASE Convert(u) \/ StartDump(u)
      <4>1. op' = op /\ at[u] \in {"print", "dump"}
        BY <3>1 DEF Convert, StartDump, Puts
      <4> QED
        BY <1>0, <4>1 DEF CallRight, Ops
    <3>2. CASE ~(Convert(u) \/ StartDump(u))
      BY <1>0, <1>10, <3>2 DEF Call, Lock, Unlock, EndOfFormat, Flush, FlushEnd,
          Unregister, Goto, Ops
    <3> QED
      BY <3>1, <3>2
  <2>3. ASSUME NEW t \in Thread, t # u PROVE Same(t)
    <3>1. /\ at'[t] = at[t] /\ op'[t] = op[t] /\ pos'[t] = pos[t] /\ index'[t] = index[t]
          /\ taken'[t] = taken[t]
      BY <1>0, <1>10, <2>3
      DEF Call, Lock, Unlock, Convert, EndOfFormat, StartDump, Puts, Flush, FlushEnd,
          Unregister, Goto
    <3> QED
      BY <3>1 DEF Flushing
  <2>4. Same(u)
    BY <2>1, <2>2 DEF Flushing
  <2> QED
    BY <1>1, <1>10, <2>1, <2>3, <2>4
<1>11. ASSUME UNCHANGED <<m_write_cb, flushed, threadVars>>, NextOut' = NextOut
       PROVE  ServedInv'
  <2>1. \A t \in Thread : Same(t)
    BY <1>11 DEF Flushing, threadVars
  <2> QED
    BY <1>1, <1>11, <2>1
<1>12. \/ \E p \in Port : RegisterFirst(p)
       \/ \E u \in Thread : ThreadStep(u)
       \/ UNCHANGED <<m_write_cb, flushed, threadVars>>
  BY DEF Next, Isr, app_debug_init, IsrConvert, IsrPut, IsrPutEnd, vars, tableVars, portVars
<1> QED
  BY <1>4, <1>5, <1>6, <1>7, <1>8, <1>9, <1>10, <1>11, <1>12, RingStep
  DEF ThreadStep, NextStays

\* It holds before the interrupt service has printed.
LEMMA InitFlush == Init => FlushInv
<1> SUFFICES ASSUME Init PROVE FlushInv
  OBVIOUS
<1>1. IInv
  BY InitInv
<1>2. PutTypes
  BY DEF Init, PutTypes
<1>3. RingInv
  BY CapAssumption DEF Init, RingInv, Serials
<1>4. CallInv
  BY DEF Init, CallInv, CallRight, Flushing, Ops
<1>5. ServedInv
  BY DEF Init, ServedInv, Flushing, Ports
<1> QED
  BY <1>1, <1>2, <1>3, <1>4, <1>5 DEF FlushInv

\* What is in the ring buffer, in a thread's hand and at the callbacks are
\* bytes that follow each other.
THEOREM FlushInductive == Spec => []FlushInv
<1>1. IInv /\ [Next]_vars => IInv'
  BY TypesStep, LockStep, TableStep, RoundStep DEF IInv
<1>2. FlushInv /\ [Next]_vars => FlushInv'
  BY <1>1, PutTypesStep, RingStep, CallStep, ServedStep DEF FlushInv
<1> QED
  BY InitFlush, <1>2, PTL DEF Spec

\* The byte a flush gives to a callback is the one the ring buffer took next
\* after the callback's last one, whichever threads flush and however the
\* interrupt service prints: none is skipped and none comes twice.
THEOREM FlushedAreInOrder == Spec => FlushedInOrder
<1> DEFINE InOrder(p) ==
             IF ahead'[p] > ahead[p] /\ op[from'[p]] = "flush"
             THEN flushed[p] = -1 \/ flushed'[p] = After(flushed[p])
             ELSE flushed'[p] \in {flushed[p], -1}
<1>1. FlushInv /\ [Next]_vars => [\A p \in Port : InOrder(p)]_vars
  <2> SUFFICES ASSUME FlushInv, Next, NEW p \in Port
               PROVE  InOrder(p)
    OBVIOUS
  <2>0. /\ flushed \in [Port -> Serials \cup {-1}]
        /\ ahead \in [Port -> Nat] /\ from \in [Port -> Thread \cup {NULL}]
    BY DEF FlushInv, ServedInv, IInv, Types
  <2>1. ASSUME NEW u \in Thread, PutByte(u) PROVE InOrder(p)
    <3> DEFINE i == index[u]
               q == m_write_cb[i]
    <3>1. at[u] = "put" /\ pos[u] <= Len(text[u]) /\ i \in Slots
      <4>1. index[u] \in 0 .. NumPorts /\ index[u] < NumPorts
        BY <2>1 DEF PutByte, FlushInv, IInv, Types
      <4>2. i \in Slots
        BY <4>1, CapAssumption DEF Slots
      <4> QED
        BY <2>1, <4>2 DEF PutByte, MoreText
    <3>2. q = NULL => UNCHANGED <<from, ahead, flushed>>
      BY <2>1 DEF PutByte
    <3>3. q # NULL => Deliver(u, q) /\ q \in Port
      BY <2>1, <3>1 DEF PutByte, FlushInv, IInv, Types
    <3> HIDE DEF i
    <3>4. CASE q = NULL \/ q # p
      <4>1. ahead'[p] = ahead[p] /\ flushed'[p] = flushed[p]
        BY <2>0, <3>2, <3>3, <3>4 DEF Deliver
      <4> QED
        BY <2>0, <4>1
    <3>5. CASE q = p /\ q # NULL
      <4>1. from'[p] = u /\ ahead'[p] = ahead[p] + 1 /\ ahead'[p] > ahead[p]
        BY <2>0, <3>3, <3>5 DEF Deliver
      <4>2. CASE op[u] # "flush"
        <5>1. flushed' = flushed
          BY <3>3, <3>5, <4>2 DEF Deliver
        <5> QED
          BY <4>1, <4>2, <5>1
      <4>3. CASE op[u] = "flush"
        <5>1. flushed'[p] = taken[u]
          BY <2>0, <3>3, <3>5, <4>3 DEF Deliver
        <5>2. Flushing(u) /\ pos[u] = 1
          <6>1. Flushing(u) /\ Len(text[u]) = 1 /\ pos[u] \in {1, 2}
            BY <3>1, <4>3 DEF FlushInv, CallInv, CallRight, Flushing
          <6>2. pos[u] <= 1
            BY <3>1, <6>1
          <6> QED
            BY <6>1, <6>2
        <5>3. i >= i
          BY <3>1 DEF Slots
        <5>4. flushed[p] = -1 \/ After(flushed[p]) = taken[u]
          BY <3>1, <3>5, <5>2, <5>3 DEF FlushInv, ServedInv, i
        <5> QED
          BY <4>1, <4>3, <5>1, <5>4
      <4> QED
        BY <4>2, <4>3
    <3> QED
      BY <3>4, <3>5
  <2>2. ASSUME NEW q, Install(q), ahead' = ahead PROVE InOrder(p)
    <3>1. flushed'[p] \in {flushed[p], -1}
      BY <2>0, <2>2 DEF Install
    <3>2. ~(ahead'[p] > ahead[p])
      BY <2>0, <2>2
    <3> QED
      BY <3>1, <3>2
  <2>3. ASSUME flushed' = flushed, ahead' = ahead \/ ahead' = [x \in Port |-> 0]
        PROVE  InOrder(p)
    <3>1. ~(ahead'[p] > ahead[p])
      BY <2>0, <2>3
    <3> QED
      BY <2>3, <3>1
  <2>4. ASSUME NEW u \in Thread, ThreadStep(u), ~PutByte(u) PROVE InOrder(p)
    <3>1. ASSUME Lock(u) \/ NextByte(u) PROVE InOrder(p)
      BY <2>3, <3>1 DEF Lock, NextByte
    <3>2. ASSUME Register(u) PROVE InOrder(p)
      BY <2>2, <3>2 DEF Register
    <3>3. ASSUME Convert(u) \/ StartDump(u) \/ Pop(u) PROVE InOrder(p)
      <4>1. \E it, chars : Puts(u, it, chars)
        BY <3>3 DEF Convert, StartDump, Pop
      <4> QED
        BY <2>3, <4>1 DEF Puts, portVars
    <3>4. ASSUME Call(u) \/ Unlock(u) \/ EndOfFormat(u) \/ Flush(u) \/ FlushEnd(u)
                 \/ Unregister(u) \/ PutEnd(u)
          PROVE  InOrder(p)
      <4>1. UNCHANGED portVars
        BY <3>4 DEF Call, Unlock, EndOfFormat, Flush, FlushEnd, Unregister, PutEnd
      <4> QED
        BY <2>3, <4>1 DEF portVars
    <3> QED
      BY <2>4, <3>1, <3>2, <3>3, <3>4 DEF ThreadStep
  <2>5. ASSUME app_debug_init \/ Isr PROVE InOrder(p)
    <3>1. UNCHANGED portVars
      BY <2>5 DEF Isr, app_debug_init, IsrConvert, IsrPut, IsrPutEnd
    <3> QED
      BY <2>3, <3>1 DEF portVars
  <2>6. ASSUME NEW q \in Port, RegisterFirst(q) PROVE InOrder(p)
    BY <2>2, <2>6 DEF RegisterFirst
  <2> HIDE DEF InOrder
  <2> QED
    BY <2>1, <2>4, <2>5, <2>6 DEF Next
<1> QED
  BY FlushInductive, <1>1, PTL DEF Spec, FlushedInOrder

-----------------------------------------------------------------------------
(* Recursion.  A function defined by recursion is a CHOOSE: it satisfies   *)
(* its equation when some function does, which is built here by            *)
(* well-founded recursion on a rank.                                       *)

\* A set of numbers that is not empty has a least one.
LEMMA LeastNat ==
  ASSUME NEW T \in SUBSET Nat, T # {}
  PROVE  \E x \in T : \A y \in T : x <= y
<1> DEFINE Upto == {0 .. n : n \in T}
           R == StrictSubsetOrdering(Nat)
           F == FiniteSubsetsOf(Nat)
<1>1. \A n \in Nat : 0 .. n \in F
  <2> SUFFICES ASSUME NEW n \in Nat PROVE 0 .. n \in F
    OBVIOUS
  <2>1. IsFiniteSet(0 .. n) /\ 0 .. n \in SUBSET Nat
    BY FS_Interval
  <2> QED
    BY <2>1 DEF FiniteSubsetsOf
<1>2. IsWellFoundedOn(R, F)
  BY FS_StrictSubsetOrderingWellFounded
<1>3. PICK B \in Upto : \A C \in Upto : ~(<<C, B>> \in R)
  <2> HIDE DEF F, R
  <2>1. Upto \subseteq F /\ Upto # {}
    BY <1>1
  <2> HIDE DEF Upto
  <2> QED
    BY <1>2, <2>1, WFMin
<1>4. PICK x \in T : B = 0 .. x
  OBVIOUS
<1>5. ASSUME NEW y \in T, y < x PROVE FALSE
  <2>1. 0 .. y \subseteq 0 .. x /\ 0 .. y # 0 .. x
    BY <1>5
  <2>2. <<0 .. y, 0 .. x>> \in R
    BY <2>1 DEF StrictSubsetOrdering
  <2> QED
    BY <1>3, <1>4, <2>2
<1> QED
  BY <1>5

\* Induction, over a set of numbers.
LEMMA Induct ==
  ASSUME NEW G, 0 \in G, \A n \in Nat : n \in G => n + 1 \in G
  PROVE  Nat \subseteq G
<1> SUFFICES ASSUME Nat \ G # {} PROVE FALSE
  OBVIOUS
<1>1. PICK x \in Nat \ G : \A y \in Nat \ G : x <= y
  <2>1. Nat \ G \in SUBSET Nat
    OBVIOUS
  <2> QED
    BY <2>1, LeastNat
<1>2. x # 0 /\ x - 1 \in Nat /\ ~(x <= x - 1)
  BY <1>1
<1>3. x - 1 \in G
  BY <1>1, <1>2
<1>4. x - 1 + 1 \in G
  BY <1>2, <1>3
<1> QED
  BY <1>1, <1>2, <1>4

\* The same over the rank of the elements of a set.
LEMMA Descend ==
  ASSUME NEW D, NEW rank \in [D -> Nat], NEW G,
         \A x \in D : (\A y \in D : rank[y] < rank[x] => y \in G) => x \in G
  PROVE  D \subseteq G
<1> SUFFICES ASSUME NEW z \in D, z \notin G PROVE FALSE
  OBVIOUS
<1> DEFINE T == {rank[y] : y \in {y \in D : y \notin G}}
<1>1. T \in SUBSET Nat /\ T # {}
  OBVIOUS
<1>2. PICK m \in T : \A k \in T : m <= k
  <2> HIDE DEF T
  <2> QED
    BY <1>1, LeastNat
<1>3. PICK x \in D : x \notin G /\ rank[x] = m
  BY <1>2
<1>4. ASSUME NEW y \in D, rank[y] < rank[x] PROVE y \in G
  <2> SUFFICES ASSUME y \notin G PROVE FALSE
    OBVIOUS
  <2>1. rank[y] \in T
    OBVIOUS
  <2>2. m <= rank[y] /\ rank[y] \in Nat /\ rank[x] \in Nat
    BY <1>2, <2>1
  <2> QED
    BY <1>3, <1>4, <2>2
<1> QED
  BY <1>3, <1>4

\* A recursion on D: its value at x is made of its value at pred[x], which has
\* a lower rank, until it comes to where it ends.
WellMade(D, S, rank, pred, ends, start, step) ==
  /\ rank \in [D -> Nat] /\ pred \in [D -> D]
  /\ start \in [D -> S] /\ step \in [S \X D -> S]
  /\ \A x \in D : x \notin ends => rank[pred[x]] < rank[x]

Solves(f, D, S, pred, ends, start, step) ==
  /\ f \in [D -> S]
  /\ \A x \in D : f[x] = IF x \in ends THEN start[x] ELSE step[<<f[pred[x]], x>>]

\* It defines a function.
LEMMA Recursion ==
  ASSUME NEW D, NEW S, NEW rank, NEW pred, NEW ends, NEW start, NEW step,
         WellMade(D, S, rank, pred, ends, start, step)
  PROVE  \E f : Solves(f, D, S, pred, ends, start, step)
<1> USE DEF WellMade
<1> DEFINE Then(f, x) == IF x \in ends THEN start[x] ELSE step[<<f[pred[x]], x>>]
           Good(f, m) == f \in [D -> S] /\ \A x \in D : rank[x] < m => f[x] = Then(f, x)
           Ms == {m \in Nat : \E f : Good(f, m)}
<1>0. ASSUME NEW f \in [D -> S], NEW x \in D PROVE Then(f, x) \in S
  <2>1. start[x] \in S /\ pred[x] \in D
    OBVIOUS
  <2>2. <<f[pred[x]], x>> \in S \X D
    BY <2>1
  <2>3. step[<<f[pred[x]], x>>] \in S
    BY <2>2
  <2> QED
    BY <2>1, <2>3
<1>1. Nat \subseteq Ms
  <2>1. 0 \in Ms
    <3>1. Good(start, 0)
      OBVIOUS
    <3> QED
      BY <3>1
  <2>2. ASSUME NEW m \in Nat, m \in Ms PROVE m + 1 \in Ms
    <3>1. PICK g : Good(g, m)
      BY <2>2
    <3> DEFINE h == [x \in D |-> Then(g, x)]
    <3>2. h \in [D -> S]
      BY <1>0, <3>1
    <3>3. ASSUME NEW x \in D, rank[x] < m + 1 PROVE h[x] = Then(h, x)
      <4>1. CASE x \in ends
        BY <4>1
      <4>2. CASE x \notin ends
        <5>1. pred[x] \in D /\ rank[pred[x]] < m
          BY <3>3, <4>2
        <5>2. g[pred[x]] = Then(g, pred[x])
          BY <3>1, <5>1
        <5>3. h[pred[x]] = g[pred[x]]
          BY <5>1, <5>2
        <5> HIDE DEF h
        <5>4. h[x] = Then(g, x)
          BY DEF h
        <5> QED
          BY <5>3, <5>4
      <4> QED
        BY <4>1, <4>2
    <3> HIDE DEF h
    <3>4. Good(h, m + 1)
      BY <3>2, <3>3
    <3> QED
      BY <3>4
  <2> HIDE DEF Ms
  <2> QED
    BY <2>1, <2>2, Induct
<1> DEFINE F == [m \in Nat |-> CHOOSE f : Good(f, m)]
<1>2. ASSUME NEW m \in Nat PROVE Good(F[m], m)
  <2>1. \E f : Good(f, m)
    BY <1>1
  <2> HIDE DEF Good
  <2>2. Good(CHOOSE f : Good(f, m), m)
    BY <2>1
  <2> QED
    BY <2>2
<1> HIDE DEF F
<1> DEFINE Same == {x \in D : \A m, k \in Nat : rank[x] < m /\ rank[x] < k => F[m][x] = F[k][x]}
<1>3. ASSUME NEW x \in D, \A y \in D : rank[y] < rank[x] => y \in Same PROVE x \in Same
  <2> SUFFICES ASSUME NEW m \in Nat, NEW k \in Nat, rank[x] < m, rank[x] < k
               PROVE  F[m][x] = F[k][x]
    OBVIOUS
  <2>1. F[m][x] = Then(F[m], x) /\ F[k][x] = Then(F[k], x)
    BY <1>2
  <2>2. CASE x \in ends
    BY <2>1, <2>2
  <2>3. CASE x \notin ends
    <3>1. pred[x] \in D /\ rank[pred[x]] < rank[x] /\ rank[pred[x]] \in Nat /\ rank[x] \in Nat
      BY <2>3
    <3>2. pred[x] \in Same /\ rank[pred[x]] < m /\ rank[pred[x]] < k
      BY <1>3, <3>1
    <3>3. F[m][pred[x]] = F[k][pred[x]]
      BY <3>2
    <3> QED
      BY <2>1, <3>3
  <2> QED
    BY <2>2, <2>3
<1>4. D \subseteq Same
  <2> HIDE DEF Same
  <2> QED
    BY <1>3, Descend
<1> DEFINE w == [x \in D |-> F[rank[x] + 1][x]]
<1>5. w \in [D -> S]
  <2> SUFFICES ASSUME NEW x \in D PROVE F[rank[x] + 1][x] \in S
    OBVIOUS
  <2>1. rank[x] + 1 \in Nat
    OBVIOUS
  <2>2. F[rank[x] + 1] \in [D -> S]
    BY <1>2, <2>1
  <2> QED
    BY <2>2
<1>6. ASSUME NEW x \in D PROVE w[x] = Then(w, x)
  <2> DEFINE m == rank[x] + 1
  <2>1. m \in Nat /\ rank[x] < m /\ rank[x] \in Nat /\ w[x] = F[m][x]
    OBVIOUS
  <2> HIDE DEF m
  <2>2. w[x] = Then(F[m], x)
    BY <1>2, <2>1
  <2>3. CASE x \in ends
    BY <2>2, <2>3
  <2>4. CASE x \notin ends
    <3> DEFINE y == pred[x]
    <3>1. y \in D /\ rank[y] < rank[x] /\ rank[y] \in Nat
      BY <2>4
    <3>2. w[y] = F[rank[y] + 1][y]
      BY <3>1
    <3>3. rank[y] + 1 \in Nat /\ rank[y] < rank[y] + 1 /\ rank[y] < m
      BY <2>1, <3>1
    <3>4. F[rank[y] + 1][y] = F[m][y]
      BY <1>4, <2>1, <3>1, <3>3
    <3> HIDE DEF w
    <3> QED
      BY <2>2, <3>2, <3>4
  <2> QED
    BY <2>3, <2>4
<1> HIDE DEF w
<1> QED
  BY <1>5, <1>6 DEF Solves

-----------------------------------------------------------------------------
(* Powers and digits. *)

Bases == {2, 8, 10, 16}

\* Power is the power: 1, and base times the one before.
LEMMA PowerRight ==
  ASSUME NEW base \in Bases
  PROVE  /\ Power(base, 0) = 1
         /\ \A j \in Nat : /\ Power(base, j) \in Nat \ {0}
                           /\ Power(base, j + 1) = base * Power(base, j)
<1> USE DEF Bases
<1> DEFINE Then(f, j) == IF j = 0 THEN 1 ELSE base * f[j - 1]
           Is(f) == f = [j \in Nat |-> Then(f, j)]
           of == CHOOSE f : Is(f)
<1>1. \E f : Is(f)
  <2> DEFINE rank == [j \in Nat |-> j]
             pred == [j \in Nat |-> IF j = 0 THEN 0 ELSE j - 1]
             ends == {0}
             start == [j \in Nat |-> 1]
             step == [v \in Nat \X Nat |-> base * v[1]]
  <2>1. WellMade(Nat, Nat, rank, pred, ends, start, step)
    BY DEF WellMade
  <2>2. PICK f : Solves(f, Nat, Nat, pred, ends, start, step)
    <3> HIDE DEF rank, pred, start, step, ends
    <3> QED
      BY <2>1, Recursion
  <2>3. ASSUME NEW j \in Nat PROVE f[j] = Then(f, j)
    <3> USE <2>2 DEF Solves
    <3>1. CASE j = 0
      BY <2>2, <3>1
    <3>2. CASE j # 0
      <4>1. pred[j] = j - 1 /\ j - 1 \in Nat
        BY <3>2
      <4>2. <<f[j - 1], j>> \in Nat \X Nat
        BY <4>1
      <4>3. f[j] = step[<<f[j - 1], j>>]
        BY <2>2, <3>2, <4>1
      <4> QED
        BY <3>2, <4>2, <4>3
    <3> QED
      BY <3>1, <3>2
  <2>4. Is(f)
    BY <2>2, <2>3 DEF Solves
  <2> QED
    BY <2>4
<1>2. Is(of)
  <2> HIDE DEF Is
  <2> QED
    BY <1>1
<1>3. \A k : Power(base, k) = of[k]
  BY DEF Power
<1> HIDE DEF of
<1>4. \A j \in Nat : Power(base, j) = IF j = 0 THEN 1 ELSE base * Power(base, j - 1)
  <2>1. \A j \in Nat : of[j] = Then(of, j)
    BY <1>2
  <2> QED
    BY <1>3, <2>1
<1>5. \A j \in Nat : Power(base, j + 1) = base * Power(base, j)
  <2> SUFFICES ASSUME NEW j \in Nat PROVE Power(base, j + 1) = base * Power(base, j)
    OBVIOUS
  <2>1. j + 1 \in Nat /\ j + 1 # 0 /\ j + 1 - 1 = j
    OBVIOUS
  <2> QED
    BY <1>4, <2>1
<1> DEFINE G == {j \in Nat : Power(base, j) \in Nat \ {0}}
<1>6. Nat \subseteq G
  <2>1. 0 \in G
    BY <1>4
  <2>2. ASSUME NEW j \in Nat, j \in G PROVE j + 1 \in G
    BY <1>5, <2>2
  <2> HIDE DEF G
  <2> QED
    BY <2>1, <2>2, Induct
<1> QED
  BY <1>4, <1>5, <1>6

\* A higher exponent gives no lower power, and no base is below 2.
LEMMA PowerGrows ==
  ASSUME NEW base \in Bases, NEW k \in Nat
  PROVE  /\ \A j \in 0 .. k : Power(base, j) <= Power(base, k)
         /\ Power(2, k) <= Power(base, k)
<1> USE DEF Bases
<1> DEFINE G == {m \in Nat : /\ \A j \in 0 .. m : Power(base, j) <= Power(base, m)
                             /\ Power(2, m) <= Power(base, m)}
<1>1. 2 \in Bases
  OBVIOUS
<1>2. 0 \in G
  <2>1. Power(base, 0) = 1 /\ Power(2, 0) = 1
    BY <1>1, PowerRight
  <2>2. \A j \in 0 .. 0 : j = 0
    OBVIOUS
  <2> QED
    BY <2>1, <2>2
<1>3. ASSUME NEW m \in Nat, m \in G PROVE m + 1 \in G
  <2> DEFINE p == Power(base, m)
             q == Power(2, m)
             r == Power(base, m + 1)
  <2>1. p \in Nat \ {0} /\ q \in Nat \ {0} /\ r = base * p
        /\ Power(2, m + 1) = 2 * q
    BY <1>1, PowerRight
  <2>2. q <= p /\ \A j \in 0 .. m : Power(base, j) <= p /\ Power(base, j) \in Nat
    <3>1. \A j \in 0 .. m : j \in Nat
      OBVIOUS
    <3>2. \A j \in Nat : Power(base, j) \in Nat
      BY PowerRight
    <3> QED
      BY <1>3, <3>1, <3>2
  <2>3. p <= r /\ 2 * q <= r /\ r \in Nat
    <3> HIDE DEF p, q, r
    <3> QED
      BY <2>1, <2>2
  <2>4. ASSUME NEW j \in 0 .. m + 1 PROVE Power(base, j) <= r
    <3>1. CASE j = m + 1
      BY <2>3, <3>1
    <3>2. CASE j # m + 1
      <4>1. j \in 0 .. m
        BY <3>2
      <4>2. Power(base, j) <= p /\ Power(base, j) \in Nat
        BY <2>2, <4>1
      <4> HIDE DEF p, r
      <4> QED
        BY <2>1, <2>3, <4>2
    <3> QED
      BY <3>1, <3>2
  <2> QED
    BY <2>1, <2>3, <2>4
<1>4. k \in G
  <2> HIDE DEF G
  <2> QED
    BY <1>2, <1>3, Induct
<1> QED
  BY <1>4

Figures == {"0", "1", "2", "3", "4", "5", "6", "7", "8", "9", "a", "b", "c", "d", "e", "f"}

DigitOf(n, base) == lower_digits[(n % base) + 1]

\* Digits as the recursion of the code: the last digit, behind the others.
LEMMA DigitsRight ==
  ASSUME NEW base \in Bases, NEW n \in Nat
  PROVE  /\ Digits(n, base) = IF n < base THEN <<DigitOf(n, base)>>
                              ELSE Digits(n \div base, base) \o <<DigitOf(n, base)>>
         /\ Digits(n, base) \in Seq(Figures)
<1> USE DEF Bases
<1> DEFINE d(m) == <<DigitOf(m, base)>>
           Then(f, m) == IF m < base THEN d(m) ELSE f[m \div base] \o d(m)
           Is(f) == f = [m \in Nat |-> Then(f, m)]
           of == CHOOSE f : Is(f)
           T == Seq(Figures)
<1>1. ASSUME NEW m \in Nat
      PROVE  d(m) \in T /\ m \div base \in Nat /\ (m >= base => m \div base < m)
  <2>1. m % base \in 0 .. 15 /\ m \div base \in Nat /\ (m >= base => m \div base < m)
    OBVIOUS
  <2>2. \A i \in 1 .. 16 : lower_digits[i] \in Figures
    BY DEF lower_digits, Figures
  <2>3. (m % base) + 1 \in 1 .. 16
    BY <2>1
  <2> QED
    BY <2>1, <2>2, <2>3 DEF DigitOf
<1> HIDE DEF d
<1>2. \E f : Is(f)
  <2> DEFINE rank == [m \in Nat |-> m]
             pred == [m \in Nat |-> m \div base]
             ends == 0 .. base - 1
             start == [m \in Nat |-> d(m)]
             step == [v \in T \X Nat |-> v[1] \o d(v[2])]
  <2>1. WellMade(Nat, T, rank, pred, ends, start, step)
    <3> HIDE DEF T
    <3>1. ASSUME NEW v \in T \X Nat PROVE v[1] \o d(v[2]) \in T
      <4>1. v[1] \in Seq(Figures) /\ d(v[2]) \in Seq(Figures)
        BY <1>1 DEF T
      <4> QED
        BY <4>1, ConcatProperties DEF T
    <3>2. \A m \in Nat : d(m) \in T
      BY <1>1
    <3>3. \A m \in Nat : m \notin ends => m \div base < m
      BY <1>1
    <3> QED
      BY <1>1, <3>1, <3>2, <3>3 DEF WellMade
  <2>2. PICK f : Solves(f, Nat, T, pred, ends, start, step)
    <3> HIDE DEF rank, pred, start, step, ends, T
    <3> QED
      BY <2>1, Recursion
  <2>3. ASSUME NEW m \in Nat PROVE f[m] = Then(f, m)
    <3> USE <2>2 DEF Solves
    <3> HIDE DEF T
    <3>1. CASE m < base
      <4>1. m \in ends
        BY <3>1
      <4>2. f[m] = start[m] /\ start[m] = d(m)
        BY <4>1
      <4> QED
        BY <3>1, <4>2
    <3>2. CASE ~(m < base)
      <4>1. pred[m] = m \div base /\ m \div base \in Nat /\ m \notin ends
        BY <1>1, <3>2
      <4>2. <<f[m \div base], m>> \in T \X Nat
        BY <4>1
      <4>3. f[m] = step[<<f[m \div base], m>>]
        BY <2>2, <4>1
      <4> QED
        BY <3>2, <4>2, <4>3
    <3> QED
      BY <3>1, <3>2
  <2>4. Is(f)
    BY <2>2, <2>3 DEF Solves
  <2> QED
    BY <2>4
<1>3. Is(of)
  <2> HIDE DEF Is
  <2> QED
    BY <1>2
<1>4. \A m : Digits(m, base) = of[m]
  BY DEF Digits, DigitOf, d
<1> HIDE DEF of
<1>5. \A m \in Nat : of[m] = Then(of, m)
  BY <1>3
<1>6. \A m \in Nat : Digits(m, base) = IF m < base THEN d(m) ELSE Digits(m \div base, base) \o d(m)
  BY <1>4, <1>5
<1> DEFINE G == {m \in Nat : Digits(m, base) \in T}
           rank == [m \in Nat |-> m]
<1>7. ASSUME NEW m \in Nat, \A y \in Nat : rank[y] < rank[m] => y \in G PROVE m \in G
  <2>1. CASE m < base
    BY <1>1, <1>6, <2>1
  <2>2. CASE ~(m < base)
    <3>1. m \div base \in Nat /\ m \div base < m
      BY <1>1, <2>2
    <3>2. Digits(m \div base, base) \in Seq(Figures)
      BY <1>7, <3>1
    <3>3. d(m) \in Seq(Figures)
      BY <1>1
    <3>4. Digits(m \div base, base) \o d(m) \in Seq(Figures)
      BY <3>2, <3>3, ConcatProperties
    <3> QED
      BY <1>6, <2>2, <3>4
  <2> QED
    BY <2>1, <2>2
<1>8. Nat \subseteq G
  <2>1. rank \in [Nat -> Nat]
    OBVIOUS
  <2> HIDE DEF G, rank
  <2> QED
    BY <1>7, <2>1, Descend
<1> QED
  BY <1>6, <1>8 DEF d

-----------------------------------------------------------------------------
(* Texts put together. *)

Has(txt, c) == \E i \in 1 .. Len(txt) : txt[i] = c

\* What two texts put together are made of.
LEMMA JoinRight ==
  ASSUME NEW S, NEW s \in Seq(S), NEW t \in Seq(S)
  PROVE  /\ s \o t \in Seq(S) /\ Len(s \o t) = Len(s) + Len(t)
         /\ \A i \in 1 .. Len(s) : (s \o t)[i] = s[i]
         /\ \A j \in 1 .. Len(t) : (s \o t)[Len(s) + j] = t[j]
         /\ \A c : Has(s \o t, c) <=> Has(s, c) \/ Has(t, c)
<1> DEFINE all == s \o t
           m == Len(s)
           n == Len(t)
<1>1. /\ all \in Seq(S) /\ Len(all) = m + n /\ m \in Nat /\ n \in Nat
      /\ \A i \in 1 .. m + n : all[i] = IF i <= m THEN s[i] ELSE t[i - m]
  BY ConcatProperties
<1> HIDE DEF all, m, n
<1>2. \A i \in 1 .. m : all[i] = s[i]
  BY <1>1
<1>3. ASSUME NEW j \in 1 .. n PROVE all[m + j] = t[j]
  <2>1. m + j \in 1 .. m + n /\ ~(m + j <= m) /\ (m + j) - m = j
    BY <1>1
  <2> QED
    BY <1>1, <2>1
<1>4. ASSUME NEW c PROVE (\E i \in 1 .. m + n : all[i] = c) <=>
                           (\E i \in 1 .. m : s[i] = c) \/ (\E j \in 1 .. n : t[j] = c)
  <2>1. ASSUME NEW i \in 1 .. m + n, all[i] = c
        PROVE  (\E k \in 1 .. m : s[k] = c) \/ (\E j \in 1 .. n : t[j] = c)
    <3>1. CASE i <= m
      <4>1. i \in 1 .. m
        BY <1>1, <3>1
      <4> QED
        BY <1>2, <2>1, <4>1
    <3>2. CASE ~(i <= m)
      <4>1. i - m \in 1 .. n /\ all[i] = t[i - m]
        BY <1>1, <3>2
      <4> QED
        BY <2>1, <4>1
    <3> QED
      BY <3>1, <3>2
  <2>2. ASSUME NEW i \in 1 .. m, s[i] = c PROVE \E k \in 1 .. m + n : all[k] = c
    <3>1. i \in 1 .. m + n
      BY <1>1
    <3> QED
      BY <1>2, <2>2, <3>1
  <2>3. ASSUME NEW j \in 1 .. n, t[j] = c PROVE \E k \in 1 .. m + n : all[k] = c
    <3>1. m + j \in 1 .. m + n
      BY <1>1
    <3> QED
      BY <1>3, <2>3, <3>1
  <2> QED
    BY <2>1, <2>2, <2>3
<1>5. \A c : Has(all, c) <=> Has(s, c) \/ Has(t, c)
  BY <1>1, <1>4 DEF Has, m, n
<1> QED
  BY <1>1, <1>2, <1>3, <1>5 DEF all, m, n

\* A repeated character.
LEMMA RepRight ==
  ASSUME NEW c, NEW n \in Int
  PROVE  /\ Rep(c, n) \in Seq({c}) /\ Len(Rep(c, n)) = Most(n, 0)
         /\ \A i \in 1 .. n : Rep(c, n)[i] = c
         /\ \A e : e # c => ~Has(Rep(c, n), e)
<1>1. \A i \in 1 .. n : Rep(c, n)[i] = c
  BY DEF Rep
<1>2. Rep(c, n) \in Seq({c}) /\ Len(Rep(c, n)) = Most(n, 0)
  <2>1. CASE n \in Nat
    BY <2>1 DEF Rep, Most
  <2>2. CASE n \notin Nat
    <3>1. Rep(c, n) = <<>>
      <4>1. 1 .. n = {}
        BY <2>2
      <4> QED
        BY <4>1 DEF Rep
    <3> QED
      BY <2>2, <3>1 DEF Most
  <2> QED
    BY <2>1, <2>2
<1>3. \A i \in 1 .. Len(Rep(c, n)) : Rep(c, n)[i] = c
  BY <1>1, <1>2 DEF Most
<1> QED
  BY <1>1, <1>2, <1>3 DEF Has

\* A text over some characters is one over more.
LEMMA SameSeq ==
  ASSUME NEW S, NEW T, S \subseteq T
  PROVE  Seq(S) \subseteq Seq(T)
  OBVIOUS

-----------------------------------------------------------------------------
(* Words of a width. *)

\* An argument cut to a width, which leaves what fits it as it is.
LEMMA UnsignedRight ==
  ASSUME NEW n \in Int, NEW bits \in Nat
  PROVE  /\ Unsigned(n, bits) \in 0 .. Power(2, bits) - 1
         /\ n \in 0 .. Power(2, bits) - 1 => Unsigned(n, bits) = n
<1> DEFINE p == Power(2, bits)
<1>1. p \in Nat \ {0}
  BY PowerRight DEF Bases
<1>2. Unsigned(n, bits) = n % p
  BY DEF Unsigned
<1> HIDE DEF p
<1>3. n % p \in 0 .. p - 1 /\ (n \in 0 .. p - 1 => n % p = n)
  BY <1>1
<1> QED
  BY <1>2, <1>3 DEF p

\* An argument read with its sign has the bits it had.
LEMMA SignedRight ==
  ASSUME NEW n \in Int, NEW bits \in Nat \ {0}
  PROVE  /\ Signed(n, bits) \in -Power(2, bits - 1) .. Power(2, bits - 1) - 1
         /\ Power(2, bits) = 2 * Power(2, bits - 1) /\ Power(2, bits - 1) \in Nat \ {0}
         /\ Unsigned(Signed(n, bits), bits) = Unsigned(n, bits)
<1> DEFINE p == Power(2, bits)
           h == Power(2, bits - 1)
           u == Unsigned(n, bits)
           v == Signed(n, bits)
<1>1. p = 2 * h /\ h \in Nat \ {0} /\ p \in Nat \ {0}
  <2>1. bits - 1 \in Nat /\ bits - 1 + 1 = bits /\ bits \in Nat /\ 2 \in Bases
    BY DEF Bases
  <2>2. Power(2, (bits - 1) + 1) = 2 * Power(2, bits - 1)
    BY <2>1, PowerRight
  <2> QED
    BY <2>1, <2>2, PowerRight
<1>2. u \in 0 .. p - 1 /\ v = (IF u >= h THEN u - p ELSE u) /\ v \in Int
  <2>1. u \in 0 .. p - 1
    BY UnsignedRight
  <2>2. v = IF u >= h THEN u - p ELSE u
    BY DEF Signed
  <2> HIDE DEF u, p, h, v
  <2> QED
    BY <1>1, <2>1, <2>2
<1>3. Unsigned(v, bits) = v % p
  BY DEF Unsigned
<1> HIDE DEF p, h, u, v
<1>4. v \in -h .. h - 1
  BY <1>1, <1>2
<1>5. v % p = u
  <2>1. CASE u >= h
    <3>1. v = u - p
      BY <1>2, <2>1
    <3>2. (u - p) % p = u
      BY <1>1, <1>2
    <3> QED
      BY <3>1, <3>2
  <2>2. CASE ~(u >= h)
    BY <1>1, <1>2, <2>2
  <2> QED
    BY <2>1, <2>2
<1> QED
  BY <1>1, <1>3, <1>4, <1>5 DEF p, h, u, v

-----------------------------------------------------------------------------
(* What digits denote. *)

\* The last digit of a number, and those in front of it.
LEMMA DigitsEnd ==
  ASSUME NEW base \in Bases, NEW n \in Nat
  PROVE  LET d == Digits(n, base) IN
         /\ d \in Seq(Figures) /\ Len(d) \in Nat \ {0}
         /\ d[Len(d)] = DigitOf(n, base)
         /\ n < base => Len(d) = 1
         /\ n >= base =>
              LET h == Digits(n \div base, base) IN
              /\ n \div base \in Nat /\ Len(d) = Len(h) + 1 /\ Len(h) \in Nat
              /\ \A j \in 1 .. Len(h) : d[j] = h[j]
<1> DEFINE d == Digits(n, base)
           h == Digits(n \div base, base)
           c == <<DigitOf(n, base)>>
<1>1. d \in Seq(Figures) /\ d = IF n < base THEN c ELSE h \o c
  BY DigitsRight
<1>2. n \div base \in Nat
  BY DEF Bases
<1>3. h \in Seq(Figures)
  BY <1>2, DigitsRight
<1>4. c \in Seq(Figures) /\ Len(c) = 1 /\ c[1] = DigitOf(n, base)
  <2>1. (n % base) + 1 \in 1 .. 16
    BY DEF Bases
  <2>2. \A i \in 1 .. 16 : lower_digits[i] \in Figures
    BY DEF lower_digits, Figures
  <2> QED
    BY <2>1, <2>2 DEF DigitOf
<1> HIDE DEF d, h, c
<1>5. CASE n < base
  <2>1. ~(n >= base)
    BY <1>5 DEF Bases
  <2>2. d = c
    BY <1>1, <1>5
  <2>3. Len(d) = 1 /\ d[1] = DigitOf(n, base)
    BY <1>4, <2>2
  <2>4. Len(d) \in Nat \ {0} /\ d[Len(d)] = DigitOf(n, base)
    BY <2>3
  <2> QED
    BY <1>1, <2>1, <2>3, <2>4 DEF d
<1>6. CASE ~(n < base)
  <2>1. d = h \o c
    BY <1>1, <1>6
  <2>2. /\ Len(d) = Len(h) + 1 /\ d[Len(h) + 1] = c[1]
        /\ \A j \in 1 .. Len(h) : d[j] = h[j]
    <3>1. 1 \in 1 .. Len(c)
      BY <1>4
    <3> QED
      BY <1>3, <1>4, <2>1, <3>1, JoinRight
  <2>3. Len(h) \in Nat /\ Len(d) \in Nat \ {0}
    BY <1>3, <2>2
  <2>4. d[Len(d)] = DigitOf(n, base)
    BY <1>4, <2>2
  <2>5. n < base => Len(d) = 1
    BY <1>6
  <2>6. /\ n \div base \in Nat /\ Len(d) = Len(h) + 1 /\ Len(h) \in Nat
        /\ \A j \in 1 .. Len(h) : d[j] = h[j]
    BY <1>2, <2>2, <2>3
  <2>7. d \in Seq(Figures) /\ Len(d) \in Nat \ {0}
    BY <1>1, <2>3
  <2> QED
    BY <2>4, <2>5, <2>6, <2>7 DEF d, h
<1> QED
  BY <1>5, <1>6

\* A number has the digits it needs and no more.
LEMMA DigitsLength ==
  ASSUME NEW base \in Bases, NEW n \in Nat
  PROVE  LET k == Len(Digits(n, base)) IN
         /\ k \in Nat \ {0} /\ n < Power(base, k)
         /\ k > 1 => Power(base, k - 1) <= n
<1> DEFINE k(m) == Len(Digits(m, base))
           G == {m \in Nat : /\ k(m) \in Nat \ {0} /\ m < Power(base, k(m))
                             /\ k(m) > 1 => Power(base, k(m) - 1) <= m}
           rank == [m \in Nat |-> m]
<1>1. ASSUME NEW m \in Nat, \A y \in Nat : rank[y] < rank[m] => y \in G PROVE m \in G
  <2>1. Power(base, 0) = 1 /\ Power(base, 0 + 1) = base * Power(base, 0)
    BY PowerRight
  <2>2. Power(base, 1) = base
    BY <2>1 DEF Bases
  <2>3. CASE m < base
    <3>1. k(m) = 1
      BY <2>3, DigitsEnd
    <3>2. m < Power(base, k(m)) /\ k(m) \in Nat \ {0} /\ ~(k(m) > 1)
      BY <2>2, <2>3, <3>1
    <3> HIDE DEF k
    <3> QED
      BY <3>2
  <2>4. CASE m >= base
    <3> DEFINE y == m \div base
               l == k(y)
    <3>1. y \in Nat /\ y < m /\ base * y <= m /\ m < base * y + base
      BY <2>4 DEF Bases
    <3>2. k(m) = l + 1
      BY <2>4, DigitsEnd
    <3>3. y \in G
      BY <1>1, <3>1
    <3>4. l \in Nat \ {0} /\ y < Power(base, l) /\ (l > 1 => Power(base, l - 1) <= y)
      BY <3>3
    <3> HIDE DEF y, l, k
    <3>5. Power(base, l + 1) = base * Power(base, l) /\ Power(base, l) \in Nat
      BY <3>4, PowerRight
    <3>6. m < Power(base, l + 1)
      <4> DEFINE p == Power(base, l)
      <4>1. y < p /\ p \in Nat
        BY <3>4, <3>5
      <4> HIDE DEF p
      <4>2. m < base * p
        BY <3>1, <4>1 DEF Bases
      <4> QED
        BY <3>5, <4>2 DEF p
    <3>7. Power(base, l) <= m
      <4>1. CASE l = 1
        BY <2>2, <2>4, <4>1
      <4>2. CASE l # 1
        <5> DEFINE p == Power(base, l - 1)
        <5>1. l - 1 \in Nat /\ l - 1 + 1 = l /\ l > 1
          BY <3>4, <4>2
        <5>2. p \in Nat /\ Power(base, (l - 1) + 1) = base * p /\ p <= y
          BY <3>4, <5>1, PowerRight
        <5>3. Power(base, l) = base * p
          BY <5>1, <5>2
        <5> HIDE DEF p
        <5>4. base * p <= m
          BY <3>1, <5>2 DEF Bases
        <5> QED
          BY <5>3, <5>4
      <4> QED
        BY <4>1, <4>2
    <3>8. k(m) \in Nat \ {0} /\ k(m) - 1 = l
      BY <3>2, <3>4
    <3>9. m < Power(base, k(m)) /\ Power(base, k(m) - 1) <= m
      BY <3>2, <3>6, <3>7, <3>8
    <3>10. k(m) \in Nat \ {0} /\ m < Power(base, k(m)) /\ (k(m) > 1 => Power(base, k(m) - 1) <= m)
      BY <3>8, <3>9
    <3> QED
      BY <3>10 DEF k
  <2> QED
    BY <2>3, <2>4 DEF Bases
<1>2. Nat \subseteq G
  <2>1. rank \in [Nat -> Nat]
    OBVIOUS
  <2> HIDE DEF G, rank
  <2> QED
    BY <1>1, <2>1, Descend
<1> QED
  BY <1>2

\* DigitsNeeded names a number of digits, and it is that of Digits: a long
\* has no number with more digits than bits.
LEMMA DigitsNeededRight ==
  ASSUME NEW base \in Bases, NEW n \in 0 .. Power(2, LongBits) - 1
  PROVE  DigitsNeeded(n, base) = Len(Digits(n, base))
<1> DEFINE k == Len(Digits(n, base))
           Q(j) == Power(base, j) > n /\ (j > 1 => Power(base, j - 1) <= n)
<1>1. LongBits \in Nat \ {0} /\ 2 \in Bases
  BY BitsAssumption DEF Bases
<1>2. \A j \in Nat : Power(base, j) \in Nat \ {0}
  BY PowerRight
<1>3. n \in Nat /\ n < Power(2, LongBits) /\ Power(2, LongBits) \in Nat
  <2> DEFINE p == Power(2, LongBits)
  <2>1. p \in Nat
    BY <1>1, PowerRight
  <2> HIDE DEF p
  <2>2. n \in 0 .. p - 1
    BY DEF p
  <2> QED
    BY <2>1, <2>2 DEF p
<1>4. k \in Nat \ {0} /\ Q(k)
  BY <1>2, <1>3, DigitsLength
<1> HIDE DEF k
<1>5. k \in 1 .. LongBits
  <2> SUFFICES ASSUME k > LongBits PROVE FALSE
    BY <1>1, <1>4
  <2>1. LongBits \in 0 .. k - 1 /\ k - 1 \in Nat /\ k > 1
    BY <1>1, <1>4
  <2>2. Power(2, LongBits) <= Power(base, LongBits)
    BY <1>1, PowerGrows
  <2>3. Power(base, LongBits) <= Power(base, k - 1)
    BY <2>1, PowerGrows
  <2>4. Power(base, k - 1) <= n
    BY <1>4, <2>1
  <2>5. Power(base, LongBits) \in Nat /\ Power(base, k - 1) \in Nat
    BY <1>1, <1>2, <2>1
  <2> QED
    BY <1>3, <2>2, <2>3, <2>4, <2>5
<1>6. ASSUME NEW i \in Nat \ {0}, NEW j \in Nat \ {0}, Q(i), Q(j), i < j PROVE FALSE
  <2>1. i \in 0 .. j - 1 /\ j - 1 \in Nat /\ j > 1 /\ i \in Nat
    BY <1>6
  <2>2. Power(base, i) <= Power(base, j - 1)
    BY <2>1, PowerGrows
  <2>3. Power(base, i) > n /\ Power(base, j - 1) <= n
    BY <1>6, <2>1
  <2>4. Power(base, i) \in Nat /\ Power(base, j - 1) \in Nat
    BY <1>2, <2>1
  <2> QED
    BY <1>3, <2>2, <2>3, <2>4
<1> DEFINE w == CHOOSE j \in 1 .. LongBits : Q(j)
<1>7. DigitsNeeded(n, base) = w
  BY DEF DigitsNeeded
<1> HIDE DEF Q
<1>8. w \in 1 .. LongBits /\ Q(w)
  BY <1>4, <1>5
<1> HIDE DEF w
<1>9. w \in Nat \ {0}
  BY <1>1, <1>8
<1>10. w = k
  <2>1. ~(w < k) /\ ~(k < w)
    BY <1>4, <1>6, <1>8, <1>9
  <2> QED
    BY <1>4, <1>9, <2>1
<1> QED
  BY <1>7, <1>10 DEF k

\* What a character is worth as a digit.
LEMMA WorthRight ==
  /\ \A c : Worth(c) \in -1 .. 15
  /\ \A d \in 1 .. 16 : Worth(lower_digits[d]) = d - 1
  /\ \A c : c \notin Figures => Worth(c) = -1
<1>1. \A d, e \in 1 .. 16 : lower_digits[d] = lower_digits[e] => d = e
  BY DEF lower_digits
<1>2. \A d \in 1 .. 16 : lower_digits[d] \in Figures
  BY DEF lower_digits, Figures
<1> DEFINE D == 1 .. 16
           Is(c, d) == lower_digits[d] = c
<1>3. ASSUME NEW c PROVE Worth(c) = IF \E d \in D : Is(c, d)
                                    THEN (CHOOSE d \in D : Is(c, d)) - 1 ELSE -1
  BY DEF Worth
<1>4. ASSUME NEW c, \E d \in D : Is(c, d)
      PROVE  (CHOOSE d \in D : Is(c, d)) \in D /\ Is(c, CHOOSE d \in D : Is(c, d))
  <2> HIDE DEF D, Is
  <2> QED
    BY <1>4
<1>5. ASSUME NEW c PROVE Worth(c) \in -1 .. 15
  <2> DEFINE w == CHOOSE d \in D : Is(c, d)
  <2>1. CASE \E d \in D : Is(c, d)
    <3>1. w \in D /\ Worth(c) = w - 1
      BY <1>3, <1>4, <2>1
    <3> HIDE DEF w
    <3> QED
      BY <3>1
  <2>2. CASE ~(\E d \in D : Is(c, d))
    BY <1>3, <2>2
  <2> QED
    BY <2>1, <2>2
<1>6. ASSUME NEW d \in D PROVE Worth(lower_digits[d]) = d - 1
  <2> DEFINE c == lower_digits[d]
             w == CHOOSE e \in D : Is(c, e)
  <2>1. \E e \in D : Is(c, e)
    OBVIOUS
  <2>2. w \in D /\ Is(c, w) /\ Worth(c) = w - 1
    BY <1>3, <1>4, <2>1
  <2> HIDE DEF w
  <2>3. w = d
    BY <1>1, <2>2
  <2> QED
    BY <2>2, <2>3
<1>7. ASSUME NEW c, c \notin Figures PROVE Worth(c) = -1
  <2>1. ~(\E d \in D : Is(c, d))
    BY <1>2, <1>7
  <2> QED
    BY <1>3, <2>1
<1> QED
  BY <1>5, <1>6, <1>7

\* The digits at the end of a text begin somewhere.
LEMMA DigitsFromRight ==
  ASSUME NEW S, NEW txt \in Seq(S)
  PROVE  /\ DigitsFrom(txt) \in 1 .. Len(txt) + 1
         /\ \A j \in DigitsFrom(txt) .. Len(txt) : Worth(txt[j]) >= 0
         /\ DigitsFrom(txt) > 1 => Worth(txt[DigitsFrom(txt) - 1]) < 0
<1> DEFINE n == Len(txt)
           Clean(i) == \A j \in i .. n : Worth(txt[j]) >= 0
           Q(i) == Clean(i) /\ (i > 1 => Worth(txt[i - 1]) < 0)
           T == {i \in 1 .. n + 1 : Clean(i)}
           w == CHOOSE i \in 1 .. n + 1 : Q(i)
<1>1. n \in Nat
  OBVIOUS
<1>2. n + 1 \in T
  BY <1>1
<1>3. PICK x \in T : \A y \in T : x <= y
  <2>1. T \in SUBSET Nat /\ T # {}
    BY <1>2
  <2> HIDE DEF T
  <2> QED
    BY <2>1, LeastNat
<1>4. ASSUME x > 1 PROVE Worth(txt[x - 1]) < 0
  <2> SUFFICES ASSUME ~(Worth(txt[x - 1]) < 0) PROVE FALSE
    OBVIOUS
  <2> HIDE DEF n
  <2>1. Worth(txt[x - 1]) \in Int
    BY WorthRight
  <2>2. Worth(txt[x - 1]) >= 0
    BY <2>1
  <2>3. \A j \in x - 1 .. n : j = x - 1 \/ j \in x .. n
    BY <1>1, <1>3
  <2>4. x - 1 \in T
    BY <1>1, <1>3, <1>4, <2>2, <2>3
  <2>5. x <= x - 1 /\ x \in Nat
    BY <1>1, <1>3, <2>4
  <2> QED
    BY <2>5
<1>5. x \in 1 .. n + 1 /\ Q(x)
  BY <1>3, <1>4
<1>6. DigitsFrom(txt) = w
  BY DEF DigitsFrom
<1> HIDE DEF Q
<1>7. w \in 1 .. n + 1 /\ Q(w)
  BY <1>5
<1> HIDE DEF w
<1> QED
  BY <1>6, <1>7 DEF Q

\* Reading digits from left to right is a recursion on their positions.
LEMMA DenotesSteps ==
  ASSUME NEW S, NEW txt \in Seq(S), NEW base \in Bases
  PROVE  \E v : /\ Denotes(txt, base) = v[Len(txt)]
                /\ \A k \in Nat : v[k] = IF k < DigitsFrom(txt) THEN 0
                                         ELSE base * v[k - 1] + Worth(txt[k])
<1> DEFINE first == DigitsFrom(txt)
           Then(f, k) == IF k < first THEN 0 ELSE base * f[k - 1] + Worth(txt[k])
           Is(f) == f = [k \in Nat |-> Then(f, k)]
           of == CHOOSE f : Is(f)
<1>1. first \in Nat \ {0} /\ \A k \in Nat : Worth(txt[k]) \in Int /\ base \in Int
  <2>1. first \in Nat \ {0}
    BY DigitsFromRight
  <2>2. \A c : Worth(c) \in Int
    BY WorthRight
  <2>3. base \in Int
    BY DEF Bases
  <2> HIDE DEF first
  <2> QED
    BY <2>1, <2>2, <2>3
<1>2. \E f : Is(f)
  <2> HIDE DEF first
  <2> DEFINE rank == [k \in Nat |-> k]
             pred == [k \in Nat |-> IF k = 0 THEN 0 ELSE k - 1]
             ends == {k \in Nat : k < first}
             start == [k \in Nat |-> 0]
             step == [u \in Int \X Nat |-> base * u[1] + Worth(txt[u[2]])]
  <2>1. WellMade(Nat, Int, rank, pred, ends, start, step)
    <3>1. ASSUME NEW u \in Int \X Nat PROVE base * u[1] + Worth(txt[u[2]]) \in Int
      <4>1. u[1] \in Int /\ u[2] \in Nat
        OBVIOUS
      <4> QED
        BY <1>1, <4>1
    <3>2. \A k \in Nat : k \notin ends => k # 0
      BY <1>1
    <3> QED
      BY <3>1, <3>2 DEF WellMade
  <2>2. PICK f : Solves(f, Nat, Int, pred, ends, start, step)
    <3> HIDE DEF rank, pred, start, step, ends
    <3> QED
      BY <2>1, Recursion
  <2>3. ASSUME NEW k \in Nat PROVE f[k] = Then(f, k)
    <3> USE <2>2 DEF Solves
    <3>1. CASE k < first
      BY <3>1
    <3>2. CASE ~(k < first)
      <4>1. pred[k] = k - 1 /\ k - 1 \in Nat /\ k \notin ends
        BY <1>1, <3>2
      <4>2. <<f[k - 1], k>> \in Int \X Nat
        BY <4>1
      <4>3. f[k] = step[<<f[k - 1], k>>]
        BY <4>1
      <4> QED
        BY <3>2, <4>2, <4>3
    <3> QED
      BY <3>1, <3>2
  <2>4. Is(f)
    BY <2>2, <2>3 DEF Solves
  <2> QED
    BY <2>4
<1>3. Is(of)
  <2> HIDE DEF Is
  <2> QED
    BY <1>2
<1>4. Denotes(txt, base) = of[Len(txt)]
  BY DEF Denotes
<1> HIDE DEF of
<1>5. \A k \in Nat : of[k] = Then(of, k)
  BY <1>3
<1> QED
  BY <1>4, <1>5

\* Division of what is less than the divisor.
LEMMA SmallMod ==
  ASSUME NEW b \in Nat \ {0}, NEW m \in Nat, m < b
  PROVE  m % b = m /\ m \div b = 0
  OBVIOUS

Reading(v, txt, base, o) ==
  v[o] = 0 /\ \A k \in Nat : k > o => v[k] = base * v[k - 1] + Worth(txt[k])
Behind(txt, o, d) == \A j \in 1 .. Len(d) : txt[o + j] = d[j]

\* Whoever reads the digits of n from 0 on has n when they end.
LEMMA DigitsRead ==
  ASSUME NEW base \in Bases, NEW txt, NEW v, NEW o \in Nat, Reading(v, txt, base, o),
         NEW n \in Nat, Behind(txt, o, Digits(n, base))
  PROVE  v[o + Len(Digits(n, base))] = n
<1> USE DEF Reading, Behind
<1> DEFINE d(m) == Digits(m, base)
           G == {m \in Nat : (\A j \in 1 .. Len(d(m)) : txt[o + j] = d(m)[j])
                               => v[o + Len(d(m))] = m}
           rank == [m \in Nat |-> m]
<1>1. ASSUME NEW m \in Nat, \A y \in Nat : rank[y] < rank[m] => y \in G PROVE m \in G
  <2> SUFFICES ASSUME \A j \in 1 .. Len(d(m)) : txt[o + j] = d(m)[j]
               PROVE  v[o + Len(d(m))] = m
    OBVIOUS
  <2> DEFINE l == Len(d(m))
             y == m \div base
  <2>1. l \in Nat \ {0} /\ d(m)[l] = DigitOf(m, base)
    BY DigitsEnd
  <2>2. /\ m % base \in 0 .. base - 1 /\ (m % base) + 1 \in 1 .. 16
        /\ m = base * y + (m % base) /\ y \in Nat /\ (m >= base => y < m)
        /\ (m < base => m % base = m) /\ (m < base \/ m >= base)
    <3>1. m % base \in 0 .. base - 1 /\ (m % base) + 1 \in 1 .. 16 /\ y \in Nat
      BY DEF Bases
    <3>2. m = base * y + (m % base)
      BY DEF Bases
    <3>3. m >= base => y < m
      BY DEF Bases
    <3>4. m < base => m % base = m
      <4>1. base \in Nat \ {0}
        BY DEF Bases
      <4> QED
        BY <4>1, SmallMod
    <3>5. m < base \/ m >= base
      BY DEF Bases
    <3> QED
      BY <3>1, <3>2, <3>3, <3>4, <3>5
  <2>3. Worth(DigitOf(m, base)) = m % base
    <3>1. Worth(lower_digits[(m % base) + 1]) = ((m % base) + 1) - 1
      BY <2>2, WorthRight
    <3>2. ((m % base) + 1) - 1 = m % base
      BY <2>2
    <3> QED
      BY <3>1, <3>2 DEF DigitOf
  <2>4. txt[o + l] = d(m)[l]
    <3>1. l \in 1 .. Len(d(m))
      BY <2>1
    <3> QED
      BY <3>1
  <2>5. v[o + l] = base * v[(o + l) - 1] + (m % base)
    <3>1. o + l \in Nat /\ o + l > o
      BY <2>1
    <3>2. v[o + l] = base * v[(o + l) - 1] + Worth(txt[o + l])
      BY <3>1
    <3> QED
      BY <2>1, <2>3, <2>4, <3>2
  <2>6. CASE m < base
    <3>1. l = 1
      BY <2>6, DigitsEnd
    <3>2. (o + l) - 1 = o
      BY <3>1
    <3>3. v[o + l] = base * 0 + m
      BY <2>2, <2>5, <2>6, <3>2
    <3> QED
      BY <3>3 DEF Bases
  <2>7. CASE m >= base
    <3> DEFINE h == d(y)
    <3>1. l = Len(h) + 1 /\ Len(h) \in Nat /\ \A j \in 1 .. Len(h) : d(m)[j] = h[j]
      BY <2>7, DigitsEnd
    <3>2. y \in G
      BY <1>1, <2>2, <2>7
    <3>3. \A j \in 1 .. Len(h) : txt[o + j] = h[j]
      <4>1. \A j \in 1 .. Len(h) : j \in 1 .. Len(d(m))
        BY <3>1
      <4> QED
        BY <3>1, <4>1
    <3>4. v[o + Len(h)] = y
      BY <3>2, <3>3
    <3>5. (o + l) - 1 = o + Len(h)
      BY <3>1
    <3>6. v[o + l] = base * y + (m % base)
      BY <2>5, <3>4, <3>5
    <3> QED
      BY <2>2, <3>6
  <2> QED
    BY <2>2, <2>6, <2>7
<1>2. Nat \subseteq G
  <2>1. rank \in [Nat -> Nat]
    OBVIOUS
  <2> HIDE DEF G, rank, Reading, Behind
  <2> QED
    BY <1>1, <2>1, Descend
<1> QED
  BY <1>2

\* What is put in front of the digits of a number.
Fill == {" ", "-", "+", "x", "0"}

\* A number reads back, whatever fill, sign or prefix is in front of it.
LEMMA DenotesRight ==
  ASSUME NEW base \in Bases, NEW n \in Nat, NEW pre \in Seq(Fill)
  PROVE  Denotes(pre \o Digits(n, base), base) = n
<1> DEFINE d == Digits(n, base)
           txt == pre \o d
           o == Len(pre)
           first == DigitsFrom(txt)
           S == Fill \cup Figures
<1>1. pre \in Seq(S) /\ d \in Seq(S) /\ Len(d) \in Nat \ {0} /\ d \in Seq(Figures)
  <2>1. d \in Seq(Figures) /\ Len(d) \in Nat \ {0}
    BY DigitsEnd
  <2> QED
    BY <2>1, SameSeq
<1> HIDE DEF d, S
<1>2. /\ txt \in Seq(S) /\ Len(txt) = o + Len(d) /\ o \in Nat
      /\ \A i \in 1 .. o : txt[i] = pre[i]
      /\ \A j \in 1 .. Len(d) : txt[o + j] = d[j]
  BY <1>1, JoinRight
<1> HIDE DEF txt
<1>3. /\ first \in 1 .. Len(txt) + 1
      /\ \A j \in first .. Len(txt) : Worth(txt[j]) >= 0
      /\ first > 1 => Worth(txt[first - 1]) < 0
  BY <1>2, DigitsFromRight
<1>4. PICK v : /\ Denotes(txt, base) = v[Len(txt)]
               /\ \A k \in Nat : v[k] = IF k < first THEN 0 ELSE base * v[k - 1] + Worth(txt[k])
  BY <1>2, DenotesSteps
<1> HIDE DEF first
<1>5. Worth("0") = 0 /\ \A c : c \in Fill /\ Worth(c) >= 0 => c = "0"
  <2>1. Worth(lower_digits[1]) = 1 - 1
    BY WorthRight
  <2>2. " " \notin Figures /\ "-" \notin Figures /\ "+" \notin Figures /\ "x" \notin Figures
    BY DEF Figures
  <2>3. Worth(" ") = -1 /\ Worth("-") = -1 /\ Worth("+") = -1 /\ Worth("x") = -1
    BY <2>2, WorthRight
  <2>4. lower_digits[1] = "0"
    BY DEF lower_digits
  <2>5. ASSUME NEW c \in Fill, Worth(c) >= 0 PROVE c = "0"
    <3>1. Worth(c) # -1
      BY <2>5
    <3> QED
      BY <2>3, <3>1 DEF Fill
  <2>6. Worth("0") = 0
    BY <2>1, <2>4
  <2> QED
    BY <2>5, <2>6
<1>6. first <= o + 1
  <2> SUFFICES ASSUME first > o + 1 PROVE FALSE
    BY <1>2, <1>3
  <2> DEFINE j == first - 1 - o
  <2>1. j \in 1 .. Len(d) /\ o + j = first - 1 /\ first > 1
    BY <1>1, <1>2, <1>3
  <2>2. txt[first - 1] = d[j] /\ d[j] \in Figures
    BY <1>1, <1>2, <2>1
  <2>3. PICK i \in 1 .. 16 : lower_digits[i] = d[j]
    BY <2>2 DEF lower_digits, Figures
  <2>4. Worth(d[j]) >= 0
    <3>1. Worth(lower_digits[i]) = i - 1
      BY WorthRight
    <3> QED
      BY <2>3, <3>1
  <2>5. Worth(d[j]) < 0
    BY <1>3, <2>1, <2>2
  <2>6. Worth(d[j]) \in Int
    BY WorthRight
  <2> QED
    BY <2>4, <2>5, <2>6
<1> DEFINE G == {k \in Nat : k <= o => v[k] = 0}
<1>7. 0 \in G
  <2>1. 0 < first
    BY <1>2, <1>3
  <2> QED
    BY <1>4, <2>1
<1>8. ASSUME NEW k \in Nat, k \in G PROVE k + 1 \in G
  <2> SUFFICES ASSUME k + 1 <= o PROVE v[k + 1] = 0
    OBVIOUS
  <2>1. k + 1 \in Nat /\ k + 1 \in 1 .. o /\ v[k] = 0 /\ (k + 1) - 1 = k
    BY <1>2, <1>8
  <2>2. CASE k + 1 < first
    BY <1>4, <2>1, <2>2
  <2>3. CASE ~(k + 1 < first)
    <3>1. k + 1 \in first .. Len(txt)
      BY <1>1, <1>2, <1>3, <2>1, <2>3
    <3>2. txt[k + 1] \in Fill /\ Worth(txt[k + 1]) >= 0
      BY <1>2, <1>3, <2>1, <3>1
    <3>3. Worth(txt[k + 1]) = 0
      BY <1>5, <3>2
    <3>4. v[k + 1] = base * v[(k + 1) - 1] + Worth(txt[k + 1])
      BY <1>4, <2>1, <2>3
    <3>5. v[k + 1] = base * 0 + 0
      BY <2>1, <3>3, <3>4
    <3> QED
      BY <3>5 DEF Bases
  <2> QED
    BY <2>2, <2>3
<1>9. v[o] = 0
  <2>1. Nat \subseteq G
    <3> HIDE DEF G
    <3> QED
      BY <1>7, <1>8, Induct
  <2> QED
    BY <1>2, <2>1
<1>10. \A k \in Nat : k > o => v[k] = base * v[k - 1] + Worth(txt[k])
  <2> SUFFICES ASSUME NEW k \in Nat, k > o PROVE ~(k < first)
    BY <1>4
  <2> QED
    BY <1>2, <1>3, <1>6
<1>11. v[o + Len(Digits(n, base))] = n
  <2>1. Behind(txt, o, Digits(n, base))
    BY <1>2 DEF d, Behind
  <2>2. o \in Nat /\ Reading(v, txt, base, o)
    BY <1>2, <1>9, <1>10 DEF Reading
  <2> HIDE DEF o
  <2> QED
    BY <2>1, <2>2, DigitsRead
<1>12. Denotes(txt, base) = n
  BY <1>2, <1>4, <1>11 DEF d
<1> QED
  BY <1>12 DEF txt, d

-----------------------------------------------------------------------------
(* Numbers. *)

\* A sign is there when the format asks for it, and it is a minus for a
\* negative number alone.
LEMMA SignRight ==
  ASSUME NEW num \in Int, NEW type
  PROVE  LET s == Sign(num, type) IN
         /\ s \in Seq(Fill)
         /\ Len(s) = IF "SIGN" \in type /\ (num < 0 \/ "PLUS" \in type \/ "SPACE" \in type)
                     THEN 1 ELSE 0
         /\ Has(s, "-") <=> ("SIGN" \in type /\ num < 0)
<1> DEFINE s == Sign(num, type)
<1>1. CASE "SIGN" \notin type
  <2>1. s = <<>>
    BY <1>1 DEF Sign
  <2> QED
    BY <1>1, <2>1 DEF Has
<1>2. CASE "SIGN" \in type /\ num < 0
  <2>1. s = <<"-">>
    BY <1>2 DEF Sign
  <2>2. Len(s) = 1 /\ s[1] = "-" /\ s \in Seq(Fill)
    BY <2>1 DEF Fill
  <2> QED
    BY <1>2, <2>2 DEF Has
<1>3. CASE "SIGN" \in type /\ ~(num < 0) /\ "PLUS" \in type
  <2>1. s = <<"+">>
    BY <1>3 DEF Sign
  <2>2. Len(s) = 1 /\ s[1] = "+" /\ s \in Seq(Fill)
    BY <2>1 DEF Fill
  <2> QED
    BY <1>3, <2>2 DEF Has
<1>5. CASE "SIGN" \in type /\ ~(num < 0) /\ "PLUS" \notin type /\ "SPACE" \in type
  <2>1. s = <<" ">>
    BY <1>5 DEF Sign
  <2>2. " " \in Fill /\ " " # "-"
    BY DEF Fill
  <2>3. \A c \in Fill : c # "-" => <<c>> \in Seq(Fill) /\ Len(<<c>>) = 1 /\ ~Has(<<c>>, "-")
    BY DEF Has
  <2>4. s \in Seq(Fill) /\ Len(s) = 1 /\ ~Has(s, "-")
    BY <2>1, <2>2, <2>3, Zenon
  <2> HIDE DEF s
  <2>5. Len(s) = IF "SIGN" \in type /\ (num < 0 \/ "PLUS" \in type \/ "SPACE" \in type)
                 THEN 1 ELSE 0
    BY <1>5, <2>4
  <2> QED
    BY <1>5, <2>4, <2>5 DEF s
<1>4. CASE "SIGN" \in type /\ ~(num < 0) /\ "PLUS" \notin type /\ "SPACE" \notin type
  <2>1. s = <<>>
    BY <1>4 DEF Sign
  <2> QED
    BY <1>4, <2>1 DEF Has
<1> QED
  BY <1>1, <1>2, <1>3, <1>4, <1>5

\* The prefix of a base.
LEMMA PrefixRight ==
  ASSUME NEW base, NEW type
  PROVE  LET s == Prefix(base, type) IN
         /\ s \in Seq(Fill) /\ ~Has(s, "-")
         /\ Len(s) = IF "HEX_PREP" \in type
                     THEN CASE base = 16 -> 2 [] base = 8 -> 1 [] OTHER -> 0 ELSE 0
<1> DEFINE s == Prefix(base, type)
<1>1. CASE "HEX_PREP" \in type /\ base = 16
  <2>1. s = <<"0", "x">>
    BY <1>1 DEF Prefix
  <2>2. Len(s) = 2 /\ s[1] = "0" /\ s[2] = "x" /\ s \in Seq(Fill)
    BY <2>1 DEF Fill
  <2>3. \A i \in 1 .. 2 : s[i] # "-"
    BY <2>2
  <2> HIDE DEF s
  <2> QED
    BY <1>1, <2>2, <2>3 DEF Has, s
<1>2. CASE "HEX_PREP" \in type /\ base # 16 /\ base = 8
  <2>1. s = <<"0">>
    BY <1>2 DEF Prefix
  <2>2. Len(s) = 1 /\ s[1] = "0" /\ s \in Seq(Fill)
    BY <2>1 DEF Fill
  <2> QED
    BY <1>2, <2>2 DEF Has
<1>3. CASE "HEX_PREP" \notin type \/ (base # 16 /\ base # 8)
  <2>1. s = <<>>
    BY <1>3 DEF Prefix
  <2> QED
    BY <1>3, <2>1 DEF Has
<1> QED
  BY <1>1, <1>2, <1>3

\* Padding has no minus.
LEMMA PaddingRight ==
  ASSUME NEW c \in Fill, c # "-", NEW n \in Int
  PROVE  /\ Rep(c, n) \in Seq(Fill) /\ Len(Rep(c, n)) = Most(n, 0) /\ ~Has(Rep(c, n), "-")
         /\ <<>> \in Seq(Fill) /\ Len(<<>>) = 0 /\ ~Has(<<>>, "-")
<1>1. Rep(c, n) \in Seq({c}) /\ Len(Rep(c, n)) = Most(n, 0) /\ ~Has(Rep(c, n), "-")
  BY RepRight
<1>2. {c} \subseteq Fill
  OBVIOUS
<1>3. Seq({c}) \subseteq Seq(Fill)
  BY <1>2, SameSeq
<1> QED
  BY <1>1, <1>3 DEF Has

\* Nor has what is put behind the sign.
LEMMA NextTo ==
  ASSUME NEW s \in Seq(Fill), NEW t \in Seq(Fill), ~Has(t, "-")
  PROVE  s \o t \in Seq(Fill) /\ Len(s \o t) = Len(s) + Len(t) /\ (Has(s \o t, "-") <=> Has(s, "-"))
<1>1. Has(s \o t, "-") <=> Has(s, "-") \/ Has(t, "-")
  BY JoinRight
<1>2. s \o t \in Seq(Fill) /\ Len(s \o t) = Len(s) + Len(t)
  BY JoinRight
<1> QED
  BY <1>1, <1>2

\* The room left for padding fills a text up to its size.
LEMMA RoomRight ==
  ASSUME NEW precision \in Int, NEW l \in Nat, NEW h \in Nat, NEW size \in Int,
         NEW zeros, zeros = Most(precision - l, 0),
         NEW room, room = Most(((size - h) - zeros) - l, 0)
  PROVE  room + h + zeros + l = Most(h + Most(precision, l), size)
  BY DEF Most

\* What stands behind the sign, the prefix and the padding.
NumberDigits(num, base, type) ==
  Digits(Unsigned(IF "SIGN" \in type /\ num < 0 THEN -num ELSE num, LongBits), base)

Shaped(txt, base, num, size, precision, type) ==
  \E pre \in Seq(Fill) :
    /\ txt = pre \o NumberDigits(num, base, type)
    /\ Len(pre) + Len(NumberDigits(num, base, type))
         = Most(Len(Sign(num, type)) + Len(Prefix(base, type))
                  + Most(precision, Len(NumberDigits(num, base, type))), size)
    /\ Has(pre, "-") <=> ("SIGN" \in type /\ num < 0)

\* ee_number puts the digits behind fill and a sign, in the width the format
\* asks for or in what they need.
LEMMA NumberShape ==
  ASSUME NEW base \in Bases, NEW num \in Int, NEW size \in Int, NEW precision \in Int, NEW type
  PROVE  Shaped(Number(num, base, size, precision, type), base, num, size, precision, type)
<1> DEFINE digits == NumberDigits(num, base, type)
           l == Len(digits)
<1>0. l \in Nat
  <2>1. Unsigned(IF "SIGN" \in type /\ num < 0 THEN -num ELSE num, LongBits) \in Nat
    <3>1. LongBits \in Nat
      BY BitsAssumption
    <3>2. CASE "SIGN" \in type /\ num < 0
      <4>1. -num \in Int
        OBVIOUS
      <4>2. Unsigned(-num, LongBits) \in 0 .. Power(2, LongBits) - 1
        BY <3>1, <4>1, UnsignedRight
      <4> QED
        BY <3>2, <4>2
    <3>3. CASE ~("SIGN" \in type /\ num < 0)
      <4>2. Unsigned(num, LongBits) \in 0 .. Power(2, LongBits) - 1
        BY <3>1, UnsignedRight
      <4> QED
        BY <3>3, <4>2
    <3> QED
      BY <3>2, <3>3
  <2> QED
    BY <2>1, DigitsEnd DEF NumberDigits
<1> DEFINE zeropad == "ZEROPAD" \in type /\ "LEFT" \notin type
           sign == Sign(num, type)
           prefix == Prefix(base, type)
           head == sign \o prefix
           zeros == Most(precision - l, 0)
           room == Most(size - Len(head) - zeros - l, 0)
           a == IF zeropad THEN <<>> ELSE Spaces(room)
           b == IF zeropad THEN Rep("0", room) ELSE <<>>
           z == Rep("0", zeros)
           pre == ((a \o head) \o b) \o z
           P == "SIGN" \in type /\ num < 0
<1>1. Number(num, base, size, precision, type) = pre \o digits
  BY DEF Number, NumberDigits
<1> HIDE DEF digits, l
<1>2. /\ sign \in Seq(Fill) /\ prefix \in Seq(Fill) /\ Len(sign) \in Nat /\ Len(prefix) \in Nat
      /\ (Has(sign, "-") <=> P) /\ ~Has(prefix, "-")
  BY SignRight, PrefixRight
<1>3. /\ head \in Seq(Fill) /\ Len(head) = Len(sign) + Len(prefix) /\ (Has(head, "-") <=> P)
  <2> HIDE DEF sign, prefix, P
  <2>1. /\ head \in Seq(Fill) /\ Len(head) = Len(sign) + Len(prefix)
        /\ Has(head, "-") <=> Has(sign, "-") \/ Has(prefix, "-")
    BY <1>2, JoinRight
  <2>2. Has(head, "-") <=> P
    BY <1>2, <2>1, Zenon
  <2> QED
    BY <2>1, <2>2
<1>4. zeros \in Nat /\ room \in Nat
  <2>1. zeros \in Nat
    BY <1>0 DEF Most
  <2>2. Len(head) \in Nat
    BY <1>2, <1>3
  <2> HIDE DEF zeros, head
  <2> QED
    BY <1>0, <2>1, <2>2 DEF Most
<1> HIDE DEF zeros, room, sign, prefix, head, P
<1>5. /\ a \in Seq(Fill) /\ b \in Seq(Fill) /\ z \in Seq(Fill)
      /\ Len(a) + Len(b) = room /\ Len(z) = zeros /\ Len(a) \in Nat /\ Len(b) \in Nat
      /\ ~Has(a, "-") /\ ~Has(b, "-") /\ ~Has(z, "-")
  <2>1. " " \in Fill /\ "0" \in Fill /\ " " # "-" /\ "0" # "-"
    BY DEF Fill
  <2>2. Most(room, 0) = room /\ Most(zeros, 0) = zeros /\ room \in Int /\ zeros \in Int
    BY <1>4 DEF Most
  <2>3. /\ Rep("0", room) \in Seq(Fill) /\ Len(Rep("0", room)) = room /\ ~Has(Rep("0", room), "-")
        /\ z \in Seq(Fill) /\ Len(z) = zeros /\ ~Has(z, "-")
        /\ Spaces(room) \in Seq(Fill) /\ Len(Spaces(room)) = room /\ ~Has(Spaces(room), "-")
        /\ <<>> \in Seq(Fill) /\ Len(<<>>) = 0 /\ ~Has(<<>>, "-")
    BY <2>1, <2>2, PaddingRight DEF Spaces
  <2>4. CASE zeropad
    <3>1. a = <<>> /\ b = Rep("0", room)
      BY <2>4
    <3> HIDE DEF a, b, z, zeropad
    <3> QED
      BY <1>4, <2>3, <3>1
  <2>5. CASE ~zeropad
    <3>1. b = <<>> /\ a = Spaces(room)
      BY <2>5
    <3> HIDE DEF a, b, z, zeropad
    <3> QED
      BY <1>4, <2>3, <3>1
  <2> QED
    BY <2>4, <2>5
<1> HIDE DEF a, b, z, zeropad
<1>6. /\ pre \in Seq(Fill) /\ Len(pre) = Len(a) + Len(head) + Len(b) + zeros
      /\ Has(pre, "-") <=> P
  <2> DEFINE q == a \o head
             r == q \o b
  <2>1. q \in Seq(Fill) /\ Len(q) = Len(a) + Len(head) /\ (Has(q, "-") <=> P)
    <3>1. Has(q, "-") <=> Has(a, "-") \/ Has(head, "-")
      BY <1>3, <1>5, JoinRight
    <3>2. Has(q, "-") <=> P
      BY <1>3, <1>5, <3>1, Zenon
    <3>3. a \in Seq(Fill) /\ head \in Seq(Fill)
      BY <1>3, <1>5
    <3>4. q \in Seq(Fill)
      BY <3>3, JoinRight
    <3>5. Len(q) = Len(a) + Len(head)
      BY <3>3, JoinRight
    <3> QED
      BY <3>2, <3>4, <3>5
  <2> HIDE DEF q
  <2>2. r \in Seq(Fill) /\ Len(r) = Len(q) + Len(b) /\ (Has(r, "-") <=> P)
    <3>1. /\ q \o b \in Seq(Fill) /\ Len(q \o b) = Len(q) + Len(b)
          /\ Has(q \o b, "-") <=> Has(q, "-")
      BY <2>1, <1>5, NextTo, Zenon
    <3> QED
      BY <2>1, <3>1, Zenon
  <2> HIDE DEF r
  <2>3. pre = r \o z
    BY DEF r, q
  <2>4. pre \in Seq(Fill) /\ Len(pre) = Len(r) + Len(z) /\ (Has(pre, "-") <=> P)
    <3>1. /\ r \o z \in Seq(Fill) /\ Len(r \o z) = Len(r) + Len(z)
          /\ Has(r \o z, "-") <=> Has(r, "-")
      BY <2>2, <1>5, NextTo, Zenon
    <3> HIDE DEF pre
    <3> QED
      BY <2>2, <2>3, <3>1, Zenon
  <2> QED
    BY <1>5, <2>1, <2>2, <2>4
<1> HIDE DEF pre
<1>7. Len(pre) + l = Most(Len(sign) + Len(prefix) + Most(precision, l), size)
  <2> DEFINE m == Len(pre)
             h == Len(head)
             s == Len(sign)
             f == Len(prefix)
             la == Len(a)
             lb == Len(b)
             w == Most(precision, l)
  <2>1. /\ m = la + h + lb + zeros /\ h = s + f /\ la + lb = room /\ la \in Nat /\ lb \in Nat
        /\ s \in Nat /\ f \in Nat
    BY <1>2, <1>3, <1>5, <1>6
  <2>2. h \in Nat
    BY <1>2, <1>3
  <2>3. zeros = Most(precision - l, 0) /\ room = Most(((size - h) - zeros) - l, 0)
    BY DEF zeros, room
  <2> HIDE DEF m, h, s, f, la, lb
  <2>4. /\ room + h + zeros + l = Most(h + w, size) /\ w \in Int
    <3>2. room + h + zeros + l = Most(h + Most(precision, l), size)
      BY <1>0, <2>2, <2>3, RoomRight
    <3>3. Most(precision, l) \in Int
      BY <1>0 DEF Most
    <3> QED
      BY <3>2, <3>3 DEF w
  <2> HIDE DEF w
  <2>5. m + l = room + h + zeros + l /\ h + w = s + f + w
    BY <1>0, <1>4, <2>1, <2>2, <2>4
  <2>6. m + l = Most(s + f + w, size)
    BY <2>4, <2>5
  <2> QED
    BY <2>6 DEF m, s, f, w
<1> QED
  BY <1>1, <1>6, <1>7 DEF Shaped, sign, prefix, P, digits, l

\* The digits it puts are those of the magnitude, as the most negative long
\* has one too when it is read without a sign.
LEMMA NumberValue ==
  ASSUME NEW base \in Bases, NEW num \in Int, NEW type,
         -Power(2, LongBits) < num, num < Power(2, LongBits)
  PROVE  LET v == IF "SIGN" \in type THEN Magnitude(num) ELSE Unsigned(num, LongBits) IN
         /\ NumberDigits(num, base, type) = Digits(v, base)
         /\ v \in 0 .. Power(2, LongBits) - 1
<1> DEFINE v == IF "SIGN" \in type THEN Magnitude(num) ELSE Unsigned(num, LongBits)
           k == IF "SIGN" \in type /\ num < 0 THEN -num ELSE num
           p == Power(2, LongBits)
<1>1. LongBits \in Nat /\ 2 \in Bases
  BY BitsAssumption DEF Bases
<1>2. p \in Nat \ {0}
  BY <1>1, PowerRight
<1>3. k \in Int
  OBVIOUS
<1>4. /\ Unsigned(k, LongBits) \in 0 .. p - 1
      /\ k \in 0 .. p - 1 => Unsigned(k, LongBits) = k
  <2> HIDE DEF k
  <2> QED
    BY <1>1, <1>3, UnsignedRight
<1>5. -p < num /\ num < p
  OBVIOUS
<1>6. Unsigned(k, LongBits) = v
  <2>1. CASE "SIGN" \in type
    <3>1. v = Magnitude(num) /\ k = IF num < 0 THEN -num ELSE num
      BY <2>1
    <3> HIDE DEF v, k, p
    <3>2. v = k
      BY <3>1 DEF Magnitude, Most
    <3>3. k \in 0 .. p - 1
      BY <3>1, <1>2, <1>5
    <3> QED
      BY <1>4, <3>2, <3>3
  <2>2. CASE "SIGN" \notin type
    BY <2>2
  <2> QED
    BY <2>1, <2>2
<1>7. NumberDigits(num, base, type) = Digits(Unsigned(k, LongBits), base)
  BY DEF NumberDigits
<1> QED
  <2> HIDE DEF v, k, p
  <2>1. NumberDigits(num, base, type) = Digits(v, base) /\ v \in 0 .. p - 1
    BY <1>4, <1>6, <1>7
  <2> QED
    BY <2>1 DEF v, p

\* So the text reads back as that number.
LEMMA NumberRead ==
  ASSUME NEW base \in Bases, NEW num \in Int, NEW size \in Int, NEW precision \in Int, NEW type,
         -Power(2, LongBits) < num, num < Power(2, LongBits)
  PROVE  LET txt == Number(num, base, size, precision, type)
             v == IF "SIGN" \in type THEN Magnitude(num) ELSE Unsigned(num, LongBits)
         IN
         /\ Len(txt) \in Nat
         /\ Denotes(txt, base) = v
         /\ Has(txt, "-") <=> ("SIGN" \in type /\ num < 0)
         /\ Len(txt) = Most(Len(Sign(num, type)) + Len(Prefix(base, type))
                              + Most(DigitsNeeded(v, base), precision), size)
<1> DEFINE txt == Number(num, base, size, precision, type)
           v == IF "SIGN" \in type THEN Magnitude(num) ELSE Unsigned(num, LongBits)
           d == Digits(v, base)
           l == Len(d)
           P == "SIGN" \in type /\ num < 0
           head == Len(Sign(num, type)) + Len(Prefix(base, type))
           S == Fill \cup Figures
<1>1. NumberDigits(num, base, type) = d /\ v \in 0 .. Power(2, LongBits) - 1
  BY NumberValue
<1>2. PICK pre \in Seq(Fill) :
        /\ txt = pre \o d
        /\ Len(pre) + l = Most(head + Most(precision, l), size)
        /\ Has(pre, "-") <=> P
  <2> HIDE DEF txt, v, P, head
  <2>0. Shaped(txt, base, num, size, precision, type)
    BY NumberShape DEF txt
  <2>1. \E pre \in Seq(Fill) :
        /\ txt = pre \o NumberDigits(num, base, type)
        /\ Len(pre) + Len(NumberDigits(num, base, type))
             = Most(head + Most(precision, Len(NumberDigits(num, base, type))), size)
        /\ Has(pre, "-") <=> P
    BY <2>0 DEF Shaped, P, head
  <2> QED
    BY <1>1, <2>1, Zenon
<1>3. v \in Nat
  <2> HIDE DEF v
  <2>1. Power(2, LongBits) \in Nat
    BY BitsAssumption, PowerRight DEF Bases
  <2> QED
    BY <1>1, <2>1
<1>4. d \in Seq(Figures) /\ l \in Nat \ {0} /\ l = DigitsNeeded(v, base)
  <2> HIDE DEF v
  <2> QED
    BY <1>1, <1>3, DigitsEnd, DigitsNeededRight
<1> HIDE DEF v, P, head, txt
<1>5. Denotes(txt, base) = v
  BY <1>2, <1>3, DenotesRight
<1>6. ~Has(d, "-")
  <2>1. "-" \notin Figures
    BY DEF Figures
  <2>2. \A i \in 1 .. Len(d) : d[i] \in Figures
    BY <1>4
  <2> HIDE DEF d
  <2> QED
    BY <2>1, <2>2 DEF Has
<1>7. pre \in Seq(S) /\ d \in Seq(S)
  <2> HIDE DEF d, l
  <2> QED
    BY <1>4, SameSeq
<1> HIDE DEF d, S
<1>8. Len(txt) = Len(pre) + l /\ Len(pre) \in Nat
  BY <1>2, <1>7, JoinRight
<1>9. Has(txt, "-") <=> P
  <2>1. Has(pre \o d, "-") <=> Has(pre, "-") \/ Has(d, "-")
    BY <1>7, JoinRight
  <2> QED
    BY <1>2, <1>6, <2>1, Zenon
<1> HIDE DEF l
<1>10. precision \in Int /\ Most(precision, l) = Most(l, precision)
  BY <1>4 DEF Most
<1>11. Len(txt) = Most(head + Most(DigitsNeeded(v, base), precision), size)
  BY <1>2, <1>4, <1>8, <1>10, Zenon
<1>12. Len(txt) \in Nat
  BY <1>4, <1>8
<1> QED
  BY <1>5, <1>9, <1>11, <1>12 DEF v, P, head, txt

\* The argument of an item fits a long.
LEMMA ArgNumFits ==
  ASSUME NEW it \in Conversion
  PROVE  /\ ArgNum(it) \in Int
         /\ -Power(2, LongBits) < ArgNum(it) /\ ArgNum(it) < Power(2, LongBits)
<1> DEFINE p == Power(2, LongBits)
           q == Power(2, IntBits)
           n == ArgNum(it)
<1>1. /\ LongBits \in Nat \ {0} /\ IntBits \in Nat \ {0} /\ IntBits \in 0 .. LongBits
      /\ 2 \in Bases /\ it.arg \in Int
  BY BitsAssumption DEF Bases, Conversion
<1>2. p \in Nat \ {0} /\ q \in Nat \ {0} /\ q <= p
  BY <1>1, PowerRight, PowerGrows
<1>3. \A b \in {IntBits, LongBits} :
        LET w == Power(2, b) IN
        Signed(it.arg, b) \in Int /\ -w < Signed(it.arg, b) /\ Signed(it.arg, b) < w
  <2> SUFFICES ASSUME NEW b \in {IntBits, LongBits}
               PROVE  /\ Signed(it.arg, b) \in Int /\ -Power(2, b) < Signed(it.arg, b)
                      /\ Signed(it.arg, b) < Power(2, b)
    OBVIOUS
  <2> DEFINE h == Power(2, b - 1)
             w == Power(2, b)
             s == Signed(it.arg, b)
  <2>1. b \in Nat \ {0}
    BY <1>1
  <2>2. s \in -h .. h - 1 /\ w = 2 * h /\ h \in Nat \ {0}
    BY <1>1, <2>1, SignedRight
  <2> HIDE DEF h, w, s
  <2>3. s \in Int /\ -w < s /\ s < w
    BY <2>2
  <2> QED
    BY <2>3 DEF w, s
<1>4. Unsigned(it.arg, IntBits) \in 0 .. q - 1
  BY <1>1, UnsignedRight
<1>5. n \in {Signed(it.arg, LongBits), Signed(it.arg, IntBits), Unsigned(it.arg, IntBits)}
  BY DEF ArgNum
<1>6. /\ Signed(it.arg, LongBits) \in Int /\ -p < Signed(it.arg, LongBits)
      /\ Signed(it.arg, LongBits) < p
      /\ Signed(it.arg, IntBits) \in Int /\ -q < Signed(it.arg, IntBits)
      /\ Signed(it.arg, IntBits) < q
  BY <1>3
<1> HIDE DEF p, q, n
<1>7. n \in Int /\ -p < n /\ n < p
  BY <1>2, <1>4, <1>5, <1>6
<1> QED
  BY <1>7 DEF p, n

\* Width, precision and base of an item.
LEMMA ItemTyped ==
  ASSUME NEW it \in Conversion
  PROVE  Precision(it) \in Int /\ FieldWidth(it) \in Int /\ Base(it.conv) \in Bases
<1>1. it.width \in Seq(Int) /\ it.precision \in Seq(Int)
  BY DEF Conversion
<1>2. Precision(it) \in Int
  BY <1>1 DEF Precision, Most
<1>3. FieldWidth(it) \in Int
  BY <1>1 DEF FieldWidth, Most
<1>4. Base(it.conv) \in Bases
  BY DEF Base, Bases
<1> QED
  BY <1>2, <1>3, <1>4

\* ee_number puts a number that reads back, of the width the format says.
LEMMA IntegralRight ==
  ASSUME NEW it \in Conversion, it.conv \in Integral
  PROVE  NumberRight(it, Converted(it)) /\ Len(Converted(it)) \in Nat
<1> DEFINE n == ArgNum(it)
           v == IF "SIGN" \in Type(it) THEN Magnitude(n) ELSE Unsigned(n, LongBits)
           b == Base(it.conv)
           whole == it.conv = "p" /\ it.width = <<>>
           type == IF whole THEN Type(it) \cup {"ZEROPAD"} ELSE Type(it)
           size == IF whole THEN LongBits \div 4 ELSE FieldWidth(it)
           signs == IF "SIGN" \in Type(it) /\ (n < 0 \/ {"PLUS", "SPACE"} \cap it.flags # {})
                    THEN 1 ELSE 0
           heads == IF "HEX_PREP" \in it.flags THEN CASE b = 16 -> 2 [] b = 8 -> 1 [] OTHER -> 0
                    ELSE 0
           txt == Converted(it)
           need == DigitsNeeded(v, b)
           precision == Precision(it)
<1>1. txt = Number(n, b, size, precision, type)
  <2>1. it.conv \notin {"plain", "c", "s"}
    BY DEF Integral
  <2>2. CASE whole
    <3>1. b = 16
      BY <2>2 DEF Base
    <3>2. txt = Number(ArgNum(it), 16, LongBits \div 4, Precision(it), Type(it) \cup {"ZEROPAD"})
      BY <2>1, <2>2 DEF Converted
    <3> QED
      BY <2>2, <3>1, <3>2
  <2>3. CASE ~whole
    <3>0. /\ ~(it.conv = "p" /\ it.width = <<>>) /\ it.conv \in Integral
          /\ it.conv # "plain" /\ it.conv # "c" /\ it.conv # "s"
          /\ ~(it.conv \in {"%", ""})
      BY <2>1, <2>3 DEF Integral
    <3> HIDE DEF whole
    <3>1. txt = Number(ArgNum(it), Base(it.conv), FieldWidth(it), Precision(it), Type(it))
      BY <3>0, ZenonT(30) DEF Converted
    <3> QED
      BY <2>3, <3>1
  <2> QED
    BY <2>2, <2>3
<1>2. /\ \A f \in Flags \ {"ZEROPAD"} : f \in type <=> f \in Type(it)
      /\ \A f \in {"PLUS", "SPACE", "HEX_PREP"} : f \in Type(it) <=> f \in it.flags
  BY DEF Type, ItemFlags, Flags
<1>3. "SIGN" \in type <=> "SIGN" \in Type(it)
  BY <1>2 DEF Flags
<1>4. /\ b \in Bases /\ n \in Int /\ precision \in Int /\ size \in Int
      /\ -Power(2, LongBits) < n /\ n < Power(2, LongBits)
  BY ItemTyped, ArgNumFits, BitsAssumption
<1> HIDE DEF n, b, type, size, precision, txt
<1>5. Len(Sign(n, type)) = signs
  <2>1. Len(Sign(n, type)) = IF "SIGN" \in type /\ (n < 0 \/ "PLUS" \in type \/ "SPACE" \in type)
                             THEN 1 ELSE 0
    BY <1>4, SignRight
  <2>2. "PLUS" \in type \/ "SPACE" \in type <=> {"PLUS", "SPACE"} \cap it.flags # {}
    BY <1>2 DEF Flags
  <2> QED
    BY <1>3, <2>1, <2>2
<1>6. Len(Prefix(b, type)) = heads
  <2>1. Len(Prefix(b, type)) = IF "HEX_PREP" \in type
                     THEN CASE b = 16 -> 2 [] b = 8 -> 1 [] OTHER -> 0 ELSE 0
    BY PrefixRight
  <2>2. "HEX_PREP" \in type <=> "HEX_PREP" \in it.flags
    BY <1>2 DEF Flags
  <2> QED
    BY <2>1, <2>2
<1>7. /\ Len(txt) \in Nat /\ Denotes(txt, b) = v
      /\ Has(txt, "-") <=> ("SIGN" \in Type(it) /\ n < 0)
      /\ Len(txt) = Most(Len(Sign(n, type)) + Len(Prefix(b, type)) + Most(need, precision), size)
  BY <1>1, <1>3, <1>4, NumberRead
<1>8. Len(txt) = Most(signs + heads + Most(need, precision), size)
  <2> HIDE DEF signs, heads, need
  <2> QED
    BY <1>5, <1>6, <1>7
<1>9. NumberRight(it, txt)
  BY <1>7, <1>8 DEF NumberRight, n, b, size, precision, Has
<1> QED
  BY <1>7, <1>9 DEF txt

-----------------------------------------------------------------------------
(* Strings. *)

\* n characters of one kind before k of another.
Parts(txt, c, n, e, k) ==
  Len(txt) = n + k /\ \A i \in 1 .. n + k : txt[i] = IF i <= n THEN c ELSE e

\* Two runs of characters put together.
LEMMA TwoParts ==
  ASSUME NEW c, NEW e, NEW n \in Nat, NEW k \in Nat
  PROVE  Parts(Rep(c, n) \o Rep(e, k), c, n, e, k)
<1> DEFINE s == Rep(c, n)
           t == Rep(e, k)
           S == {c, e}
<1>1. /\ s \in Seq(S) /\ t \in Seq(S) /\ Len(s) = n /\ Len(t) = k
      /\ \A i \in 1 .. n : s[i] = c
      /\ \A i \in 1 .. k : t[i] = e
  <2>1. Most(n, 0) = n /\ Most(k, 0) = k /\ n \in Int /\ k \in Int
    BY DEF Most
  <2>a. s \in Seq({c}) /\ Len(s) = n
    BY <2>1, RepRight, Zenon
  <2>b. t \in Seq({e}) /\ Len(t) = k
    BY <2>1, RepRight, Zenon
  <2>c. (\A i \in 1 .. n : s[i] = c) /\ (\A i \in 1 .. k : t[i] = e)
    BY DEF Rep
  <2>3. {c} \subseteq S /\ {e} \subseteq S
    OBVIOUS
  <2> HIDE DEF s, t, S
  <2> QED
    BY <2>a, <2>b, <2>c, <2>3, SameSeq
<1> HIDE DEF s, t, S
<1>2. /\ Len(s \o t) = n + k
      /\ \A i \in 1 .. n : (s \o t)[i] = s[i]
      /\ \A j \in 1 .. k : (s \o t)[n + j] = t[j]
  <2>1. Len(s \o t) = Len(s) + Len(t)
    BY <1>1, JoinRight
  <2>2. \A i \in 1 .. Len(s) : (s \o t)[i] = s[i]
    BY <1>1, JoinRight
  <2>3. \A j \in 1 .. Len(t) : (s \o t)[Len(s) + j] = t[j]
    BY <1>1, JoinRight
  <2> QED
    BY <1>1, <2>1, <2>2, <2>3
<1>3. ASSUME NEW i \in 1 .. n + k PROVE (s \o t)[i] = IF i <= n THEN c ELSE e
  <2>1. CASE i <= n
    <3>1. i \in 1 .. n
      BY <2>1
    <3> QED
      BY <1>1, <1>2, <2>1, <3>1
  <2>2. CASE ~(i <= n)
    <3>1. i - n \in 1 .. k /\ n + (i - n) = i
      BY <2>2
    <3>2. (s \o t)[n + (i - n)] = t[i - n]
      BY <1>2, <3>1
    <3> QED
      BY <1>1, <2>2, <3>1, <3>2
  <2> QED
    BY <2>1, <2>2
<1> QED
  BY <1>2, <1>3 DEF s, t, Parts

\* A string fills its width on the side the format says.
LEMMA FieldRight ==
  ASSUME NEW it, FieldWidth(it) \in Int, NEW n \in Nat
  PROVE  /\ Len(Field(it, n)) = Most(n, FieldWidth(it)) /\ Len(Field(it, n)) \in Nat
         /\ \A i \in 1 .. Len(Field(it, n)) :
              Field(it, n)[i] = "s" <=> IF "LEFT" \in ItemFlags(it) THEN i <= n
                                        ELSE i > Len(Field(it, n)) - n
<1> DEFINE w == FieldWidth(it)
           k == Most(w - n, 0)
           txt == Field(it, n)
           left == "LEFT" \in ItemFlags(it)
<1>1. k \in Nat /\ n + k = Most(n, w)
  BY DEF Most
<1>2. txt = IF left THEN Rep("s", n) \o Rep(" ", k) ELSE Rep(" ", k) \o Rep("s", n)
  BY DEF Field, Spaces
<1> DEFINE blank == " "
<1>3. "s" # blank
  OBVIOUS
<1>4. txt = IF left THEN Rep("s", n) \o Rep(blank, k) ELSE Rep(blank, k) \o Rep("s", n)
  BY <1>2, Zenon
<1> HIDE DEF k, txt, left, blank
<1>5. CASE left
  <2>1. Parts(Rep("s", n) \o Rep(blank, k), "s", n, blank, k)
    BY <1>1, TwoParts, Zenon
  <2>2. Len(txt) = n + k /\ \A i \in 1 .. n + k : txt[i] = IF i <= n THEN "s" ELSE blank
    BY <1>4, <1>5, <2>1, Zenon DEF Parts
  <2>3. \A i \in 1 .. Len(txt) : txt[i] = "s" <=> i <= n
    BY <1>3, <2>2
  <2>4. Len(txt) = Most(n, w) /\ Len(txt) \in Nat
    BY <1>1, <2>2
  <2> QED
    BY <1>5, <2>3, <2>4, Zenon DEF txt, left
<1>6. CASE ~left
  <2>1. Parts(Rep(blank, k) \o Rep("s", n), blank, k, "s", n)
    BY <1>1, TwoParts, Zenon
  <2>2. Len(txt) = k + n /\ \A i \in 1 .. k + n : txt[i] = IF i <= k THEN blank ELSE "s"
    BY <1>4, <1>6, <2>1, Zenon DEF Parts
  <2>3. Len(txt) = n + k /\ k = Len(txt) - n
    BY <1>1, <2>2
  <2>4. \A i \in 1 .. Len(txt) : txt[i] = "s" <=> ~(i <= k)
    BY <1>3, <2>2
  <2>5. \A i \in 1 .. Len(txt) : txt[i] = "s" <=> i > Len(txt) - n
    BY <1>1, <2>3, <2>4
  <2>6. Len(txt) = Most(n, w) /\ Len(txt) \in Nat
    BY <1>1, <2>3
  <2> QED
    BY <1>6, <2>5, <2>6, Zenon DEF txt, left
<1> QED
  BY <1>5, <1>6

\* %c and %s put what they should.
LEMMA StringsRight ==
  ASSUME NEW it \in Conversion, it.conv \in {"c", "s"}
  PROVE  StringRight(it, Converted(it)) /\ Len(Converted(it)) \in Nat
<1> DEFINE n == IF it.conv = "c" THEN 1 ELSE StrLen(it)
<1>1. n \in Nat
  <2>1. Precision(it) \in Int
    BY ItemTyped
  <2>2. it.arg \in Int /\ (it.conv = "s" => it.arg >= -1)
    BY DEF Conversion, NullString
  <2>3. CASE it.conv = "c"
    BY <2>3
  <2>4. CASE it.conv # "c"
    <3>1. it.conv = "s"
      BY <2>4
    <3>2. n = StrLen(it)
      BY <2>4
    <3> HIDE DEF n
    <3> QED
      BY <2>1, <2>2, <3>1, <3>2 DEF StrLen, Few, NullString
  <2> QED
    BY <2>3, <2>4
<1>2. Converted(it) = Field(it, n)
  <2>1. CASE it.conv = "c"
    <3>1. it.conv # "plain" /\ it.conv # "s" /\ it.conv # "p" /\ it.conv \notin Integral /\ n = 1
      BY <2>1 DEF Integral
    <3> HIDE DEF n
    <3> QED
      BY <2>1, <3>1, ZenonT(30) DEF Converted
  <2>2. CASE it.conv = "s"
    <3>1. it.conv # "plain" /\ it.conv # "c" /\ it.conv # "p" /\ it.conv \notin Integral
          /\ n = StrLen(it)
      BY <2>2 DEF Integral
    <3> HIDE DEF n
    <3> QED
      BY <2>2, <3>1, ZenonT(30) DEF Converted
  <2> QED
    BY <2>1, <2>2
<1>3. FieldWidth(it) \in Int
  BY ItemTyped
<1> HIDE DEF n
<1>4. /\ Len(Field(it, n)) = Most(n, FieldWidth(it)) /\ Len(Field(it, n)) \in Nat
      /\ \A i \in 1 .. Len(Field(it, n)) :
           Field(it, n)[i] = "s" <=> IF "LEFT" \in ItemFlags(it) THEN i <= n
                                     ELSE i > Len(Field(it, n)) - n
  BY <1>1, <1>3, FieldRight
<1>5. StringRight(it, Field(it, n))
  BY <1>4 DEF StringRight, n
<1> QED
  BY <1>2, <1>4, <1>5

\* print_raw converts each item into what its format calls for.
LEMMA RawIsRight ==
  ASSUME NEW it \in Conversion
  PROVE  RawRight(it, Converted(it)) /\ Len(Converted(it)) \in Nat
<1>1. it.conv # "dump"
  BY DEF Conversion
<1>2. CASE it.conv \in Integral
  <2>1. it.conv \notin {"c", "s"}
    BY <1>2 DEF Integral
  <2> QED
    BY <1>1, <1>2, <2>1, IntegralRight DEF RawRight
<1>3. CASE it.conv \in {"c", "s"}
  <2>1. it.conv \notin Integral
    BY <1>3 DEF Integral
  <2> QED
    BY <1>1, <1>3, <2>1, StringsRight DEF RawRight
<1>4. CASE it.conv \notin Integral /\ it.conv \notin {"c", "s"}
  <2>1. RawRight(it, Converted(it))
    BY <1>1, <1>4 DEF RawRight
  <2>2. it.conv # "p" /\ it.conv # "c" /\ it.conv # "s"
    BY <1>4 DEF Integral
  <2>3. \A c, e : Len(<<c>>) \in Nat /\ Len(<<c, e>>) \in Nat
    OBVIOUS
  <2>4. \/ Converted(it) = <<"s">> \/ Converted(it) = <<"%">>
        \/ Converted(it) = <<"%", it.conv>>
    BY <1>4, <2>2, ZenonT(30) DEF Converted
  <2>5. Len(Converted(it)) \in Nat
    BY <2>3, <2>4, Zenon
  <2> QED
    BY <2>1, <2>5
<1> QED
  BY <1>2, <1>3, <1>4

-----------------------------------------------------------------------------
(* Dumps. *)

\* simple_print_hex puts the two digits of a byte.
LEMMA HexRight ==
  ASSUME NEW k \in Int
  PROVE  LET h == simple_print_hex(Byte(k)) IN
         /\ h[1] \in Figures /\ h[2] \in Figures
         /\ h = <<h[1], h[2]>>
         /\ 16 * Worth(h[1]) + Worth(h[2]) = Byte(k)
<1> DEFINE b == Byte(k)
           q == b \div 16
           r == b % 16
<1>1. b \in 0 .. 255
  BY DEF Byte
<1>2. q \in 0 .. 15 /\ r \in 0 .. 15 /\ 16 * q + r = b
  <2> HIDE DEF b
  <2> QED
    BY <1>1
<1>3. simple_print_hex(b) = <<lower_digits[q + 1], lower_digits[r + 1]>>
  BY DEF simple_print_hex
<1>4. \A d \in 1 .. 16 : lower_digits[d] \in Figures
  BY DEF lower_digits, Figures
<1> HIDE DEF q, r, b
<1>5. q + 1 \in 1 .. 16 /\ r + 1 \in 1 .. 16 /\ q + 1 - 1 = q /\ r + 1 - 1 = r
  BY <1>2
<1>6. Worth(lower_digits[q + 1]) = q /\ Worth(lower_digits[r + 1]) = r
  <2>1. ASSUME NEW e, e \in 1 .. 16 PROVE Worth(lower_digits[e]) = e - 1
    BY <2>1, WorthRight
  <2> DEFINE d == q + 1
             e == r + 1
  <2>2. d \in 1 .. 16 /\ e \in 1 .. 16 /\ d - 1 = q /\ e - 1 = r
    BY <1>2
  <2> HIDE DEF d, e
  <2>3. Worth(lower_digits[d]) = q /\ Worth(lower_digits[e]) = r
    BY <2>1, <2>2
  <2> QED
    BY <2>3 DEF d, e
<1>7. lower_digits[q + 1] \in Figures /\ lower_digits[r + 1] \in Figures
  BY <1>4, <1>5
<1> DEFINE x == lower_digits[q + 1]
           y == lower_digits[r + 1]
           h == simple_print_hex(b)
<1> HIDE DEF x, y
<1>8. h = <<x, y>>
  BY <1>3 DEF x, y
<1>9. h[1] = x /\ h[2] = y
  BY <1>8
<1> HIDE DEF h
<1>10. /\ h[1] \in Figures /\ h[2] \in Figures /\ h = <<h[1], h[2]>>
       /\ 16 * Worth(h[1]) + Worth(h[2]) = b
  BY <1>2, <1>6, <1>7, <1>8, <1>9 DEF x, y
<1> QED
  BY <1>10 DEF h, b

\* What a dump is made of.
Marks == Figures \cup {" ", "s", "tab", "crlf", "head", "bytes"}
Body == Marks \ {"crlf"}

Cell(k, n) == IF k <= n THEN Append(simple_print_hex(Byte(k)), " ") ELSE Spaces(3)

ByteAt(txt, o, k) == 16 * Worth(txt[o + 1]) + Worth(txt[o + 2]) = Byte(k)

\* A cell of a dump is the byte or three spaces.
LEMMA CellRight ==
  ASSUME NEW k \in Int, NEW n \in Int
  PROVE  /\ Cell(k, n) \in Seq(Body) /\ Len(Cell(k, n)) = 3
         /\ k <= n => ByteAt(Cell(k, n), 0, k)
<1> DEFINE h == simple_print_hex(Byte(k))
           blank == " "
<1>1. blank \in Body /\ Figures \subseteq Body
  BY DEF Body, Marks, Figures
<1> HIDE DEF blank
<1>2. CASE k <= n
  <2>1. PICK x \in Figures, y \in Figures : h = <<x, y>> /\ 16 * Worth(x) + Worth(y) = Byte(k)
    BY HexRight
  <2>2. Cell(k, n) = Append(h, blank)
    BY <1>2, Zenon DEF Cell, blank
  <2> HIDE DEF h
  <2>3. h \in Seq(Body) /\ Len(h) = 2 /\ h[1] = x /\ h[2] = y
    BY <1>1, <2>1
  <2>4. Append(h, blank) \in Seq(Body) /\ Len(Append(h, blank)) = 3
    BY <1>1, <2>3, AppendProperties
  <2>5. Append(h, blank)[1] = x /\ Append(h, blank)[2] = y
    <3>0. h \in Seq(Body) /\ blank \in Body
      BY <1>1, <2>3
    <3>1. \A i \in 1 .. Len(h) : Append(h, blank)[i] = h[i]
      BY <3>0, AppendProperties
    <3>2. 1 \in 1 .. Len(h) /\ 2 \in 1 .. Len(h)
      BY <2>3
    <3> QED
      BY <2>3, <3>1, <3>2, Zenon
  <2>6. Cell(k, n)[0 + 1] = x /\ Cell(k, n)[0 + 2] = y
    <3>1. 0 + 1 = 1 /\ 0 + 2 = 2
      OBVIOUS
    <3> QED
      BY <2>2, <2>5, <3>1, Zenon
  <2> QED
    BY <2>1, <2>2, <2>4, <2>6 DEF ByteAt
<1>3. CASE ~(k <= n)
  <2>1. Cell(k, n) = Rep(blank, 3)
    BY <1>3, Zenon DEF Cell, Spaces, blank
  <2>2. Rep(blank, 3) \in Seq({blank}) /\ Len(Rep(blank, 3)) = Most(3, 0) /\ Most(3, 0) = 3
    <3>1. 3 \in Int /\ Most(3, 0) = 3
      BY DEF Most
    <3> QED
      BY <3>1, RepRight, Zenon
  <2>3. {blank} \subseteq Body
    BY <1>1
  <2>4. Rep(blank, 3) \in Seq(Body)
    BY <2>2, <2>3, SameSeq
  <2> QED
    BY <1>3, <2>1, <2>2, <2>4
<1> QED
  BY <1>2, <1>3

\* The cells of a row are put one after the other.
LEMMA HexCellsSteps ==
  ASSUME NEW p \in Nat, NEW n \in Nat
  PROVE  /\ HexCells(p, n, 0) = <<>>
         /\ \A j \in Nat : HexCells(p, n, j + 1) = HexCells(p, n, j) \o Cell(p + (j + 1), n)
<1> DEFINE c(j) == Cell(p + j, n)
           Then(f, j) == IF j = 0 THEN <<>> ELSE f[j - 1] \o c(j)
           Is(f) == f = [j \in Nat |-> Then(f, j)]
           of == CHOOSE f : Is(f)
           T == Seq(Body)
<1>1. ASSUME NEW j \in Nat PROVE c(j) \in T
  BY CellRight
<1>2. <<>> \in T
  OBVIOUS
<1> HIDE DEF c
<1>3. \E f : Is(f)
  <2> DEFINE rank == [j \in Nat |-> j]
             pred == [j \in Nat |-> IF j = 0 THEN 0 ELSE j - 1]
             ends == {0}
             start == [j \in Nat |-> <<>>]
             step == [v \in T \X Nat |-> v[1] \o c(v[2])]
  <2>1. WellMade(Nat, T, rank, pred, ends, start, step)
    <3>1. ASSUME NEW v \in T \X Nat PROVE v[1] \o c(v[2]) \in T
      <4>1. v[1] \in Seq(Body) /\ c(v[2]) \in Seq(Body)
        BY <1>1 DEF T
      <4> QED
        BY <4>1, ConcatProperties DEF T
    <3> HIDE DEF T
    <3> QED
      BY <1>2, <3>1 DEF WellMade
  <2>2. PICK f : Solves(f, Nat, T, pred, ends, start, step)
    <3> HIDE DEF rank, pred, start, step, ends, T
    <3> QED
      BY <2>1, Recursion
  <2>3. ASSUME NEW j \in Nat PROVE f[j] = Then(f, j)
    <3> USE <2>2 DEF Solves
    <3> HIDE DEF T
    <3>1. CASE j = 0
      <4>1. f[j] = start[j] /\ start[j] = <<>>
        BY <3>1
      <4> QED
        BY <3>1, <4>1
    <3>2. CASE j # 0
      <4>1. pred[j] = j - 1 /\ j - 1 \in Nat /\ j \notin ends
        BY <3>2
      <4>2. <<f[j - 1], j>> \in T \X Nat
        BY <4>1
      <4>3. f[j] = step[<<f[j - 1], j>>]
        BY <2>2, <4>1
      <4> QED
        BY <3>2, <4>2, <4>3
    <3> QED
      BY <3>1, <3>2
  <2>4. Is(f)
    BY <2>2, <2>3 DEF Solves
  <2> QED
    BY <2>4
<1>4. Is(of)
  <2> HIDE DEF Is
  <2> QED
    BY <1>3
<1>5. \A j : HexCells(p, n, j) = of[j]
  BY Zenon DEF HexCells, Cell, c
<1> HIDE DEF of
<1>6. \A j \in Nat : of[j] = Then(of, j)
  BY <1>4
<1>7. HexCells(p, n, 0) = <<>>
  BY <1>5, <1>6
<1>8. ASSUME NEW j \in Nat PROVE HexCells(p, n, j + 1) = HexCells(p, n, j) \o Cell(p + (j + 1), n)
  <2>1. j + 1 \in Nat /\ j + 1 # 0 /\ j + 1 - 1 = j
    OBVIOUS
  <2> DEFINE k == j + 1
  <2> HIDE DEF k
  <2>2. of[k] = of[k - 1] \o c(k)
    BY <1>6, <2>1 DEF k
  <2>4. k - 1 = j
    BY DEF k
  <2>5. of[k] = of[j] \o c(k)
    BY <2>2, <2>4
  <2>3. of[j + 1] = of[j] \o c(j + 1)
    BY <2>5 DEF k
  <2> QED
    BY <1>5, <2>3 DEF c
<1> QED
  BY <1>7, <1>8

Cells(c, p, n, j) ==
  /\ c \in Seq(Body) /\ Len(c) = 3 * j
  /\ \A k \in 1 .. j : p + k <= n => ByteAt(c, 3 * (k - 1), p + k)

\* A byte stays where it is when texts are put together.
LEMMA ByteAtJoin ==
  ASSUME NEW S, NEW s \in Seq(S), NEW t \in Seq(S), NEW o \in Nat, NEW k
  PROVE  /\ o + 2 <= Len(s) /\ ByteAt(s, o, k) => ByteAt(s \o t, o, k)
         /\ o + 2 <= Len(t) /\ ByteAt(t, o, k) => ByteAt(s \o t, Len(s) + o, k)
<1> DEFINE m == Len(s)
           all == s \o t
<1>1. /\ \A i \in 1 .. Len(s) : (s \o t)[i] = s[i]
      /\ \A j \in 1 .. Len(t) : (s \o t)[Len(s) + j] = t[j]
  BY JoinRight
<1>2. ASSUME o + 2 <= Len(s), ByteAt(s, o, k) PROVE ByteAt(all, o, k)
  <2>1. o + 1 \in 1 .. Len(s) /\ o + 2 \in 1 .. Len(s)
    BY <1>2
  <2>2. all[o + 1] = s[o + 1] /\ all[o + 2] = s[o + 2]
    BY <1>1, <2>1
  <2> HIDE DEF all
  <2> QED
    BY <1>2, <2>2 DEF ByteAt
<1>3. ASSUME o + 2 <= Len(t), ByteAt(t, o, k) PROVE ByteAt(all, m + o, k)
  <2>1. o + 1 \in 1 .. Len(t) /\ o + 2 \in 1 .. Len(t)
    BY <1>3
  <2>2. all[m + (o + 1)] = t[o + 1] /\ all[m + (o + 2)] = t[o + 2]
    BY <1>1, <2>1
  <2>3. m + (o + 1) = m + o + 1 /\ m + (o + 2) = m + o + 2 /\ m \in Nat
    OBVIOUS
  <2> HIDE DEF all, m
  <2>4. all[m + o + 1] = t[o + 1] /\ all[m + o + 2] = t[o + 2]
    BY <2>2, <2>3
  <2> QED
    BY <1>3, <2>4 DEF ByteAt
<1> QED
  BY <1>2, <1>3

\* So the cells hold their bytes, each three characters behind the last.
LEMMA CellsRight ==
  ASSUME NEW p \in Nat, NEW n \in Nat, NEW j \in Nat
  PROVE  Cells(HexCells(p, n, j), p, n, j)
<1> DEFINE G == {i \in Nat : Cells(HexCells(p, n, i), p, n, i)}
<1>1. 0 \in G
  <2>1. HexCells(p, n, 0) = <<>>
    BY HexCellsSteps
  <2>2. Cells(<<>>, p, n, 0)
    <3>1. 1 .. 0 = {} /\ <<>> \in Seq(Body) /\ Len(<<>>) = 3 * 0
      OBVIOUS
    <3> QED
      BY <3>1, Zenon DEF Cells
  <2> QED
    BY <2>1, <2>2
<1>2. ASSUME NEW i \in Nat, i \in G PROVE i + 1 \in G
  <2> DEFINE c == HexCells(p, n, i)
             e == Cell(p + (i + 1), n)
             d == HexCells(p, n, i + 1)
  <2>1. d = c \o e
    BY HexCellsSteps
  <2>2. /\ c \in Seq(Body) /\ Len(c) = 3 * i
        /\ \A k \in 1 .. i : p + k <= n => ByteAt(c, 3 * (k - 1), p + k)
    BY <1>2 DEF Cells
  <2>3. /\ e \in Seq(Body) /\ Len(e) = 3
        /\ p + (i + 1) <= n => ByteAt(e, 0, p + (i + 1))
    <3>1. p + (i + 1) \in Int
      OBVIOUS
    <3> QED
      BY <3>1, CellRight
  <2> HIDE DEF c, e, d
  <2>4. d \in Seq(Body) /\ Len(d) = 3 * (i + 1)
    <3>1. c \o e \in Seq(Body) /\ Len(c \o e) = Len(c) + Len(e)
      BY <2>2, <2>3, JoinRight
    <3>2. Len(c) + Len(e) = 3 * (i + 1)
      BY <2>2, <2>3
    <3> QED
      BY <2>1, <3>1, <3>2
  <2>5. ASSUME NEW k \in 1 .. i + 1, p + k <= n PROVE ByteAt(d, 3 * (k - 1), p + k)
    <3>1. CASE k <= i
      <4>1. k \in 1 .. i /\ 3 * (k - 1) \in Nat /\ 3 * (k - 1) + 2 <= Len(c)
        BY <2>2, <3>1
      <4>2. ByteAt(c, 3 * (k - 1), p + k)
        BY <2>2, <2>5, <4>1
      <4> DEFINE o == 3 * (k - 1)
      <4> HIDE DEF o
      <4>3. ByteAt(c \o e, o, p + k)
        BY <2>2, <2>3, <4>1, <4>2, ByteAtJoin DEF o
      <4> QED
        BY <2>1, <4>3 DEF o
    <3>2. CASE ~(k <= i)
      <4>1. k = i + 1 /\ 3 * (k - 1) = Len(c) + 0 /\ 0 + 2 <= Len(e) /\ 0 \in Nat
        BY <2>2, <2>3, <3>2
      <4>2. ByteAt(e, 0, p + k)
        BY <2>3, <2>5, <4>1
      <4>3. ByteAt(c \o e, Len(c) + 0, p + k)
        BY <2>2, <2>3, <4>1, <4>2, ByteAtJoin
      <4> QED
        BY <2>1, <4>1, <4>3
    <3> QED
      BY <3>1, <3>2
  <2> QED
    BY <2>4, <2>5 DEF Cells, d
<1>3. Nat \subseteq G
  <2> HIDE DEF G
  <2> QED
    BY <1>1, <1>2, Induct
<1> QED
  BY <1>3

RowWidth == 4 * RowBytes + 2

RowGood(row, p, n) ==
  /\ row \in Seq(Marks) /\ Len(row) = RowWidth
  /\ \A i \in 1 .. RowWidth : row[i] = "crlf" <=> i = RowWidth
  /\ \A k \in 1 .. RowBytes : p + k <= n => ByteAt(row, 3 * (k - 1), p + k)

\* A row is as wide as every other, ends with the only line end in it and
\* begins with its bytes.
LEMMA RowRight ==
  ASSUME NEW p \in Nat, NEW n \in Nat
  PROVE  RowGood(Row(p, n), p, n)
<1> DEFINE R == RowBytes
           blank == " "
           c == HexCells(p, n, R)
           tab == <<"tab">>
           chars == [j \in 1 .. R |-> IF p + j <= n THEN "s" ELSE blank]
           ct == c \o tab
           u == ct \o chars
           crlf == <<"crlf">>
           row == u \o crlf
<1>1. R \in Nat \ {0}
  BY RowAssumption
<1>2. Row(p, n) = row
  BY Zenon DEF Row
<1>3. /\ c \in Seq(Body) /\ Len(c) = 3 * R
      /\ \A k \in 1 .. R : p + k <= n => ByteAt(c, 3 * (k - 1), p + k)
  <2>1. Cells(c, p, n, R)
    BY <1>1, CellsRight
  <2> HIDE DEF c
  <2> QED
    BY <2>1 DEF Cells
<1>4. tab \in Seq(Body) /\ Len(tab) = 1 /\ tab[1] = "tab"
  BY DEF Body, Marks, Figures
<1>5. blank \in Body /\ "s" \in Body
  BY DEF Body, Marks, Figures
<1>6. chars \in Seq(Body) /\ Len(chars) = R
  <2> HIDE DEF blank
  <2>1. \A j \in 1 .. R : (IF p + j <= n THEN "s" ELSE blank) \in Body
    BY <1>5
  <2> QED
    BY <1>1, <2>1
<1>7. /\ crlf \in Seq(Marks) /\ Len(crlf) = 1 /\ crlf[1] = "crlf"
      /\ Body \subseteq Marks /\ "crlf" \notin Body
  <2>1. "crlf" \in Marks
    BY DEF Marks
  <2>2. Body \subseteq Marks /\ "crlf" \notin Body
    BY DEF Body
  <2>3. crlf \in Seq(Marks) /\ Len(crlf) = 1 /\ crlf[1] = "crlf"
    BY <2>1
  <2> QED
    BY <2>2, <2>3
<1> HIDE DEF c, tab, chars, crlf, R
<1>8. ct \in Seq(Body) /\ Len(ct) = 3 * R + 1
  <2>1. ct \in Seq(Body) /\ Len(ct) = Len(c) + Len(tab)
    BY <1>3, <1>4, JoinRight
  <2> QED
    BY <1>3, <1>4, <2>1
<1> HIDE DEF ct
<1>9. u \in Seq(Body) /\ Len(u) = 4 * R + 1
  <2>1. u \in Seq(Body) /\ Len(u) = Len(ct) + Len(chars)
    BY <1>6, <1>8, JoinRight
  <2> QED
    BY <1>1, <1>6, <1>8, <2>1
<1> HIDE DEF u
<1>10. u \in Seq(Marks)
  BY <1>7, <1>9, SameSeq
<1>11. row \in Seq(Marks) /\ Len(row) = 4 * R + 2
  <2>1. crlf \in Seq(Marks) /\ u \in Seq(Marks)
    BY <1>7, <1>10
  <2>2. row \in Seq(Marks)
    BY <2>1, JoinRight
  <2>3. Len(row) = Len(u) + Len(crlf)
    BY <2>1, JoinRight
  <2> QED
    BY <1>1, <1>7, <1>9, <2>2, <2>3
<1>12. ASSUME NEW i \in 1 .. 4 * R + 2 PROVE row[i] = "crlf" <=> i = 4 * R + 2
  <2>1. CASE i \in 1 .. Len(u)
    <3>1. \A m \in 1 .. Len(u) : row[m] = u[m]
      BY <1>7, <1>10, JoinRight
    <3>2. u[i] \in Body
      BY <1>9, <2>1
    <3>3. row[i] = u[i]
      BY <2>1, <3>1
    <3>4. i # 4 * R + 2
      BY <1>1, <1>9, <2>1
    <3> QED
      BY <1>7, <3>2, <3>3, <3>4
  <2>2. CASE i \notin 1 .. Len(u)
    <3>1. crlf \in Seq(Marks) /\ u \in Seq(Marks)
      BY <1>7, <1>10
    <3>2. i = Len(u) + 1 /\ i = 4 * R + 2 /\ 1 \in 1 .. Len(crlf)
      BY <1>1, <1>7, <1>9, <2>2
    <3>3. row[Len(u) + 1] = crlf[1]
      <4>1. \A m \in 1 .. Len(crlf) : (u \o crlf)[Len(u) + m] = crlf[m]
        BY <3>1, JoinRight
      <4> QED
        BY <3>2, <4>1
    <3> HIDE DEF row
    <3> QED
      BY <1>7, <3>2, <3>3
  <2> QED
    BY <2>1, <2>2
<1>13. ASSUME NEW k \in 1 .. R, p + k <= n PROVE ByteAt(row, 3 * (k - 1), p + k)
  <2> DEFINE o == 3 * (k - 1)
  <2>1. o \in Nat /\ o + 2 <= Len(c) /\ o + 2 <= Len(ct) /\ o + 2 <= Len(u)
    BY <1>1, <1>3, <1>8, <1>9
  <2>2. ByteAt(c, o, p + k)
    BY <1>3, <1>13
  <2> HIDE DEF o, row
  <2>3. ByteAt(c \o tab, o, p + k)
    BY <1>3, <1>4, <2>1, <2>2, ByteAtJoin
  <2>4. ByteAt(ct, o, p + k)
    BY <2>3 DEF ct
  <2>5. ByteAt(ct \o chars, o, p + k)
    BY <1>6, <1>8, <2>1, <2>4, ByteAtJoin
  <2>6. ByteAt(u, o, p + k)
    BY <2>5 DEF u
  <2>7. ByteAt(u \o crlf, o, p + k)
    BY <1>7, <1>10, <2>1, <2>6, ByteAtJoin
  <2> QED
    BY <2>7 DEF row, o
<1> HIDE DEF row
<1> QED
  BY <1>2, <1>11, <1>12, <1>13 DEF RowGood, RowWidth, R

\* A byte one row later is in the same place of the next row.
LEMMA ShiftMod ==
  ASSUME NEW b \in Nat \ {0}, NEW m \in Nat
  PROVE  (m + b) % b = m % b /\ (m + b) \div b = m \div b + 1
<1>1. m = (b * (m \div b)) + (m % b) /\ m % b \in 0 .. b - 1 /\ m \div b \in Nat
  OBVIOUS
<1>2. /\ m + b = (b * ((m + b) \div b)) + ((m + b) % b)
      /\ (m + b) % b \in 0 .. b - 1 /\ (m + b) \div b \in Nat
  OBVIOUS
<1> DEFINE q == m \div b
           r == m % b
           s == (m + b) \div b
           t == (m + b) % b
<1> HIDE DEF q, r, s, t
<1>3. b * q + r + b = b * s + t /\ q \in Nat /\ r \in 0 .. b - 1 /\ s \in Nat /\ t \in 0 .. b - 1
  BY <1>1, <1>2 DEF q, r, s, t
<1>4. b * (s - (q + 1)) = r - t
  BY <1>3
<1>5. \A x \in Int : b * x < b /\ -b < b * x => x = 0
  OBVIOUS
<1>6. s = q + 1
  BY <1>3, <1>4, <1>5
<1>7. t = r
  BY <1>3, <1>4, <1>6
<1> QED
  BY <1>6, <1>7 DEF q, r, s, t

RowsOf(f, n) ==
  /\ f \in [Nat -> Seq(Marks)]
  /\ \A p \in Nat : f[p] = IF p >= n THEN <<>> ELSE Row(p, n) \o f[p + RowBytes]

HasRows(n) == \E f : RowsOf(f, n) /\ Dump(n) = <<"head">> \o Digits(n, 10) \o <<"bytes">> \o f[0]

\* The rows of a dump, as the loop of the code puts them.
LEMMA RowsSteps ==
  ASSUME NEW n \in Nat
  PROVE  HasRows(n)
<1> DEFINE R == RowBytes
           row(p) == Row(p, n)
           Then(f, p) == IF p >= n THEN <<>> ELSE row(p) \o f[p + R]
           Is(f) == f = [p \in Nat |-> Then(f, p)]
           of == CHOOSE f : Is(f)
           T == Seq(Marks)
           rank == [p \in Nat |-> IF p >= n THEN 0 ELSE n - p]
           pred == [p \in Nat |-> p + R]
           ends == {p \in Nat : p >= n}
           start == [p \in Nat |-> <<>>]
           step == [v \in T \X Nat |-> row(v[2]) \o v[1]]
<1>1. R \in Nat \ {0}
  BY RowAssumption
<1>2. ASSUME NEW p \in Nat PROVE row(p) \in T
  BY RowRight DEF RowGood
<1>3. <<>> \in T
  OBVIOUS
<1> HIDE DEF row, R
<1>4. WellMade(Nat, T, rank, pred, ends, start, step)
  <2>1. ASSUME NEW v \in T \X Nat PROVE row(v[2]) \o v[1] \in T
    <3>1. v[1] \in Seq(Marks) /\ row(v[2]) \in Seq(Marks)
      BY <1>2 DEF T
    <3> QED
      BY <3>1, ConcatProperties DEF T
  <2> HIDE DEF T
  <2>2. step \in [T \X Nat -> T] /\ start \in [Nat -> T]
    BY <1>3, <2>1
  <2>3. rank \in [Nat -> Nat] /\ pred \in [Nat -> Nat]
    BY <1>1
  <2>4. \A p \in Nat : p \notin ends => rank[pred[p]] < rank[p]
    BY <1>1
  <2> HIDE DEF step, start, rank, pred, ends
  <2> QED
    BY <2>2, <2>3, <2>4 DEF WellMade
<1>5. PICK f : Solves(f, Nat, T, pred, ends, start, step)
  <2> HIDE DEF rank, pred, start, step, ends, T
  <2> QED
    BY <1>4, Recursion
<1>6. ASSUME NEW p \in Nat PROVE f[p] = Then(f, p)
  <2> USE <1>5 DEF Solves
  <2> HIDE DEF T
  <2>1. CASE p >= n
    <3>1. f[p] = start[p] /\ start[p] = <<>>
      BY <2>1
    <3> QED
      BY <2>1, <3>1
  <2>2. CASE ~(p >= n)
    <3>1. pred[p] = p + R /\ p + R \in Nat /\ p \notin ends
      BY <1>1, <2>2
    <3>2. <<f[p + R], p>> \in T \X Nat
      BY <3>1
    <3>3. f[p] = step[<<f[p + R], p>>]
      BY <1>5, <3>1
    <3> QED
      BY <2>2, <3>2, <3>3
  <2> QED
    BY <2>1, <2>2
<1>7. \E g : Is(g)
  <2>1. Is(f)
    BY <1>5, <1>6 DEF Solves
  <2> QED
    BY <2>1
<1>8. Is(of)
  <2> HIDE DEF Is
  <2> QED
    BY <1>7
<1>9. Dump(n) = <<"head">> \o Digits(n, 10) \o <<"bytes">> \o of[0]
  BY Zenon DEF Dump, row, R
<1> HIDE DEF of
<1>10. \A p \in Nat : of[p] = Then(of, p)
  BY <1>8
<1>11. of = [p \in Nat |-> of[p]]
  BY <1>8
<1> DEFINE good == {p \in Nat : of[p] \in T}
<1>12. ASSUME NEW p \in Nat, \A y \in Nat : rank[y] < rank[p] => y \in good PROVE p \in good
  <2>1. CASE p >= n
    BY <1>3, <1>10, <2>1
  <2>2. CASE ~(p >= n)
    <3>1. p + R \in Nat /\ rank[p + R] < rank[p]
      BY <1>1, <2>2
    <3>2. of[p + R] \in Seq(Marks) /\ row(p) \in Seq(Marks)
      BY <1>2, <1>12, <3>1
    <3>3. row(p) \o of[p + R] \in Seq(Marks)
      BY <3>2, ConcatProperties
    <3> QED
      BY <1>10, <2>2, <3>3
  <2> QED
    BY <2>1, <2>2
<1>13. Nat \subseteq good
  <2>1. rank \in [Nat -> Nat]
    OBVIOUS
  <2> HIDE DEF good, rank
  <2> QED
    BY <1>12, <2>1, Descend
<1>14. of \in [Nat -> Seq(Marks)]
  BY <1>11, <1>13
<1>15. RowsOf(of, n)
  BY <1>10, <1>14 DEF RowsOf, row, R
<1> QED
  BY <1>9, <1>15 DEF HasRows

\* The rows from byte p on: byte p + m + 1 stands in row m \div RowBytes.
Offset(m) == ((m \div RowBytes) * RowWidth) + (3 * (m % RowBytes))

RowsGood(txt, p, n) ==
  /\ txt \in Seq(Marks) /\ Len(txt) % RowWidth = 0
  /\ \A i \in 1 .. Len(txt) : txt[i] = "crlf" <=> i % RowWidth = 0
  /\ \A m \in Nat : p + m < n =>
       Offset(m) \in Nat /\ Offset(m) + 2 <= Len(txt) /\ ByteAt(txt, Offset(m), p + m + 1)

\* All rows are as wide as the first, and byte m + 1 is where Offset says.
LEMMA RowsRight ==
  ASSUME NEW n \in Nat, NEW f, RowsOf(f, n)
  PROVE  RowsGood(f[0], 0, n)
<1> DEFINE R == RowBytes
           W == RowWidth
           G == {p \in Nat : RowsGood(f[p], p, n)}
           rank == [p \in Nat |-> IF p >= n THEN 0 ELSE n - p]
<1>1. R \in Nat \ {0} /\ W \in Nat \ {0} /\ W = 4 * R + 2
  BY RowAssumption DEF RowWidth
<1>2. ASSUME NEW p \in Nat, \A y \in Nat : rank[y] < rank[p] => y \in G PROVE p \in G
  <2> DEFINE txt == f[p]
  <2>1. CASE p >= n
    <3>1. txt = <<>>
      BY <2>1 DEF RowsOf
    <3>2. <<>> \in Seq(Marks) /\ Len(<<>>) = 0 /\ 1 .. 0 = {}
      OBVIOUS
    <3>3. 0 % W = 0
      BY <1>1, SmallMod
    <3>4. \A m \in Nat : ~(p + m < n)
      BY <2>1
    <3>5. RowsGood(<<>>, p, n)
      BY <3>2, <3>3, <3>4, Zenon DEF RowsGood, W
    <3> QED
      BY <3>1, <3>5
  <2>2. CASE ~(p >= n)
    <3> DEFINE row == Row(p, n)
               rest == f[p + R]
               l == Len(rest)
    <3>1. txt = row \o rest
      BY <2>2 DEF RowsOf
    <3>2. p + R \in Nat /\ rank[p + R] < rank[p]
      BY <1>1, <2>2
    <3>3. p + R \in G
      BY <1>2, <3>2
    <3>4. RowsGood(rest, p + R, n) /\ RowGood(row, p, n)
      BY <3>3, RowRight
    <3> HIDE DEF txt, row, rest, R, W, G, rank
    <3>5. /\ row \in Seq(Marks) /\ Len(row) = W
          /\ \A i \in 1 .. W : row[i] = "crlf" <=> i = W
          /\ \A k \in 1 .. R : p + k <= n => ByteAt(row, 3 * (k - 1), p + k)
      BY <3>4 DEF RowGood, W, R
    <3>6. /\ rest \in Seq(Marks) /\ l % W = 0 /\ l \in Nat
          /\ \A i \in 1 .. l : rest[i] = "crlf" <=> i % W = 0
          /\ \A m \in Nat : (p + R) + m < n =>
               Offset(m) \in Nat /\ Offset(m) + 2 <= l /\ ByteAt(rest, Offset(m), (p + R) + m + 1)
      BY <3>4 DEF RowsGood, W
    <3> HIDE DEF l
    <3>7. txt \in Seq(Marks) /\ Len(txt) = W + l
      <4>1. row \o rest \in Seq(Marks) /\ Len(row \o rest) = Len(row) + Len(rest)
        BY <3>5, <3>6, JoinRight
      <4> QED
        BY <3>1, <3>5, <4>1 DEF l
    <3>8. Len(txt) % W = 0
      <4>1. (l + W) % W = l % W
        BY <1>1, <3>6, ShiftMod, Zenon
      <4>2. W + l = l + W
        BY <1>1, <3>6
      <4> QED
        BY <3>6, <3>7, <4>1, <4>2
    <3>9. ASSUME NEW i \in 1 .. Len(txt) PROVE txt[i] = "crlf" <=> i % W = 0
      <4>1. CASE i <= W
        <5>1. i \in 1 .. W
          BY <4>1
        <5>2. txt[i] = row[i]
          <6>0. row \in Seq(Marks) /\ rest \in Seq(Marks)
            BY <3>5, <3>6
          <6>1. \A m \in 1 .. Len(row) : (row \o rest)[m] = row[m]
            BY <6>0, JoinRight
          <6> QED
            BY <3>1, <3>5, <5>1, <6>1
        <5>3. CASE i = W
          <6>1. 0 \in Nat /\ 0 < W /\ 0 + W = W
            BY <1>1
          <6>2. 0 % W = 0 /\ (0 + W) % W = 0 % W
            BY <1>1, <6>1, ShiftMod, SmallMod, Zenon
          <6>3. W % W = 0
            BY <6>1, <6>2, Zenon
          <6> QED
            BY <3>5, <5>1, <5>2, <5>3, <6>3
        <5>4. CASE i # W
          <6>1. i \in Nat /\ i < W /\ i # 0
            BY <1>1, <5>1, <5>4
          <6>2. i % W = i
            BY <1>1, <6>1, SmallMod
          <6> QED
            BY <3>5, <5>1, <5>2, <5>4, <6>1, <6>2
        <5> QED
          BY <5>3, <5>4
      <4>2. CASE ~(i <= W)
        <5> DEFINE j == i - W
        <5>1. j \in 1 .. l /\ j \in Nat /\ j + W = i /\ W + j = i
          BY <1>1, <3>6, <3>7, <4>2
        <5> HIDE DEF j
        <5>2. txt[W + j] = rest[j]
          <6>0. row \in Seq(Marks) /\ rest \in Seq(Marks)
            BY <3>5, <3>6
          <6>1. \A m \in 1 .. Len(rest) : (row \o rest)[Len(row) + m] = rest[m]
            BY <6>0, JoinRight
          <6>2. Len(row) = W /\ j \in 1 .. Len(rest)
            BY <3>1, <3>5, <5>1 DEF l
          <6>3. (row \o rest)[W + j] = rest[j]
            BY <6>1, <6>2
          <6> QED
            BY <3>1, <6>3
        <5>3. (j + W) % W = j % W
          BY <1>1, <5>1, ShiftMod
        <5> QED
          BY <3>6, <5>1, <5>2, <5>3
      <4> QED
        BY <4>1, <4>2
    <3>10. ASSUME NEW m \in Nat, p + m < n
           PROVE  /\ Offset(m) \in Nat /\ Offset(m) + 2 <= Len(txt)
                  /\ ByteAt(txt, Offset(m), p + m + 1)
      <4>1. CASE m < R
        <5>1. m % R = m /\ m \div R = 0
          BY <1>1, <4>1, SmallMod
        <5>2. Offset(m) = 0 * W + 3 * m
          BY <5>1 DEF Offset, R, W
        <5>3. Offset(m) = 3 * m /\ 3 * m \in Nat /\ 3 * m + 2 <= Len(row) /\ 3 * m + 2 <= Len(txt)
          BY <1>1, <3>5, <3>6, <3>7, <4>1, <5>2
        <5> DEFINE k == m + 1
        <5>4. k \in 1 .. R /\ p + k <= n /\ p + k = p + m + 1 /\ 3 * (k - 1) = 3 * m
          BY <1>1, <3>10, <4>1
        <5> HIDE DEF k
        <5>5. ByteAt(row, 3 * m, p + m + 1)
          BY <3>5, <5>4
        <5>6. ByteAt(row \o rest, 3 * m, p + m + 1)
          BY <3>5, <3>6, <5>3, <5>5, ByteAtJoin
        <5> QED
          BY <3>1, <5>3, <5>6
      <4>2. CASE ~(m < R)
        <5> DEFINE q == m - R
        <5>1. q \in Nat /\ q + R = m /\ (p + R) + q < n /\ (p + R) + q + 1 = p + m + 1
          BY <1>1, <3>10, <4>2
        <5> HIDE DEF q
        <5>2. Offset(q) \in Nat /\ Offset(q) + 2 <= l /\ ByteAt(rest, Offset(q), p + m + 1)
          BY <3>6, <5>1
        <5>3. (q + R) % R = q % R /\ (q + R) \div R = q \div R + 1
          BY <1>1, <5>1, ShiftMod
        <5>4. m % R = q % R /\ m \div R = q \div R + 1
          BY <5>1, <5>3
        <5>5. Offset(m) = W + Offset(q)
          <6> DEFINE d == q \div R
                     e == q % R
          <6>1. d \in Int /\ e \in Int
            BY <1>1, <5>1
          <6>2. Offset(q) = (d * W) + (3 * e)
            BY DEF Offset, R, W
          <6>3. Offset(m) = ((d + 1) * W) + (3 * e)
            BY <5>4 DEF Offset, R, W
          <6> HIDE DEF d, e
          <6> QED
            BY <1>1, <6>1, <6>2, <6>3
        <5> DEFINE o == Offset(q)
        <5> HIDE DEF o
        <5>6. ByteAt(row \o rest, Len(row) + o, p + m + 1)
          BY <3>5, <3>6, <5>2, ByteAtJoin DEF o, l
        <5>7. ByteAt(txt, W + o, p + m + 1)
          BY <3>1, <3>5, <5>6
        <5>8. W + o \in Nat /\ W + o + 2 <= Len(txt)
          BY <1>1, <3>6, <3>7, <5>2 DEF o
        <5> QED
          BY <5>5, <5>7, <5>8 DEF o
      <4> QED
        BY <4>1, <4>2
    <3>11. RowsGood(txt, p, n)
      BY <3>7, <3>8, <3>9, <3>10 DEF RowsGood, W
    <3> QED
      BY <3>11 DEF G, txt
  <2> QED
    BY <2>1, <2>2
<1>3. Nat \subseteq G
  <2>1. rank \in [Nat -> Nat]
    OBVIOUS
  <2> HIDE DEF G, rank
  <2> QED
    BY <1>2, <2>1, Descend
<1> QED
  BY <1>3

\* app_debug_dump puts each byte where its row and column are.
LEMMA DumpIsRight ==
  ASSUME NEW n \in Nat
  PROVE  DumpRight(n, Dump(n)) /\ Len(Dump(n)) \in Nat
<1> DEFINE R == RowBytes
           W == RowWidth
           d == Digits(n, 10)
           head == <<"head">>
           bytes == <<"bytes">>
           hd == head \o d
           pre == hd \o bytes
           start == Len(Digits(n, 10)) + 2
           txt == Dump(n)
<1>1. PICK f : RowsOf(f, n) /\ txt = head \o d \o bytes \o f[0]
  BY RowsSteps DEF HasRows
<1> DEFINE rows == f[0]
           l == Len(rows)
<1>2. R \in Nat \ {0} /\ W \in Nat \ {0} /\ W = 4 * R + 2
  BY RowAssumption DEF RowWidth
<1>3. RowsGood(rows, 0, n)
  BY <1>1, RowsRight
<1>4. d \in Seq(Marks) /\ Len(d) \in Nat
  <2>1. d \in Seq(Figures) /\ Len(d) \in Nat
    BY DigitsEnd DEF Bases
  <2>2. Figures \subseteq Marks
    BY DEF Marks
  <2> HIDE DEF d
  <2> QED
    BY <2>1, <2>2, SameSeq
<1>5. head \in Seq(Marks) /\ Len(head) = 1 /\ bytes \in Seq(Marks) /\ Len(bytes) = 1
  <2>1. "head" \in Marks /\ "bytes" \in Marks
    BY DEF Marks
  <2> QED
    BY <2>1
<1>6. txt = pre \o rows
  BY <1>1
<1>7. start = Len(d) + 2
  OBVIOUS
<1> HIDE DEF d, head, bytes, rows, start, txt, W, R
<1>8. hd \in Seq(Marks) /\ Len(hd) = Len(d) + 1
  <2>1. hd \in Seq(Marks) /\ Len(hd) = Len(head) + Len(d)
    BY <1>4, <1>5, JoinRight
  <2> QED
    BY <1>4, <1>5, <2>1
<1> HIDE DEF hd
<1>9. pre \in Seq(Marks) /\ Len(pre) = start /\ start \in Nat
  <2>1. pre \in Seq(Marks) /\ Len(pre) = Len(hd) + Len(bytes)
    BY <1>5, <1>8, JoinRight
  <2> QED
    BY <1>4, <1>5, <1>7, <1>8, <2>1
<1> HIDE DEF pre
<1>10. /\ rows \in Seq(Marks) /\ l % W = 0 /\ l \in Nat
       /\ \A i \in 1 .. l : rows[i] = "crlf" <=> i % W = 0
       /\ \A m \in Nat : 0 + m < n =>
            Offset(m) \in Nat /\ Offset(m) + 2 <= l /\ ByteAt(rows, Offset(m), 0 + m + 1)
  BY <1>3 DEF RowsGood, W
<1> HIDE DEF l
<1>11. Len(txt) = start + l /\ Len(txt) \in Nat /\ Len(txt) - start = l
  <2>1. Len(pre \o rows) = Len(pre) + Len(rows)
    BY <1>9, <1>10, JoinRight
  <2>2. Len(txt) = start + l
    BY <1>6, <1>9, <2>1 DEF l
  <2> QED
    BY <1>9, <1>10, <2>2
<1>12. (Len(txt) - start) % W = 0
  BY <1>10, <1>11
<1>13. ASSUME NEW k \in 1 .. n
       PROVE  LET c == start + ((k - 1) \div R) * W + 3 * ((k - 1) % R)
              IN 16 * Worth(txt[c + 1]) + Worth(txt[c + 2]) = Byte(k)
  <2> DEFINE m == k - 1
             o == Offset(m)
  <2>1. m \in Nat /\ 0 + m < n /\ 0 + m + 1 = k
    OBVIOUS
  <2>2. m \div R \in Int /\ m % R \in Int
    BY <1>2, <2>1
  <2>3. start + (m \div R) * W + 3 * (m % R) = start + o
    <3> DEFINE a == (m \div R) * W
               b == 3 * (m % R)
    <3>1. o = a + b
      BY DEF Offset, R, W
    <3>2. a \in Int /\ b \in Int
      BY <1>2, <2>2
    <3>3. start + a + b = start + (a + b)
      <4> HIDE DEF a, b
      <4> QED
        BY <1>9, <3>2
    <3> HIDE DEF o
    <3> QED
      BY <3>1, <3>3
  <2> HIDE DEF m
  <2>4. o \in Nat /\ o + 2 <= l /\ ByteAt(rows, o, k)
    BY <1>10, <2>1
  <2> HIDE DEF o
  <2>5. ByteAt(pre \o rows, Len(pre) + o, k)
    BY <1>9, <1>10, <2>4, ByteAtJoin DEF l
  <2>6. ByteAt(txt, start + o, k)
    BY <1>6, <1>9, <2>5
  <2> DEFINE c == start + (m \div R) * W + 3 * (m % R)
  <2>7. ByteAt(txt, c, k)
    BY <2>3, <2>6
  <2> HIDE DEF c
  <2>8. 16 * Worth(txt[c + 1]) + Worth(txt[c + 2]) = Byte(k)
    BY <2>7 DEF ByteAt
  <2> QED
    BY <2>8 DEF c, m
<1>14. ASSUME NEW i \in start + 1 .. Len(txt) PROVE txt[i] = "crlf" <=> (i - start) % W = 0
  <2> DEFINE j == i - start
  <2>1. j \in 1 .. l /\ start + j = i
    BY <1>9, <1>10, <1>11
  <2> HIDE DEF j
  <2>2. txt[start + j] = rows[j]
    <3>1. \A m \in 1 .. Len(rows) : (pre \o rows)[Len(pre) + m] = rows[m]
      BY <1>9, <1>10, JoinRight
    <3> QED
      BY <1>6, <1>9, <2>1, <3>1 DEF l
  <2>3. txt[i] = "crlf" <=> j % W = 0
    BY <1>10, <2>1, <2>2
  <2> QED
    BY <2>3 DEF j
<1>15. DumpRight(n, txt)
  BY <1>12, <1>13, <1>14, Zenon DEF DumpRight, W, R, RowWidth, start
<1> QED
  BY <1>11, <1>15 DEF txt

-----------------------------------------------------------------------------
(* The interrupt service's texts. *)

\* A width of one digit is that digit.
LEMMA IsrWidthRight ==
  ASSUME NEW it \in IsrConversion, Len(it.width) <= 1
  PROVE  IsrWidth(it) \in 0 .. 9
<1> DEFINE l == Len(it.width)
           w(k) == it.width[k]
           D == 0 .. l
           Then(f, k) == IF k = 0 THEN 0 ELSE 11 * f[k - 1] + w(k)
           Is(f) == f = [k \in D |-> Then(f, k)]
           of == CHOOSE f : Is(f)
<1>1. l \in {0, 1} /\ \A k \in 1 .. l : w(k) \in 0 .. 9
  <2>1. it.width \in Seq(0 .. 9)
    BY DEF IsrConversion
  <2>2. \A s \in Seq(0 .. 9) : Len(s) \in Nat /\ \A k \in 1 .. Len(s) : s[k] \in 0 .. 9
    OBVIOUS
  <2>3. l \in Nat /\ l <= 1 /\ \A k \in 1 .. l : w(k) \in 0 .. 9
    BY <2>1, <2>2
  <2> HIDE DEF l, w
  <2> QED
    BY <2>3
<1> HIDE DEF l, w
<1>2. CASE l = 0
  <2> DEFINE g == [k \in D |-> 0]
  <2>1. D = {0}
    BY <1>2
  <2>2. Is(g)
    BY <2>1
  <2>3. Is(of)
    <3> HIDE DEF Is
    <3> QED
      BY <2>2
  <2>4. of[0] = 0
    BY <2>1, <2>3
  <2> HIDE DEF of
  <2>5. of[l] = 0
    BY <1>2, <2>4
  <2> QED
    BY <2>5 DEF IsrWidth, of, l, w
<1>3. CASE l = 1
  <2> DEFINE g == [k \in D |-> IF k = 0 THEN 0 ELSE w(1)]
  <2>1. D = {0, 1} /\ w(1) \in 0 .. 9
    BY <1>1, <1>3
  <2>2. Is(g)
    <3>1. g[0] = 0
      BY <2>1
    <3>2. ASSUME NEW k \in D PROVE Then(g, k) = IF k = 0 THEN 0 ELSE w(1)
      <4>1. CASE k = 0
        BY <4>1
      <4>2. CASE k = 1
        BY <2>1, <3>1, <4>2
      <4> QED
        BY <2>1, <4>1, <4>2
    <3> QED
      BY <3>2
  <2>3. Is(of)
    <3> HIDE DEF Is
    <3> QED
      BY <2>2
  <2> HIDE DEF of
  <2>4. of[0] = 0
    BY <2>1, <2>3
  <2>5. of[1] = w(1)
    BY <2>1, <2>3, <2>4
  <2>6. of[l] \in 0 .. 9
    BY <1>3, <2>1, <2>5
  <2> QED
    BY <2>6 DEF IsrWidth, of, l, w
<1> QED
  BY <1>1, <1>2, <1>3

\* A sign, or none, and digits behind padding.
PaddedDigits(txt, c, minus, v, base, size) ==
  LET body == (IF minus THEN <<"-">> ELSE <<>>) \o Digits(v, base)
  IN txt = Rep(c, Most(size - Len(body), 0)) \o body

\* The sign of custom_itoa_isr.
LEMMA MinusRight ==
  ASSUME NEW minus \in BOOLEAN, NEW sign, sign = IF minus THEN <<"-">> ELSE <<>>
  PROVE  sign \in Seq(Fill) /\ Len(sign) = (IF minus THEN 1 ELSE 0) /\ (Has(sign, "-") <=> minus)
<1>1. CASE minus
  <2>1. sign = <<"-">>
    BY <1>1
  <2>2. "-" \in Fill
    BY DEF Fill
  <2>3. ASSUME NEW e \in Fill PROVE <<e>> \in Seq(Fill) /\ Len(<<e>>) = 1 /\ <<e>>[1] = e
    OBVIOUS
  <2>4. Len(sign) = 1 /\ sign[1] = "-" /\ sign \in Seq(Fill)
    BY <2>1, <2>2, <2>3, Zenon
  <2> QED
    BY <1>1, <2>4 DEF Has
<1>2. CASE ~minus
  <2>1. sign = <<>>
    BY <1>2
  <2> QED
    BY <1>2, <2>1 DEF Has
<1> QED
  BY <1>1, <1>2

\* Padding, a minus or none, and digits: a number that reads back.
LEMMA IsrNumber ==
  ASSUME NEW c \in Fill, c # "-", NEW minus \in BOOLEAN, NEW v \in Nat, NEW base \in Bases,
         NEW size \in Int, NEW txt,
         PaddedDigits(txt, c, minus, v, base, size)
  PROVE  /\ Denotes(txt, base) = v
         /\ Has(txt, "-") <=> minus
         /\ Len(txt) = Most((IF minus THEN 1 ELSE 0) + Len(Digits(v, base)), size)
<1> DEFINE d == Digits(v, base)
           sign == IF minus THEN <<"-">> ELSE <<>>
           body == sign \o d
           k == Most(size - Len(body), 0)
           pad == Rep(c, k)
           pre == pad \o sign
           S == Fill \cup Figures
<1>1. txt = pad \o body
  BY DEF PaddedDigits
<1>2. d \in Seq(Figures) /\ Len(d) \in Nat /\ ~Has(d, "-")
  <2>1. d \in Seq(Figures) /\ Len(d) \in Nat
    BY DigitsEnd
  <2>2. "-" \notin Figures
    BY DEF Figures
  <2>3. \A i \in 1 .. Len(d) : d[i] \in Figures
    BY <2>1
  <2> HIDE DEF d
  <2>4. ~Has(d, "-")
    BY <2>2, <2>3 DEF Has
  <2> QED
    BY <2>1, <2>4
<1>3. sign \in Seq(Fill) /\ Len(sign) = (IF minus THEN 1 ELSE 0) /\ (Has(sign, "-") <=> minus)
  <2> HIDE DEF d
  <2> QED
    BY MinusRight
<1> HIDE DEF d, sign
<1>4. Seq(Fill) \subseteq Seq(S) /\ Seq(Figures) \subseteq Seq(S)
  <2>1. Fill \subseteq S /\ Figures \subseteq S
    OBVIOUS
  <2> HIDE DEF S
  <2> QED
    BY <2>1, SameSeq
<1> HIDE DEF S
<1>5. body \in Seq(S) /\ Len(body) = Len(sign) + Len(d) /\ (Has(body, "-") <=> minus)
  <2>0. sign \in Seq(S) /\ d \in Seq(S)
    BY <1>2, <1>3, <1>4
  <2>1. Has(body, "-") <=> Has(sign, "-") \/ Has(d, "-")
    BY <2>0, JoinRight
  <2>2. body \in Seq(S) /\ Len(body) = Len(sign) + Len(d)
    BY <2>0, JoinRight
  <2>3. Has(body, "-") <=> minus
    BY <1>2, <1>3, <2>1, Zenon
  <2> QED
    BY <2>2, <2>3
<1> HIDE DEF body
<1>6. k \in Nat /\ Len(body) \in Nat /\ Len(sign) \in Nat
  <2>1. Len(body) \in Nat /\ Len(sign) \in Nat
    BY <1>3, <1>5
  <2> QED
    BY <2>1 DEF Most
<1>7. k + Len(body) = Most(Len(body), size)
  BY <1>6 DEF Most
<1> HIDE DEF k
<1>8. pad \in Seq(Fill) /\ Len(pad) = k /\ ~Has(pad, "-")
  <2>1. k \in Int /\ Most(k, 0) = k
    BY <1>6 DEF Most
  <2> QED
    BY <2>1, PaddingRight
<1> HIDE DEF pad
<1>9. Len(txt) = Most(Len(body), size) /\ (Has(txt, "-") <=> minus)
  <2>0. pad \in Seq(S)
    BY <1>4, <1>8
  <2>a. Has(pad \o body, "-") <=> Has(pad, "-") \/ Has(body, "-")
    BY <1>5, <2>0, JoinRight
  <2>1. Has(txt, "-") <=> Has(pad, "-") \/ Has(body, "-")
    BY <1>1, <2>a, Zenon
  <2>2. Len(txt) = Len(pad) + Len(body)
    BY <1>1, <1>5, <2>0, JoinRight
  <2>3. Has(txt, "-") <=> minus
    BY <1>5, <1>8, <2>1, Zenon
  <2>4. Len(txt) = Most(Len(body), size)
    BY <1>7, <1>8, <2>2
  <2> QED
    BY <2>3, <2>4
<1>10. Denotes(txt, base) = v
  <2>1. pre \in Seq(Fill)
    BY <1>3, <1>8, JoinRight
  <2>2. pad \in Seq(S) /\ sign \in Seq(S) /\ d \in Seq(S)
    BY <1>2, <1>3, <1>4, <1>8
  <2>3. (pad \o sign) \o d = pad \o (sign \o d)
    BY <2>2, ConcatAssociative
  <2>4. txt = pre \o d
    BY <1>1, <2>3 DEF body
  <2> HIDE DEF pre
  <2> QED
    BY <2>1, <2>4, DenotesRight DEF d
<1>11. Len(body) = (IF minus THEN 1 ELSE 0) + Len(d)
  BY <1>3, <1>5
<1> QED
  BY <1>9, <1>10, <1>11 DEF d

\* custom_itoa_isr puts a number that reads back, of the width asked for, when
\* the number and the width are not longer than s.
LEMMA IsrIsRight ==
  ASSUME NEW it \in IsrConversion, NEW txt \in IsrConverted(it)
  PROVE  IsrRight(it, txt)
<1> DEFINE L == {"u", "d", "x", "X", "b"}
           radix == Radix(it.conv)
           b == Magnitude(radix)
           val == Signed(it.arg, IntBits)
           n == IF it.conv = "d" THEN val ELSE Unsigned(it.arg, IntBits)
           need == (IF n < 0 THEN 1 ELSE 0) + DigitsNeeded(Magnitude(n), b)
<1> SUFFICES ASSUME it.conv \in L, Len(it.width) <= 1, Most(need, IsrWidth(it)) <= ItoaBytes
             PROVE  IsrRight(it, txt)
  BY DEF IsrRight
<1> DEFINE neg == radix < 0 /\ val < 0
           w == IsrWidth(it)
           v == IF neg THEN -val ELSE Unsigned(val, IntBits)
           c == IF it.zero THEN "0" ELSE " "
           body == (IF neg THEN <<"-">> ELSE <<>>) \o Digits(v, b)
           p == Power(2, IntBits)
           h == Power(2, IntBits - 1)
<1>1. w \in 0 .. 9
  BY IsrWidthRight
<1>2. radix \in {10, -10, 16, 2} /\ (radix < 0 <=> it.conv = "d")
  BY DEF Radix
<1>3. b \in Bases /\ b = Most(radix, -radix)
  <2> HIDE DEF radix
  <2> QED
    BY <1>2 DEF Magnitude, Most, Bases
<1>4. txt \in custom_itoa_isr(val, radix, w, it.zero)
  <2>1. it.conv # "plain" /\ it.conv # "c" /\ it.conv # "%" /\ it.conv # "s"
    OBVIOUS
  <2> QED
    BY <2>1, ZenonT(30) DEF IsrConverted
<1>6. /\ IntBits \in Nat \ {0} /\ it.arg \in Int /\ p = 2 * h /\ h \in Nat \ {0}
      /\ val \in -h .. h - 1 /\ Unsigned(val, IntBits) = Unsigned(it.arg, IntBits)
      /\ Unsigned(it.arg, IntBits) \in 0 .. p - 1
      /\ val \in 0 .. p - 1 => Unsigned(val, IntBits) = val
  <2>1. IntBits \in Nat \ {0} /\ it.arg \in Int
    BY BitsAssumption DEF IsrConversion
  <2>2. /\ p = 2 * h /\ h \in Nat \ {0} /\ val \in -h .. h - 1
        /\ Unsigned(val, IntBits) = Unsigned(it.arg, IntBits)
    BY <2>1, SignedRight
  <2>3. Unsigned(it.arg, IntBits) \in 0 .. p - 1
    BY <2>1, UnsignedRight
  <2>4. val \in 0 .. p - 1 => Unsigned(val, IntBits) = val
    <3>1. val \in Int
      BY <2>2
    <3> HIDE DEF val, p
    <3> QED
      BY <2>1, <3>1, UnsignedRight DEF p
  <2> QED
    BY <2>1, <2>2, <2>3, <2>4
<1>7. v = Magnitude(n) /\ v \in 0 .. p - 1 /\ (neg <=> n < 0)
  <2> DEFINE u == Unsigned(it.arg, IntBits)
             uv == Unsigned(val, IntBits)
  <2>1. CASE it.conv = "d"
    <3>1. radix < 0 /\ n = val
      BY <1>2, <2>1
    <3>2. neg <=> val < 0
      BY <3>1
    <3>6. v = IF val < 0 THEN -val ELSE uv
      BY <3>1
    <3>3. h \in Nat \ {0} /\ p = 2 * h /\ val \in -h .. h - 1 /\ (val \in 0 .. p - 1 => uv = val)
      BY <1>6
    <3> HIDE DEF val, h, p, uv, n, neg, v
    <3>4. v = Magnitude(n) /\ v \in 0 .. p - 1
      <4>1. CASE val < 0
        <5>1. v = -val
          BY <3>6, <4>1
        <5>2. Most(val, -val) = -val /\ -val \in 0 .. p - 1
          BY <3>3, <4>1 DEF Most
        <5> QED
          BY <3>1, <5>1, <5>2 DEF Magnitude
      <4>2. CASE ~(val < 0)
        <5>1. v = uv
          BY <3>6, <4>2
        <5>2. val \in 0 .. p - 1 /\ Most(val, -val) = val
          BY <3>3, <4>2 DEF Most
        <5> QED
          BY <3>1, <3>3, <5>1, <5>2 DEF Magnitude
      <4> QED
        BY <4>1, <4>2
    <3>5. neg <=> n < 0
      BY <3>1, <3>2, Zenon
    <3> QED
      BY <3>4, <3>5
  <2>2. CASE it.conv # "d"
    <3>1. ~neg /\ n = u
      BY <1>2, <2>2
    <3>2. v = uv
      BY <3>1
    <3>3. uv = u /\ u \in 0 .. p - 1 /\ p \in Nat
      BY <1>6
    <3> HIDE DEF val, h, p, u, uv, n, neg, v
    <3>4. v = Magnitude(n) /\ v \in 0 .. p - 1
      BY <3>1, <3>2, <3>3 DEF Magnitude, Most
    <3>5. ~(n < 0)
      BY <3>1, <3>3
    <3> QED
      BY <3>1, <3>4, <3>5, Zenon
  <2> QED
    BY <2>1, <2>2
<1>8. v \in Nat /\ v \in 0 .. Power(2, LongBits) - 1
  <2> DEFINE q == Power(2, LongBits)
  <2>1. p <= q /\ q \in Nat /\ p \in Nat
    <3>1. IntBits \in 0 .. LongBits /\ LongBits \in Nat /\ IntBits \in Nat /\ 2 \in Bases
      BY BitsAssumption DEF Bases
    <3> QED
      BY <3>1, PowerGrows, PowerRight
  <2> HIDE DEF p, q, v
  <2>2. v \in Nat /\ v \in 0 .. q - 1
    BY <1>7, <2>1
  <2> QED
    BY <2>2 DEF q
<1>9. Len(Digits(v, b)) = DigitsNeeded(Magnitude(n), b)
  <2> HIDE DEF v, b, n
  <2>1. DigitsNeeded(v, b) = Len(Digits(v, b))
    BY <1>3, <1>8, DigitsNeededRight
  <2> QED
    BY <1>7, <2>1
<1>10. c \in Fill /\ c # "-" /\ neg \in BOOLEAN /\ w \in Int
  <2>1. CASE it.zero
    BY <1>1, <2>1 DEF Fill
  <2>2. CASE ~it.zero
    BY <1>1, <2>2 DEF Fill
  <2> QED
    BY <2>1, <2>2
<1>15. need \in Int /\ need <= ItoaBytes /\ w <= ItoaBytes /\ ItoaBytes \in Nat
       /\ need = (IF neg THEN 1 ELSE 0) + Len(Digits(v, b))
  <2>1. need = (IF neg THEN 1 ELSE 0) + Len(Digits(v, b))
    <3> HIDE DEF n, neg, v, b
    <3> QED
      BY <1>7, <1>9, Zenon
  <2>2. Len(Digits(v, b)) \in Nat
    BY <1>3, <1>8, DigitsEnd
  <2>3. Most(need, w) <= ItoaBytes
    OBVIOUS
  <2> HIDE DEF neg, v, b, need, w
  <2>4. need \in Int /\ w \in Int /\ ItoaBytes \in Nat
    BY <1>1, <2>1, <2>2, ItoaAssumption
  <2> QED
    BY <2>1, <2>3, <2>4 DEF Most
<1>16. Len(body) = need
  <2> DEFINE d == Digits(v, b)
             sign == IF neg THEN <<"-">> ELSE <<>>
             S == Fill \cup Figures
  <2>1. d \in Seq(Figures) /\ Len(d) \in Nat
    BY <1>3, <1>8, DigitsEnd
  <2>2. sign \in Seq(Fill) /\ Len(sign) = IF neg THEN 1 ELSE 0
    <3>1. neg \in BOOLEAN /\ sign = IF neg THEN <<"-">> ELSE <<>>
      BY <1>10
    <3> HIDE DEF neg, sign
    <3> QED
      BY <3>1, MinusRight
  <2>3. Seq(Fill) \subseteq Seq(S) /\ Seq(Figures) \subseteq Seq(S)
    <3>1. Fill \subseteq S /\ Figures \subseteq S
      OBVIOUS
    <3> HIDE DEF S
    <3> QED
      BY <3>1, SameSeq
  <2>4. body = sign \o d
    OBVIOUS
  <2> HIDE DEF d, sign, S, body, need, neg, v, b
  <2>5. Len(sign \o d) = Len(sign) + Len(d)
    BY <2>1, <2>2, <2>3, ConcatProperties
  <2> QED
    BY <1>15, <2>2, <2>4, <2>5 DEF d
<1>5. txt = Rep(c, Most(w - Len(body), 0)) \o body
  <2> DEFINE all == Rep(c, Most(w - Len(body), 0)) \o body
  <2>1. ~(w > ItoaBytes) /\ ~(Len(body) > ItoaBytes)
    <3> HIDE DEF w, body, need
    <3>1. need \in Int /\ ItoaBytes \in Nat /\ need <= ItoaBytes /\ w <= ItoaBytes /\ w \in Int
      BY <1>10, <1>15
    <3> QED
      BY <1>16, <3>1
  <2>2. custom_itoa_isr(val, radix, w, it.zero) =
          IF w > ItoaBytes THEN {<<>>}
          ELSE {all} \cup (IF Len(body) > ItoaBytes THEN {<<>>, <<"junk">>} ELSE {})
    <3> HIDE DEF w, val, radix, b
    <3> QED
      BY <1>3, Zenon DEF custom_itoa_isr
  <2> HIDE DEF all, w, body, val, radix
  <2>3. txt \in {all} \cup {}
    BY <1>4, <2>1, <2>2, Zenon
  <2> QED
    BY <2>3 DEF all
<1> HIDE DEF body
<1>14. PaddedDigits(txt, c, neg, v, b, w)
  <2> HIDE DEF c, v, b, w, neg
  <2> QED
    BY <1>5, Zenon DEF PaddedDigits, body
<1> HIDE DEF c, v, b, n, w, neg
<1>11. /\ Denotes(txt, b) = v /\ (Has(txt, "-") <=> neg)
       /\ Len(txt) = Most((IF neg THEN 1 ELSE 0) + Len(Digits(v, b)), w)
  <2>0. b \in Bases /\ v \in Nat /\ w \in Int /\ c \in Fill /\ c # "-" /\ neg \in BOOLEAN
    BY <1>3, <1>8, <1>10
  <2>1. Denotes(txt, b) = v
    BY <2>0, <1>14, IsrNumber
  <2>2. Len(txt) = Most((IF neg THEN 1 ELSE 0) + Len(Digits(v, b)), w)
    BY <2>0, <1>14, IsrNumber
  <2>3. Has(txt, "-") <=> neg
    BY <2>0, <1>14, IsrNumber
  <2> QED
    BY <2>1, <2>2, <2>3
<1>12. Len(txt) = Most((IF n < 0 THEN 1 ELSE 0) + DigitsNeeded(Magnitude(n), b), w)
  BY <1>7, <1>9, <1>11, Zenon
<1>13. Denotes(txt, b) = Magnitude(n) /\ ((\E i \in 1 .. Len(txt) : txt[i] = "-") <=> n < 0)
  BY <1>7, <1>11, Zenon DEF Has
<1> QED
  BY <1>12, <1>13, Zenon DEF IsrRight, b, n, w

-----------------------------------------------------------------------------
(* Every variable, and every text. *)

MoreTypes ==
  /\ m_lock_cb \in BOOLEAN /\ taken \in [Thread -> Serials]
  /\ ahead \in [Port -> {0, 1}] /\ members \subseteq Port /\ isrPos \in Nat

Edits == {"register", "unregister"}

\* There is room for every callback that waits to be registered, and a callback
\* for every one that waits to be taken away, in whatever order they come.
CountInv ==
  /\ number_of_callback \in 0 .. NumPorts
  /\ number_of_callback + Cardinality(Pending("register")) <= NumPorts
  /\ Cardinality(Pending("unregister")) <= number_of_callback
  /\ \A t \in Thread : at[t] = "put" => op[t] \notin Edits

\* A text is what its item calls for as long as it is being put.
TextOf(t) ==
  /\ Len(text[t]) \in Nat /\ pos[t] \in 1 .. Len(text[t]) + 1
  /\ RawRight(item[t], text[t])

TextInv ==
  /\ prog \in Programs /\ DOMAIN item = Thread
  /\ \A t \in Thread : TextOf(t)
  /\ IsrRight(isrItem, isrText)

LogInv == FlushInv /\ MoreTypes /\ CountInv /\ TextInv

\* Before, between and after conversions there is nothing to be wrong.
LEMMA NothingRight ==
  /\ RawRight(NoItem, <<>>) /\ RawRight(Plain, <<"s">>) /\ IsrRight(NoIsrItem, <<>>)
  /\ Len(<<>>) = 0 /\ Len(<<"s">>) = 1
<1>1. NoItem.conv = "none" /\ Plain.conv = "plain" /\ NoIsrItem.conv = "none"
  BY DEF NoItem, Plain, NoIsrItem, IsrPlain
<1>2. RawRight(NoItem, <<>>) /\ RawRight(Plain, <<"s">>)
  BY <1>1 DEF RawRight, Integral
<1>3. IsrRight(NoIsrItem, <<>>)
  BY <1>1 DEF IsrRight
<1> QED
  BY <1>2, <1>3

\* A dump as the item of a thread.
LEMMA DumpItemRight ==
  ASSUME NEW n \in Nat
  PROVE  RawRight([Plain EXCEPT !.conv = "dump", !.arg = n], Dump(n)) /\ Len(Dump(n)) \in Nat
<1> DEFINE it == [Plain EXCEPT !.conv = "dump", !.arg = n]
<1>1. it.conv = "dump" /\ it.arg = n
  BY DEF Plain
<1>2. DumpRight(n, Dump(n)) /\ Len(Dump(n)) \in Nat
  BY DumpIsRight
<1>3. "dump" \notin Integral /\ "dump" \notin {"c", "s"}
  BY DEF Integral
<1> HIDE DEF it
<1>4. RawRight(it, Dump(n))
  BY <1>1, <1>2, <1>3, Zenon DEF RawRight
<1> QED
  BY <1>2, <1>4 DEF it

\* It holds before anything is printed.
LEMMA InitLog == Init => LogInv
<1> SUFFICES ASSUME Init PROVE LogInv
  OBVIOUS
<1>1. FlushInv
  BY InitFlush
<1>2. MoreTypes
  <2>1. 0 \in Serials
    BY CapAssumption DEF Serials
  <2>2. taken \in [Thread -> Serials] /\ ahead \in [Port -> {0, 1}]
    BY <2>1 DEF Init
  <2>3. m_lock_cb \in BOOLEAN /\ members \subseteq Port /\ isrPos \in Nat
    BY DEF Init
  <2> QED
    BY <2>2, <2>3 DEF MoreTypes
<1>3. CountInv
  <2>1. Pending("register") = {} /\ Pending("unregister") = {}
    BY DEF Init, Pending
  <2>2. number_of_callback = 0 /\ \A t \in Thread : at[t] = "idle"
    BY DEF Init
  <2> QED
    BY <2>1, <2>2, CapAssumption, FS_EmptySet DEF CountInv
<1>4. TextInv
  <2>1. ASSUME NEW t \in Thread PROVE TextOf(t)
    <3>1. item[t] = NoItem /\ text[t] = <<>> /\ pos[t] = 1
      BY DEF Init
    <3>2. Len(<<>>) \in Nat /\ 1 \in 1 .. Len(<<>>) + 1
      BY NothingRight
    <3> QED
      BY <3>1, <3>2, NothingRight, Zenon DEF TextOf
  <2>2. IsrRight(isrItem, isrText)
    BY NothingRight, Zenon DEF Init
  <2>3. prog \in Programs /\ DOMAIN item = Thread
    BY DEF Init
  <2> QED
    BY <2>1, <2>2, <2>3 DEF TextInv
<1> QED
  BY <1>1, <1>2, <1>3, <1>4 DEF LogInv

\* A new text.
LEMMA NewText ==
  ASSUME TextInv, PutTypes, NEW u \in Thread, NEW it, NEW chars, Puts(u, it, chars),
         RawRight(it, chars), Len(chars) \in Nat
  PROVE  TextInv'
<1>1. /\ prog' = prog /\ UNCHANGED <<isrItem, isrText>>
      /\ item' = [item EXCEPT ![u] = it] /\ text' = [text EXCEPT ![u] = chars]
      /\ pos' = [pos EXCEPT ![u] = 1]
  BY DEF Puts, isrVars
<1>2. ASSUME NEW t \in Thread PROVE TextOf(t)'
  <2>0. TextOf(t)
    BY DEF TextInv
  <2>1. CASE t = u
    <3>1. item'[t] = it /\ text'[t] = chars /\ pos'[t] = 1
      BY <1>1, <2>1 DEF TextInv, PutTypes
    <3>2. 1 \in 1 .. Len(chars) + 1
      OBVIOUS
    <3> QED
      BY <3>1, <3>2, Zenon DEF TextOf
  <2>2. CASE t # u
    <3>1. item'[t] = item[t] /\ text'[t] = text[t] /\ pos'[t] = pos[t]
      BY <1>1, <2>2 DEF TextInv, PutTypes
    <3> QED
      BY <2>0, <3>1, Zenon DEF TextOf
  <2> QED
    BY <2>1, <2>2
<1>3. DOMAIN item' = Thread
  BY <1>1 DEF TextInv
<1>4. IsrRight(isrItem, isrText)'
  BY <1>1, Zenon DEF TextInv
<1> QED
  BY <1>1, <1>2, <1>3, <1>4 DEF TextInv

\* Texts stay right: each is converted once, and put character by character.
LEMMA TextStep == TextInv /\ PutTypes /\ [Next]_vars => TextInv'
<1> SUFFICES ASSUME TextInv, PutTypes, [Next]_vars PROVE TextInv'
  OBVIOUS
<1>0. /\ prog.raw \subseteq Conversion /\ prog.dump \subseteq Nat
      /\ prog.isr \subseteq IsrConversion
  BY ProgramAssumption DEF TextInv
<1>U. ASSUME UNCHANGED <<prog, item, text, pos, isrItem, isrText>> PROVE TextInv'
  <2>1. \A t \in Thread : TextOf(t)'
    BY <1>U, Zenon DEF TextInv, TextOf
  <2> QED
    BY <1>U, <2>1, Zenon DEF TextInv
<1>1. ASSUME NEW u \in Thread, Convert(u) PROVE TextInv'
  <2>1. PICK it \in prog.raw : Puts(u, it, Converted(it))
    BY <1>1 DEF Convert
  <2>2. RawRight(it, Converted(it)) /\ Len(Converted(it)) \in Nat
    BY <1>0, RawIsRight
  <2> QED
    BY <2>1, <2>2, NewText
<1>2. ASSUME NEW u \in Thread, StartDump(u) PROVE TextInv'
  <2>1. PICK n \in prog.dump : Puts(u, [Plain EXCEPT !.conv = "dump", !.arg = n], Dump(n))
    BY <1>2 DEF StartDump
  <2>2. RawRight([Plain EXCEPT !.conv = "dump", !.arg = n], Dump(n)) /\ Len(Dump(n)) \in Nat
    BY <1>0, DumpItemRight
  <2> QED
    BY <2>1, <2>2, NewText
<1>3. ASSUME NEW u \in Thread, Pop(u) PROVE TextInv'
  <2>1. Puts(u, Plain, <<"s">>)
    BY <1>3 DEF Pop
  <2>2. RawRight(Plain, <<"s">>) /\ Len(<<"s">>) \in Nat
    BY NothingRight
  <2> QED
    BY <2>1, <2>2, NewText
<1>4. ASSUME NEW u \in Thread, NextByte(u) PROVE TextInv'
  <2>1. /\ pos' = [pos EXCEPT ![u] = @ + 1] /\ UNCHANGED <<prog, item, text, isrItem, isrText>>
        /\ pos[u] <= Len(text[u])
    BY <1>4 DEF NextByte, MoreText, isrVars
  <2>2. ASSUME NEW t \in Thread PROVE TextOf(t)'
    <3>1. TextOf(t)
      BY DEF TextInv
    <3>2. text'[t] = text[t] /\ item'[t] = item[t]
      BY <2>1
    <3>3. pos'[t] \in 1 .. Len(text[t]) + 1
      <4>1. pos'[t] = IF t = u THEN pos[t] + 1 ELSE pos[t]
        BY <2>1 DEF PutTypes
      <4> QED
        BY <2>1, <3>1, <4>1 DEF TextOf
    <3> QED
      BY <3>1, <3>2, <3>3, Zenon DEF TextOf
  <2>3. prog' \in Programs /\ DOMAIN item' = Thread /\ IsrRight(isrItem, isrText)'
    BY <2>1, Zenon DEF TextInv
  <2> QED
    BY <2>2, <2>3 DEF TextInv
<1>5. ASSUME NEW u \in Thread, PutEnd(u) PROVE TextInv'
  <2>1. /\ item' = [item EXCEPT ![u] = NoItem] /\ text' = [text EXCEPT ![u] = <<>>]
        /\ pos' = [pos EXCEPT ![u] = 1] /\ UNCHANGED <<prog, isrItem, isrText>>
    BY <1>5 DEF PutEnd, isrVars
  <2>2. ASSUME NEW t \in Thread PROVE TextOf(t)'
    <3>0. TextOf(t)
      BY DEF TextInv
    <3>1. CASE t = u
      <4>1. item'[t] = NoItem /\ text'[t] = <<>> /\ pos'[t] = 1
        BY <2>1, <3>1 DEF TextInv, PutTypes
      <4>2. Len(<<>>) \in Nat /\ 1 \in 1 .. Len(<<>>) + 1
        BY NothingRight
      <4> QED
        BY <4>1, <4>2, NothingRight, Zenon DEF TextOf
    <3>2. CASE t # u
      <4>1. item'[t] = item[t] /\ text'[t] = text[t] /\ pos'[t] = pos[t]
        BY <2>1, <3>2 DEF TextInv, PutTypes
      <4> QED
        BY <3>0, <4>1, Zenon DEF TextOf
    <3> QED
      BY <3>1, <3>2
  <2>3. prog' \in Programs /\ DOMAIN item' = Thread /\ IsrRight(isrItem, isrText)'
    BY <2>1 DEF TextInv
  <2> QED
    BY <2>2, <2>3 DEF TextInv
<1>6. ASSUME IsrConvert PROVE TextInv'
  <2>1. PICK it \in prog.isr : isrItem' = it /\ isrText' \in IsrConverted(it)
    BY <1>6 DEF IsrConvert
  <2>2. IsrRight(isrItem', isrText')
    BY <1>0, <2>1, IsrIsRight
  <2>3. UNCHANGED <<prog, item, text, pos>>
    BY <1>6 DEF IsrConvert, threadVars
  <2>4. \A t \in Thread : TextOf(t)'
    BY <2>3, Zenon DEF TextInv, TextOf
  <2> QED
    BY <2>2, <2>3, <2>4, Zenon DEF TextInv
<1>7. ASSUME IsrPutEnd PROVE TextInv'
  <2>1. isrItem' = NoIsrItem /\ isrText' = <<>> /\ UNCHANGED <<prog, item, text, pos>>
    BY <1>7 DEF IsrPutEnd, threadVars
  <2>2. IsrRight(isrItem', isrText')
    BY <2>1, NothingRight
  <2>3. \A t \in Thread : TextOf(t)'
    BY <2>1, Zenon DEF TextInv, TextOf
  <2> QED
    BY <2>1, <2>2, <2>3, Zenon DEF TextInv
<1>8. ASSUME NEW u \in Thread, \/ Call(u) \/ Lock(u) \/ Unlock(u) \/ EndOfFormat(u) \/ Flush(u)
                               \/ FlushEnd(u) \/ Register(u) \/ Unregister(u) \/ PutByte(u)
      PROVE  TextInv'
  BY <1>8, <1>U DEF Call, Lock, Unlock, EndOfFormat, Flush, FlushEnd, Register, Unregister,
                    PutByte, isrVars
<1>9. ASSUME \/ \E p \in Port : RegisterFirst(p)
             \/ app_debug_init \/ IsrPut \/ UNCHANGED vars
      PROVE  TextInv'
  BY <1>9, <1>U DEF RegisterFirst, app_debug_init, IsrPut, vars, threadVars, isrVars
<1> QED
  BY <1>1, <1>2, <1>3, <1>4, <1>5, <1>6, <1>7, <1>8, <1>9 DEF Next, ThreadStep, Isr

\* The threads are finitely many, and so are those that wait.
LEMMA PendingFinite ==
  ASSUME NEW o
  PROVE  IsFiniteSet(Pending(o)) /\ Cardinality(Pending(o)) \in Nat
<1>1. Pending(o) \in SUBSET Thread
  BY DEF Pending
<1>2. IsFiniteSet(Pending(o))
  BY <1>1, ThreadAssumption, FS_Subset
<1> QED
  BY <1>2, FS_CardinalityType

\* The counter and the threads that change it, one action at a time.
LEMMA CountStep == FlushInv /\ CountInv /\ [Next]_vars => CountInv'
<1> SUFFICES ASSUME FlushInv, CountInv, [Next]_vars PROVE CountInv'
  OBVIOUS
<1>0. /\ number_of_callback \in Nat /\ NumPorts \in Nat /\ 1 <= NumPorts
      /\ number_of_callback <= NumPorts
  BY CapAssumption DEF CountInv
<1>T. /\ at \in [Thread -> {"idle", "lock", "pop", "put", "unlock"} \cup Ops]
      /\ op \in [Thread -> Ops]
  BY DEF FlushInv, IInv, Types
<1>C. \A t \in Thread : at[t] \in Ops => op[t] = at[t]
  BY DEF FlushInv, CallInv, CallRight
<1>P. \A t \in Thread : at[t] = "put" => op[t] \notin Edits
  BY DEF CountInv
<1>F. \A o \in Edits : IsFiniteSet(Pending(o)) /\ Cardinality(Pending(o)) \in Nat
  BY PendingFinite
\* No thread begins to wait.
<1>S. ASSUME \A o \in Edits : Pending(o)' \subseteq Pending(o),
             \A t \in Thread : at'[t] = "put" => op'[t] \notin Edits,
             number_of_callback' = number_of_callback
      PROVE  CountInv'
  <2>1. ASSUME NEW o \in Edits
        PROVE  /\ Cardinality(Pending(o)') \in Nat
               /\ Cardinality(Pending(o)') <= Cardinality(Pending(o))
    <3>1. Pending(o)' \in SUBSET Pending(o)
      BY <1>S
    <3>2. IsFiniteSet(Pending(o)') /\ Cardinality(Pending(o)') <= Cardinality(Pending(o))
      BY <1>F, <3>1, FS_Subset
    <3> QED
      BY <3>2, FS_CardinalityType
  <2>2. /\ Cardinality(Pending("register")') \in Nat
        /\ Cardinality(Pending("register")') <= Cardinality(Pending("register"))
        /\ Cardinality(Pending("unregister")') \in Nat
        /\ Cardinality(Pending("unregister")') <= Cardinality(Pending("unregister"))
        /\ Cardinality(Pending("register")) \in Nat
        /\ Cardinality(Pending("unregister")) \in Nat
    BY <1>F, <2>1 DEF Edits
  <2> QED
    BY <1>0, <1>S, <2>2 DEF CountInv
\* A thread that moves on, and does not wait for the lock.
<1>M. ASSUME NEW u \in Thread, NEW l, Goto(u, l), UNCHANGED <<op, number_of_callback>>,
             l = "put" => op[u] \notin Edits,
             l \in Edits => at[u] = "lock",
             l # "lock"
      PROVE  CountInv'
  <2>1. \A t \in Thread : at'[t] = IF t = u THEN l ELSE at[t]
    BY <1>M, <1>T DEF Goto
  <2>2. ASSUME NEW o \in Edits, NEW t \in Pending(o)' PROVE t \in Pending(o)
    <3>1. t \in Thread /\ op[t] = o /\ at'[t] \in {"lock", o}
      BY <1>M, <2>2 DEF Pending
    <3>2. at[t] \in {"lock", o}
      BY <1>M, <2>1, <3>1
    <3> QED
      BY <3>1, <3>2 DEF Pending
  <2>3. \A t \in Thread : at'[t] = "put" => op'[t] \notin Edits
    BY <1>M, <1>P, <2>1
  <2> QED
    BY <1>M, <1>S, <2>2, <2>3
<1>1. ASSUME NEW p \in Port, RegisterFirst(p) PROVE CountInv'
  <2>1. number_of_callback' \in {0, 1}
    BY <1>1 DEF RegisterFirst, Install, tableVars
  <2>2. \A t \in Thread : at'[t] = "idle"
    BY <1>1 DEF RegisterFirst, threadVars, FlushInv, IInv, LockInv
  <2>3. Pending("register")' = {} /\ Pending("unregister")' = {}
    BY <2>2 DEF Pending
  <2>4. Cardinality(Pending("register")') = 0 /\ Cardinality(Pending("unregister")') = 0
    BY <2>3, FS_EmptySet
  <2> QED
    BY <1>0, <2>1, <2>2, <2>4 DEF CountInv
<1>2. ASSUME NEW u \in Thread, Call(u) PROVE CountInv'
  <2>1. PICK o \in Ops : Defined(o) /\ op' = [op EXCEPT ![u] = o]
    BY <1>2 DEF Call
  <2>2. /\ at' = [at EXCEPT ![u] = "lock"] /\ at[u] = "idle"
        /\ number_of_callback' = number_of_callback
    BY <1>2 DEF Call, Goto, tableVars
  <2>3. ASSUME NEW e \in Edits, e # o, NEW t \in Pending(e)' PROVE t \in Pending(e)
    <3>1. t \in Thread /\ op'[t] = e /\ at'[t] \in {"lock", e}
      BY <2>3 DEF Pending
    <3>2. t # u
      BY <1>T, <2>1, <2>3, <3>1
    <3> QED
      BY <1>T, <2>1, <2>2, <3>1, <3>2 DEF Pending
  <2>4. \A t \in Thread : at'[t] = "put" => op'[t] \notin Edits
    BY <1>T, <1>P, <2>1, <2>2
  <2>5. CASE o \notin Edits
    <3>1. \A e \in Edits : Pending(e)' \subseteq Pending(e)
      BY <2>3, <2>5
    <3> QED
      BY <1>S, <2>2, <2>4, <3>1
  <2>6. CASE o \in Edits
    <3>1. u \notin Pending(o)
      BY <2>2, <2>6 DEF Pending, Edits
    <3>2. Pending(o)' = Pending(o) \cup {u}
      BY <1>T, <2>1, <2>2 DEF Pending
    <3>3. Cardinality(Pending(o)') = Cardinality(Pending(o)) + 1
      BY <1>F, <2>6, <3>1, <3>2, FS_AddElement
    <3>4. ASSUME NEW e \in Edits, e # o
          PROVE  /\ Cardinality(Pending(e)') \in Nat
                 /\ Cardinality(Pending(e)') <= Cardinality(Pending(e))
      <4>1. Pending(e)' \in SUBSET Pending(e)
        BY <2>3, <3>4
      <4>2. IsFiniteSet(Pending(e)') /\ Cardinality(Pending(e)') <= Cardinality(Pending(e))
        BY <1>F, <4>1, FS_Subset
      <4> QED
        BY <4>2, FS_CardinalityType
    <3>5. CASE o = "register"
      <4>1. number_of_callback + Cardinality(Pending("register")) < NumPorts
        BY <2>1, <3>5 DEF Defined
      <4>2. /\ Cardinality(Pending("register")) \in Nat
            /\ Cardinality(Pending("unregister")) \in Nat
        BY <1>F DEF Edits
      <4>3. /\ Cardinality(Pending("unregister")') \in Nat
            /\ Cardinality(Pending("unregister")') <= Cardinality(Pending("unregister"))
        BY <3>4, <3>5 DEF Edits
      <4>4. Cardinality(Pending("register")') = Cardinality(Pending("register")) + 1
        BY <3>3, <3>5
      <4> QED
        BY <1>0, <2>2, <2>4, <4>1, <4>2, <4>3, <4>4 DEF CountInv
    <3>6. CASE o = "unregister"
      <4>1. number_of_callback - Cardinality(Pending("unregister")) > 0
        BY <2>1, <3>6 DEF Defined
      <4>2. /\ Cardinality(Pending("register")) \in Nat
            /\ Cardinality(Pending("unregister")) \in Nat
        BY <1>F DEF Edits
      <4>3. /\ Cardinality(Pending("register")') \in Nat
            /\ Cardinality(Pending("register")') <= Cardinality(Pending("register"))
        BY <3>4, <3>6 DEF Edits
      <4>4. Cardinality(Pending("unregister")') = Cardinality(Pending("unregister")) + 1
        BY <3>3, <3>6
      <4> QED
        BY <1>0, <2>2, <2>4, <4>1, <4>2, <4>3, <4>4 DEF CountInv
    <3> QED
      BY <2>6, <3>5, <3>6 DEF Edits
  <2> QED
    BY <2>5, <2>6
<1>3. ASSUME NEW u \in Thread, Lock(u) PROVE CountInv'
  <2>1. at[u] = "lock" /\ op[u] # "put" /\ op[u] # "lock"
    BY <1>3, <1>T DEF Lock, Ops
  <2> QED
    BY <1>3, <1>M, <2>1 DEF Lock, tableVars
<1>4. ASSUME NEW u \in Thread, Unlock(u) PROVE CountInv'
  <2>1. /\ at' = [at EXCEPT ![u] = "idle"] /\ op' = [op EXCEPT ![u] = "print"]
        /\ number_of_callback' = number_of_callback
    BY <1>4 DEF Unlock, Goto, tableVars
  <2>2. ASSUME NEW o \in Edits, NEW t \in Pending(o)' PROVE t \in Pending(o)
    <3>1. t \in Thread /\ op'[t] = o /\ at'[t] \in {"lock", o}
      BY <2>2 DEF Pending
    <3>2. t # u
      BY <1>T, <2>1, <3>1 DEF Edits
    <3> QED
      BY <1>T, <2>1, <3>1, <3>2 DEF Pending
  <2>3. \A t \in Thread : at'[t] = "put" => op'[t] \notin Edits
    BY <1>T, <1>P, <2>1
  <2> QED
    BY <1>S, <2>1, <2>2, <2>3
<1>5. ASSUME NEW u \in Thread, Convert(u) \/ StartDump(u) \/ Pop(u) PROVE CountInv'
  <2>1. \E it, chars : Puts(u, it, chars)
    BY <1>5 DEF Convert, StartDump, Pop
  <2>2. Goto(u, "put") /\ UNCHANGED <<op, number_of_callback>>
    BY <2>1 DEF Puts, tableVars
  <2>3. op[u] \notin Edits
    <3>1. at[u] \in {"print", "dump", "pop"}
      BY <1>5 DEF Convert, StartDump, Pop
    <3>2. at[u] = "pop" => op[u] = "flush"
      BY DEF FlushInv, CallInv, CallRight
    <3> QED
      BY <1>C, <3>1, <3>2 DEF Ops, Edits
  <2> QED
    BY <1>M, <2>2, <2>3 DEF Edits
<1>6. ASSUME NEW u \in Thread, EndOfFormat(u) \/ Flush(u) \/ FlushEnd(u) PROVE CountInv'
  BY <1>6, <1>M DEF EndOfFormat, Flush, FlushEnd, tableVars, Edits
<1>7. ASSUME NEW u \in Thread, Register(u) \/ Unregister(u) PROVE CountInv'
  <2>1. at' = [at EXCEPT ![u] = "unlock"] /\ op' = op
    BY <1>7 DEF Register, Unregister, Goto
  <2>2. op[u] = at[u] /\ op[u] = IF Register(u) THEN "register" ELSE "unregister"
    BY <1>7, <1>C DEF Register, Unregister, Ops
  <2>3. \A t \in Thread : at'[t] = "put" => op'[t] \notin Edits
    BY <1>T, <1>P, <2>1
  <2>4. ASSUME NEW o \in Edits
        PROVE  /\ Cardinality(Pending(o)') \in Nat
               /\ Cardinality(Pending(o)') =
                    IF op[u] = o THEN Cardinality(Pending(o)) - 1 ELSE Cardinality(Pending(o))
    <3>1. Pending(o)' = Pending(o) \ {u}
      BY <1>T, <2>1 DEF Pending, Edits
    <3>2. u \in Pending(o) <=> op[u] = o
      BY <2>2 DEF Pending
    <3>3. /\ IsFiniteSet(Pending(o)')
          /\ Cardinality(Pending(o)') =
               IF u \in Pending(o) THEN Cardinality(Pending(o)) - 1 ELSE Cardinality(Pending(o))
      <4>1. IsFiniteSet(Pending(o))
        BY <1>F
      <4>2. /\ IsFiniteSet(Pending(o) \ {u})
            /\ Cardinality(Pending(o) \ {u}) =
                 IF u \in Pending(o) THEN Cardinality(Pending(o)) - 1
                 ELSE Cardinality(Pending(o))
        BY <4>1, FS_RemoveElement
      <4> QED
        BY <3>1, <4>2, Zenon
    <3> QED
      BY <3>2, <3>3, FS_CardinalityType
  <2>5. /\ Cardinality(Pending("register")) \in Nat
        /\ Cardinality(Pending("unregister")) \in Nat
    BY <1>F DEF Edits
  <2>6. CASE Register(u)
    <3>1. number_of_callback' \in {number_of_callback, number_of_callback + 1}
      BY <2>6 DEF Register, Install, tableVars
    <3>2. /\ Cardinality(Pending("register")') = Cardinality(Pending("register")) - 1
          /\ Cardinality(Pending("register")') \in Nat
          /\ Cardinality(Pending("unregister")') = Cardinality(Pending("unregister"))
      BY <2>2, <2>4, <2>6 DEF Edits
    <3> QED
      BY <1>0, <2>3, <2>5, <3>1, <3>2 DEF CountInv
  <2>7. CASE ~Register(u)
    <3>1. number_of_callback' \in {number_of_callback - 0, number_of_callback - 1}
      BY <1>7, <2>7 DEF Unregister
    <3>2. /\ Cardinality(Pending("unregister")') = Cardinality(Pending("unregister")) - 1
          /\ Cardinality(Pending("unregister")') \in Nat
          /\ Cardinality(Pending("register")') = Cardinality(Pending("register"))
      BY <2>2, <2>4, <2>7 DEF Edits
    <3> QED
      BY <1>0, <2>3, <2>5, <3>1, <3>2 DEF CountInv
  <2> QED
    BY <2>6, <2>7
<1>8. ASSUME NEW u \in Thread, PutEnd(u) PROVE CountInv'
  <2> DEFINE l == IF op[u] = "dump" THEN "unlock" ELSE op[u]
  <2>1. Goto(u, l) /\ UNCHANGED <<op, number_of_callback>> /\ at[u] = "put"
    BY <1>8 DEF PutEnd, tableVars
  <2>2. op[u] \notin Edits /\ op[u] \in Ops
    BY <1>P, <1>T, <2>1
  <2>3. l # "put" /\ l \notin Edits /\ l # "lock"
    BY <2>2 DEF Edits, Ops
  <2> HIDE DEF l
  <2> QED
    BY <1>M, <2>1, <2>3
<1>9. ASSUME UNCHANGED <<op, at, number_of_callback>> PROVE CountInv'
  BY <1>9, <1>S, <1>P DEF Pending
<1>10. ASSUME NEW u \in Thread, PutByte(u) \/ NextByte(u) PROVE CountInv'
  BY <1>10, <1>9 DEF PutByte, NextByte, tableVars
<1>11. ASSUME app_debug_init \/ Isr \/ UNCHANGED vars PROVE CountInv'
  BY <1>11, <1>9 DEF app_debug_init, Isr, IsrConvert, IsrPut, IsrPutEnd, vars, tableVars,
                     threadVars
<1> QED
  BY <1>1, <1>2, <1>3, <1>4, <1>5, <1>6, <1>7, <1>8, <1>10, <1>11 DEF Next, ThreadStep

\* The other variables keep their types.
LEMMA MoreStep == FlushInv /\ FlushInv' /\ MoreTypes /\ [Next]_vars => MoreTypes'
<1> SUFFICES ASSUME FlushInv, FlushInv', MoreTypes, [Next]_vars PROVE MoreTypes'
  OBVIOUS
<1>0. 0 \in Serials /\ taken \in [Thread -> Serials] /\ ahead \in [Port -> {0, 1}]
      /\ isrPos \in Nat /\ members \subseteq Port /\ m_lock_cb \in BOOLEAN
  BY CapAssumption DEF Serials, MoreTypes
<1>T. ASSUME NEW u \in Thread, ThreadStep(u)
      PROVE  /\ UNCHANGED <<m_lock_cb, isrPos>> /\ (members' = members \/ members' = Ports)
             /\ PutByte(u) \/ Lock(u) \/ NextByte(u) \/ ahead' = ahead
  <2>1. CASE Call(u) \/ Lock(u) \/ Unlock(u) \/ EndOfFormat(u) \/ Flush(u) \/ FlushEnd(u)
    BY <2>1 DEF Call, Lock, Unlock, EndOfFormat, Flush, FlushEnd, isrVars, portVars
  <2>2. CASE Convert(u) \/ StartDump(u) \/ Pop(u)
    <3>1. \E it, chars : Puts(u, it, chars)
      BY <2>2 DEF Convert, StartDump, Pop
    <3> QED
      BY <3>1 DEF Puts, isrVars, portVars
  <2>3. CASE Register(u) \/ Unregister(u) \/ PutByte(u) \/ NextByte(u) \/ PutEnd(u)
    BY <2>3 DEF Register, Unregister, PutByte, NextByte, PutEnd, isrVars, portVars
  <2> QED
    BY <1>T, <2>1, <2>2, <2>3 DEF ThreadStep
<1>A. ASSUME \/ \E p \in Port : RegisterFirst(p)
             \/ app_debug_init \/ Isr \/ UNCHANGED vars
      PROVE  /\ m_lock_cb' \in {TRUE, m_lock_cb} /\ UNCHANGED <<members, ahead>>
             /\ IsrPut \/ IsrConvert \/ IsrPutEnd \/ isrPos' = isrPos
  <2>1. CASE \E p \in Port : RegisterFirst(p)
    BY <2>1 DEF RegisterFirst, isrVars
  <2>2. CASE app_debug_init \/ Isr
    BY <2>2 DEF app_debug_init, Isr, IsrConvert, IsrPut, IsrPutEnd, isrVars, portVars
  <2>3. CASE UNCHANGED vars
    BY <2>3 DEF vars, isrVars, portVars
  <2> QED
    BY <1>A, <2>1, <2>2, <2>3
<1>N. \/ \E u \in Thread : ThreadStep(u)
      \/ (\E p \in Port : RegisterFirst(p)) \/ app_debug_init \/ Isr \/ UNCHANGED vars
  BY DEF Next
<1>1. m_lock_cb' \in BOOLEAN
  BY <1>0, <1>A, <1>N, <1>T
<1>2. taken' \in [Thread -> Serials]
  <2>1. ASSUME NEW u \in Thread, Flush(u) PROVE taken' \in [Thread -> Serials]
    <3>1. ring \in Seq(Serials) /\ ring # <<>>
      BY <2>1 DEF Flush, FlushInv, RingInv
    <3>2. Head(ring) \in Serials
      BY <3>1, HeadTailProperties
    <3> QED
      BY <1>0, <2>1, <3>2 DEF Flush
  <2>2. ASSUME NEW u \in Thread, PutEnd(u) PROVE taken' \in [Thread -> Serials]
    BY <1>0, <2>2 DEF PutEnd
  <2>3. (\E u \in Thread : Flush(u) \/ PutEnd(u)) \/ taken' = taken
    BY DEF Next, ThreadStep, Call, Lock, Unlock, Convert, EndOfFormat, StartDump, Pop,
           FlushEnd, Register, Unregister, PutByte, NextByte, RegisterFirst,
           app_debug_init, Isr, IsrConvert, IsrPut, IsrPutEnd, vars, threadVars
  <2> QED
    BY <1>0, <2>1, <2>2, <2>3
<1>3. ahead' \in [Port -> {0, 1}]
  <2>1. ASSUME NEW u \in Thread, PutByte(u) PROVE ahead' \in [Port -> {0, 1}]
    <3>1. at'[u] = "put"
      BY <2>1 DEF PutByte
    <3>2. \A p \in Port : ahead'[p] \in {0, 1}
      BY <3>1 DEF FlushInv, IInv, RoundInv, Round
    <3>3. ahead' \in [Port -> Nat]
      BY DEF FlushInv, IInv, Types
    <3> QED
      BY <3>2, <3>3
  <2>2. ASSUME NEW u \in Thread, Lock(u) \/ NextByte(u) PROVE ahead' \in [Port -> {0, 1}]
    BY <2>2 DEF Lock, NextByte
  <2>3. (\E u \in Thread : PutByte(u) \/ Lock(u) \/ NextByte(u)) \/ ahead' = ahead
    BY <1>A, <1>N, <1>T
  <2> QED
    BY <1>0, <2>1, <2>2, <2>3
<1>4. members' \subseteq Port
  <2>1. members' = Ports \/ members' = members
    BY <1>A, <1>N, <1>T
  <2>2. Ports \subseteq Port
    BY DEF FlushInv, IInv, Types, Ports
  <2> QED
    BY <1>0, <2>1, <2>2
<1>5. isrPos' \in Nat
  <2>1. ASSUME IsrPut PROVE isrPos' \in {isrPos + 1, isrPos + 4}
    BY <2>1 DEF IsrPut
  <2>2. ASSUME IsrConvert \/ IsrPutEnd PROVE isrPos' = 1
    BY <2>2 DEF IsrConvert, IsrPutEnd
  <2>3. IsrPut \/ IsrConvert \/ IsrPutEnd \/ isrPos' = isrPos
    BY <1>A, <1>N, <1>T
  <2> QED
    BY <1>0, <2>1, <2>2, <2>3
<1> QED
  BY <1>1, <1>2, <1>3, <1>4, <1>5 DEF MoreTypes

\* Every variable holds a value the program can give it, and every text is the
\* one of its item, for as long as it is put.
THEOREM LogInductive == Spec => []LogInv
<1>1. MoreTypes /\ CountInv /\ TextInv /\ FlushInv /\ FlushInv' /\ [Next]_vars =>
        MoreTypes' /\ CountInv' /\ TextInv'
  BY MoreStep, CountStep, TextStep DEF FlushInv
<1>2. Init => MoreTypes /\ CountInv /\ TextInv
  BY InitLog DEF LogInv
<1>3. Spec => [](MoreTypes /\ CountInv /\ TextInv)
  BY <1>1, <1>2, FlushInductive, PTL DEF Spec
<1>4. FlushInv /\ MoreTypes /\ CountInv /\ TextInv => LogInv
  BY DEF LogInv
<1> QED
  BY <1>3, <1>4, FlushInductive, PTL

\* Every variable holds a value the program can give it: put_byte stays within
\* its text and the table, the counter of callbacks within the table, and the
\* ring buffer within its size.
THEOREM TypeCorrect == Spec => []TypeOK
<1>1. LogInv => TypeOK
  <2> SUFFICES ASSUME LogInv PROVE TypeOK
    OBVIOUS
  <2>1. Types /\ RingInv /\ ServedInv /\ MoreTypes /\ CountInv /\ TextInv
    BY DEF LogInv, FlushInv, IInv
  <2>2. \A t \in Thread : pos[t] \in 1 .. Len(text[t]) + 1
    BY <2>1 DEF TextInv, TextOf
  <2>3. ahead \in [Port -> 0 .. NumPorts]
    <3>1. 0 \in 0 .. NumPorts /\ 1 \in 0 .. NumPorts
      BY CapAssumption
    <3> QED
      BY <2>1, <3>1 DEF MoreTypes
  <2>4. /\ m_lock_cb \in BOOLEAN /\ taken \in [Thread -> Serials] /\ members \subseteq Port
        /\ isrPos \in Nat
    BY <2>1 DEF MoreTypes
  <2>5. number_of_callback \in 0 .. NumPorts
    BY <2>1 DEF CountInv
  <2>6. /\ ring \in Seq(Serials) /\ Len(ring) <= Cap /\ serial \in Serials
        /\ flushed \in [Port -> Serials \cup {-1}]
    BY <2>1 DEF RingInv, ServedInv
  <2> QED
    BY <2>1, <2>2, <2>3, <2>4, <2>5, <2>6 DEF TypeOK, Types
<1> QED
  BY LogInductive, <1>1, PTL

\* What print_raw, dump and print_isr begin to put is what RawRight and IsrRight
\* call for, for every width of int and long and every size of s: a number of
\* the interrupt service if it fits in s, and on the padding of a number with
\* LEFT nothing is said.
THEOREM TextsAreRight == Spec => []TextRight
<1>1. LogInv => TextRight
  BY Zenon DEF LogInv, TextInv, TextOf, TextRight
<1> QED
  BY LogInductive, <1>1, PTL
=============================================================================
