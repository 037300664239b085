------------------------------- MODULE DebugLog -------------------------------
(***************************************************************************)
(* The debug log (app_debug.c) as SpeedTest's main installs it: threads    *)
(* print, dump, flush the ring buffer of the interrupt service and change  *)
(* the table of output callbacks, all under the mutex of app_lock; a byte  *)
(* goes to every callback of the table before the next one is put.  The    *)
(* interrupt service prints into the ring buffer without the lock.         *)
(*                                                                         *)
(* app_debug.h sets DEBUG_ISR_ENABLE to 0, and with it the present build   *)
(* leaves out the interrupt service, the ring buffer and the flush.  The   *)
(* module is the code with DEBUG_ISR_ENABLE 1; a program that makes no     *)
(* flush and has no format of the interrupt service is one of the build    *)
(* without it.                                                             *)
(*                                                                         *)
(* The ring buffer is the queue that RingBuffer is shown to implement; its *)
(* bytes are numbered modulo Cap + 2 as they are accepted.                 *)
(***************************************************************************)
EXTENDS LogFormat, FiniteSets

CONSTANTS
  Thread, Port,   (* threads, and the callbacks they register              *)
  NULL,           (* no callback, and no thread                            *)
  NumPorts,       (* APP_DEBUG_NUMBER_OF_DEBUG_PORT                        *)
  Cap,            (* bytes the ring buffer can hold                        *)
  Programs        (* the calls a program makes and the formats it has      *)

Slots   == 0 .. NumPorts - 1
Serials == 0 .. Cap + 1
Ops     == {"print", "dump", "flush", "register", "unregister"}

ASSUME NullAssumption == NULL \notin Thread \cup Port
ASSUME ThreadAssumption == IsFiniteSet(Thread)
ASSUME CapAssumption  == Cap \in Nat \ {0} /\ NumPorts \in Nat \ {0}
ASSUME ProgramAssumption ==
  \A g \in Programs :
    /\ DOMAIN g = {"ops", "raw", "dump", "isr"} /\ g.ops \subseteq Ops
    /\ g.raw \subseteq Conversion /\ g.dump \subseteq Nat /\ g.isr \subseteq IsrConversion

VARIABLES
  prog,       (* the program                                               *)
  m_lock_cb,  (* app_debug_init has installed the lock                     *)
  m_write_cb, (* the table of callbacks                                    *)
  number_of_callback,
  owner,      (* the mutex                                                 *)
  at,         (* where a thread is                                         *)
  op, cb,     (* its call, and the callback it registers or unregisters    *)
  item,       (* the conversion whose text it is putting                   *)
  text,       (* that text                                                 *)
  pos, index, (* the character being put, and the slot it goes to next     *)
  taken,      (* the byte it has read from the ring buffer                 *)
  ring,       (* the ring buffer                                           *)
  serial,     (* the number of the next byte                               *)
  isrItem, isrText, isrPos,   (* the same for the interrupt service        *)
  from,       (* history: the thread whose byte a port got last            *)
  ahead,      (* history: how often a port got the byte being put          *)
  members,    (* history: the ports of the table when the lock was taken   *)
  flushed     (* history: the byte of the ring buffer a port got last      *)

tableVars  == <<m_write_cb, number_of_callback>>
threadVars == <<at, op, cb, item, text, pos, index, taken>>
isrVars    == <<isrItem, isrText, isrPos>>
portVars   == <<from, ahead, members, flushed>>
vars == <<prog, m_lock_cb, tableVars, owner, threadVars, ring, serial, isrVars, portVars>>

NoItem    == [Plain EXCEPT !.conv = "none"]
IsrPlain  == [conv |-> "plain", zero |-> FALSE, width |-> <<>>, arg |-> 0]
NoIsrItem == [IsrPlain EXCEPT !.conv = "none"]

Init ==
  /\ prog \in Programs
  /\ m_lock_cb = FALSE
  /\ m_write_cb = [s \in Slots |-> NULL] /\ number_of_callback = 0
  /\ owner = NULL
  /\ at = [t \in Thread |-> "idle"]
  /\ op = [t \in Thread |-> "print"] /\ cb = [t \in Thread |-> NULL]
  /\ item = [t \in Thread |-> NoItem] /\ text = [t \in Thread |-> <<>>]
  /\ pos = [t \in Thread |-> 1] /\ index = [t \in Thread |-> 0]
  /\ taken = [t \in Thread |-> 0]
  /\ ring = <<>> /\ serial = 0
  /\ isrItem = NoIsrItem /\ isrText = <<>> /\ isrPos = 1
  /\ from = [p \in Port |-> NULL] /\ ahead = [p \in Port |-> 0]
  /\ members = {} /\ flushed = [p \in Port |-> -1]

Ports == {m_write_cb[s] : s \in Slots} \ {NULL}

-----------------------------------------------------------------------------
(* The table *)

\* Mutant: a callback can be there twice.
InstallTwice(p) ==
  /\ m_write_cb' = [m_write_cb EXCEPT ![number_of_callback] = p]
  /\ number_of_callback' = number_of_callback + 1
  /\ flushed' = [flushed EXCEPT ![p] = -1]

\* A callback is added behind the others, once.
Install(p) ==
  IF p \in Ports THEN UNCHANGED <<tableVars, flushed>>
  ELSE /\ m_write_cb' = [m_write_cb EXCEPT ![number_of_callback] = p]
       /\ number_of_callback' = number_of_callback + 1
       /\ flushed' = [flushed EXCEPT ![p] = -1]

\* main registers app_puts, then installs the lock.
RegisterFirst(p) ==
  /\ ~m_lock_cb /\ number_of_callback = 0
  /\ Install(p)
  /\ UNCHANGED <<prog, m_lock_cb, owner, threadVars, ring, serial, isrVars,
                 from, ahead, members>>

app_debug_init ==
  /\ ~m_lock_cb /\ number_of_callback = 1
  /\ m_lock_cb' = TRUE /\ ring' = <<>>
  /\ UNCHANGED <<prog, tableVars, owner, threadVars, serial, isrVars, portVars>>

-----------------------------------------------------------------------------
(* A thread's call: it waits for the mutex, works, and gives it back. *)

Goto(t, l) == at' = [at EXCEPT ![t] = l]

\* The code does not check the counter: a table that overflows is written
\* behind its end, and below 0 the counter is 255.  Programs do neither, in
\* whatever order the calls under way get the lock.
Pending(o) == {u \in Thread : op[u] = o /\ at[u] \in {"lock", o}}

Defined(o) ==
  /\ o = "register" => number_of_callback + Cardinality(Pending(o)) < NumPorts
  /\ o = "unregister" => number_of_callback - Cardinality(Pending(o)) > 0

Call(t) ==
  /\ m_lock_cb /\ at[t] = "idle"
  /\ Goto(t, "lock")
  /\ \E o \in {o \in Ops \cap prog.ops : Defined(o)} :
     \E p \in IF o \in {"register", "unregister"} THEN Port ELSE {NULL} :
       op' = [op EXCEPT ![t] = o] /\ cb' = [cb EXCEPT ![t] = p]
  /\ UNCHANGED <<prog, m_lock_cb, tableVars, owner, item, text, pos, index, taken, ring,
                 serial, isrVars, portVars>>

\* Mutant: the lock does not wait.
LockTry(t) ==
  /\ at[t] = "lock"
  /\ owner' = t
  /\ Goto(t, op[t])
  /\ members' = Ports /\ ahead' = [p \in Port |-> 0]
  /\ UNCHANGED <<prog, m_lock_cb, tableVars, op, cb, item, text, pos, index, taken, ring,
                 serial, isrVars, from, flushed>>

Lock(t) ==
  /\ at[t] = "lock" /\ owner = NULL
  /\ owner' = t
  /\ Goto(t, op[t])
  /\ members' = Ports /\ ahead' = [p \in Port |-> 0]
  /\ UNCHANGED <<prog, m_lock_cb, tableVars, op, cb, item, text, pos, index, taken, ring,
                 serial, isrVars, from, flushed>>

Unlock(t) ==
  /\ at[t] = "unlock"
  /\ owner' = NULL
  /\ Goto(t, "idle")
  /\ op' = [op EXCEPT ![t] = "print"] /\ cb' = [cb EXCEPT ![t] = NULL]
  /\ UNCHANGED <<prog, m_lock_cb, tableVars, item, text, pos, index, taken, ring, serial,
                 isrVars, portVars>>

Puts(t, it, chars) ==
  /\ Goto(t, "put")
  /\ item' = [item EXCEPT ![t] = it] /\ text' = [text EXCEPT ![t] = chars]
  /\ pos' = [pos EXCEPT ![t] = 1] /\ index' = [index EXCEPT ![t] = 0]
  /\ UNCHANGED <<prog, m_lock_cb, tableVars, owner, op, cb, serial, isrVars, portVars>>

\* The next conversion of the format, or its end; a dump is one text.
Convert(t) ==
  /\ at[t] = "print"
  /\ \E it \in prog.raw : Puts(t, it, Converted(it))
  /\ UNCHANGED <<taken, ring>>

EndOfFormat(t) ==
  /\ at[t] = "print"
  /\ Goto(t, "unlock")
  /\ UNCHANGED <<prog, m_lock_cb, tableVars, owner, op, cb, item, text, pos, index, taken,
                 ring, serial, isrVars, portVars>>

StartDump(t) ==
  /\ at[t] = "dump"
  /\ \E n \in prog.dump : Puts(t, [Plain EXCEPT !.conv = "dump", !.arg = n], Dump(n))
  /\ UNCHANGED <<taken, ring>>

\* lwrb_read copies the byte, then moves the index behind it.
Flush(t) ==
  /\ at[t] = "flush" /\ ring # <<>>
  /\ taken' = [taken EXCEPT ![t] = Head(ring)]
  /\ Goto(t, "pop")
  /\ UNCHANGED <<prog, m_lock_cb, tableVars, owner, op, cb, item, text, pos, index, ring,
                 serial, isrVars, portVars>>

\* Mutant: the index is not moved.
PopNothing(t) ==
  /\ at[t] = "pop"
  /\ Puts(t, Plain, <<"s">>)
  /\ UNCHANGED <<ring, taken>>

\* A second reader of the same byte would move the index to the same place.
Pop(t) ==
  /\ at[t] = "pop"
  /\ ring' = IF ring # <<>> /\ Head(ring) = taken[t] THEN SubSeq(ring, 2, Len(ring)) ELSE ring
  /\ Puts(t, Plain, <<"s">>)
  /\ UNCHANGED taken

FlushEnd(t) ==
  /\ at[t] = "flush" /\ ring = <<>>
  /\ Goto(t, "unlock")
  /\ UNCHANGED <<prog, m_lock_cb, tableVars, owner, op, cb, item, text, pos, index, taken,
                 ring, serial, isrVars, portVars>>

Register(t) ==
  /\ at[t] = "register"
  /\ Install(cb[t])
  /\ Goto(t, "unlock")
  /\ UNCHANGED <<prog, m_lock_cb, owner, op, cb, item, text, pos, index, taken, ring,
                 serial, isrVars, from, ahead, members>>

\* The callback stays in its slot, and the next one registered takes the slot
\* of the last.
Unregister(t) ==
  /\ at[t] = "unregister"
  /\ number_of_callback' = number_of_callback - (IF cb[t] \in Ports THEN 1 ELSE 0)
  /\ Goto(t, "unlock")
  /\ UNCHANGED <<prog, m_lock_cb, m_write_cb, owner, op, cb, item, text, pos, index, taken,
                 ring, serial, isrVars, portVars>>

-----------------------------------------------------------------------------
(* put_byte *)

MoreText(t) == pos[t] <= Len(text[t])

Deliver(t, p) ==
  /\ from' = [from EXCEPT ![p] = t]
  /\ ahead' = [ahead EXCEPT ![p] = @ + 1]
  /\ flushed' = IF op[t] = "flush" THEN [flushed EXCEPT ![p] = taken[t]] ELSE flushed

\* One round of the loop over the table.
PutByte(t) ==
  /\ at[t] = "put" /\ MoreText(t) /\ index[t] < NumPorts
  /\ LET p == m_write_cb[index[t]] IN
       IF p = NULL THEN UNCHANGED <<from, ahead, flushed>> ELSE Deliver(t, p)
  /\ index' = [index EXCEPT ![t] = @ + 1]
  /\ UNCHANGED <<prog, m_lock_cb, tableVars, owner, at, op, cb, item, text, pos, taken,
                 ring, serial, isrVars, members>>

NextByte(t) ==
  /\ at[t] = "put" /\ MoreText(t) /\ index[t] = NumPorts
  /\ pos' = [pos EXCEPT ![t] = @ + 1] /\ index' = [index EXCEPT ![t] = 0]
  /\ ahead' = [p \in Port |-> 0]
  /\ UNCHANGED <<prog, m_lock_cb, tableVars, owner, at, op, cb, item, text, taken,
                 ring, serial, isrVars, from, members, flushed>>

\* The text is out: on to the next conversion, the next byte of the ring
\* buffer, or the end of the dump.
PutEnd(t) ==
  /\ at[t] = "put" /\ ~MoreText(t)
  /\ Goto(t, IF op[t] = "dump" THEN "unlock" ELSE op[t])
  /\ item' = [item EXCEPT ![t] = NoItem] /\ text' = [text EXCEPT ![t] = <<>>]
  /\ pos' = [pos EXCEPT ![t] = 1]
  /\ taken' = [taken EXCEPT ![t] = 0]
  /\ UNCHANGED <<prog, m_lock_cb, tableVars, owner, op, cb, index, ring, serial, isrVars,
                 portVars>>

-----------------------------------------------------------------------------
(* The interrupt service *)

IsrConvert ==
  /\ m_lock_cb /\ isrItem = NoIsrItem
  /\ \E it \in prog.isr :
       /\ isrItem' = it /\ isrText' \in IsrConverted(it) /\ isrPos' = 1
  /\ UNCHANGED <<prog, m_lock_cb, tableVars, owner, threadVars, ring, serial, portVars>>

\* Mutant: bytes are written whether there is room or not.
IsrPutAlways ==
  /\ isrItem # NoIsrItem /\ isrPos <= Len(isrText)
  /\ ring' = Append(ring, serial)
  /\ serial' = (serial + 1) % (Cap + 2)
  /\ isrPos' = isrPos + 1
  /\ UNCHANGED <<prog, m_lock_cb, tableVars, owner, threadVars, isrItem, isrText, portVars>>

\* lwrb_write of one byte, of four for the text of NULL: what finds no room is
\* dropped.
IsrPut ==
  /\ isrItem # NoIsrItem /\ isrPos <= Len(isrText)
  /\ LET n == IF isrItem.conv = "s" /\ isrItem.arg = NullString THEN 4 ELSE 1
         k == Few(n, Cap - Len(ring))
     IN /\ ring' = ring \o [j \in 1 .. k |-> (serial + j - 1) % (Cap + 2)]
        /\ serial' = (serial + k) % (Cap + 2)
        /\ isrPos' = isrPos + n
  /\ UNCHANGED <<prog, m_lock_cb, tableVars, owner, threadVars, isrItem, isrText, portVars>>

IsrPutEnd ==
  /\ isrItem # NoIsrItem /\ isrPos > Len(isrText)
  /\ isrItem' = NoIsrItem /\ isrText' = <<>> /\ isrPos' = 1
  /\ UNCHANGED <<prog, m_lock_cb, tableVars, owner, threadVars, ring, serial, portVars>>

Isr == IsrConvert \/ IsrPut \/ IsrPutEnd

ThreadStep(t) ==
  \/ Call(t) \/ Lock(t) \/ Unlock(t) \/ Convert(t) \/ EndOfFormat(t) \/ StartDump(t)
  \/ Flush(t) \/ Pop(t) \/ FlushEnd(t) \/ Register(t) \/ Unregister(t)
  \/ PutByte(t) \/ NextByte(t) \/ PutEnd(t)

Next ==
  \/ \E p \in Port : RegisterFirst(p)
  \/ app_debug_init
  \/ \E t \in Thread : ThreadStep(t)
  \/ Isr

Spec == Init /\ [][Next]_vars

-----------------------------------------------------------------------------
Inside(t) == at[t] \notin {"idle", "lock"}

\* Every variable holds a value the program can give it.
TypeOK ==
  /\ m_lock_cb \in BOOLEAN
  /\ m_write_cb \in [Slots -> Port \cup {NULL}]
  /\ number_of_callback \in 0 .. NumPorts
  /\ owner \in Thread \cup {NULL}
  /\ at \in [Thread -> {"idle", "lock", "pop", "put", "unlock"} \cup Ops]
  /\ op \in [Thread -> Ops] /\ cb \in [Thread -> Port \cup {NULL}]
  /\ \A t \in Thread : pos[t] \in 1 .. Len(text[t]) + 1
  /\ index \in [Thread -> 0 .. NumPorts] /\ taken \in [Thread -> Serials]
  /\ ring \in Seq(Serials) /\ Len(ring) <= Cap /\ serial \in Serials
  /\ isrPos \in Nat
  /\ from \in [Port -> Thread \cup {NULL}]
  /\ ahead \in [Port -> 0 .. NumPorts] /\ members \subseteq Port
  /\ flushed \in [Port -> Serials \cup {-1}]

\* The bytes of one call are not mixed with those of another: until it gives
\* the lock back, no other thread's byte goes where its own last one went.
Contiguous ==
  [][\A p \in Port, t \in Thread : Inside(t) /\ from[p] = t => from'[p] = t]_vars

\* While a byte is put, every callback of the table has got it once when the
\* loop has passed its slot, and not yet before; and the table is the one of
\* the beginning of the call, so no callback gets the rest of a message.
AllPortsAlike ==
  \A t \in Thread : at[t] = "put" =>
    /\ Ports = members
    /\ \A s \in Slots : m_write_cb[s] # NULL =>
         ahead[m_write_cb[s]] = IF s < index[t] THEN 1 ELSE 0

\* What print_raw, dump and print_isr begin to put is what the format and the
\* argument call for: see RawRight and IsrRight for what that leaves out.
TextRight ==
  /\ \A t \in Thread : pos[t] = 1 /\ index[t] = 0 => RawRight(item[t], text[t])
  /\ isrPos = 1 => IsrRight(isrItem, isrText)

After(n) == (n + 1) % (Cap + 2)

\* Whichever threads flush, the byte a flush gives to a callback is the one the
\* ring buffer took next after the callback's last one: none is skipped and none
\* comes twice, also in succession.
FlushedInOrder ==
  [][\A p \in Port :
       IF ahead'[p] > ahead[p] /\ op[from'[p]] = "flush"
       THEN flushed[p] = -1 \/ flushed'[p] = After(flushed[p])
       ELSE flushed'[p] \in {flushed[p], -1}]_vars
=============================================================================
