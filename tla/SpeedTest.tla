------------------------------ MODULE SpeedTest ------------------------------
(***************************************************************************)
(* speedtest_download and speedtest_upload of SpeedTest/source/speedtest,  *)
(* with the threads they create.  The controller (the main thread) owns an *)
(* array of slots; it scans the array for ever, creates a thread in every  *)
(* slot whose running flag is 0, and leaves the scan after the SIGALRM     *)
(* handler has set thread_all_stop.  It then prints the speed, joins the   *)
(* last thread of each slot and frees the array.  The threads count what   *)
(* they transfer in two totals protected by one mutex and clear their      *)
(* running flag through a pointer into the array.                          *)
(*                                                                         *)
(* A tid stands for one thread the process may create: when none is left   *)
(* pthread_create can only fail, as it does at the system's limit.  A      *)
(* header, a data buffer and a received chunk each count for one unit.     *)
(* Locals that can no longer be read go back to their initial value, so    *)
(* that states differ only in what the program can still observe.          *)
(***************************************************************************)
EXTENDS Integers, Sequences, FiniteSets

CONSTANTS
  N,              (* number_of_thread: the size of the array              *)
  Tid,            (* the threads the system lets the process create       *)
  Plans,          (* the sequences of tests main may run                  *)
  Protocols,      (* the protocols the user may ask for                   *)
  UL_BUFFER_TIMES,(* the buffers an upload thread sends                   *)
  MaxChunks       (* the chunks a server sends on one connection          *)

Op    == {"UPLOAD", "DOWNLOAD"}
Slots == 0 .. N - 1
NoTid == "notid"

ASSUME NAssumption         == N \in Nat \ {0}
ASSUME TidAssumption       == NoTid \notin Tid
ASSUME PlansAssumption     == Plans \subseteq Seq(Op)
ASSUME ProtocolsAssumption == Protocols \subseteq {"HTTP", "HTTPS"}
ASSUME BuffersAssumption   == UL_BUFFER_TIMES \in Nat \ {0}
ASSUME ChunksAssumption    == MaxChunks \in Nat

VARIABLES
  proto,       (* protocol, from the command line                         *)
  todo,        (* the tests main has not finished; the head is under way  *)
  pc, idx,     (* the controller: where it is, and its loop variable i    *)
  allocated,   (* the slot array is allocated                             *)
  running, tid,(* the fields of the slots the threads and controller use  *)
  stop, timer, (* thread_all_stop and the one-shot ITIMER_REAL            *)
  st,          (* where each thread is                                    *)
  slot, kind,  (* the slot and the start routine a thread was created for *)
  conn,        (* the receiving side of a thread's connection             *)
  chunks,      (* chunks the server has sent on it                        *)
  j,           (* buffers an upload thread has sent                       *)
  amt, reg,    (* what a thread is about to add, and the total it loaded  *)
  open,        (* the threads whose socket is open                        *)
  mutex,       (* the holder of pthread_mutex                             *)
  total,       (* total_ul_size and total_dl_size                         *)
  reported,    (* the total each test printed                             *)
  credited,    (* history: the sum of the amounts added to each total     *)
  taken, late, (* history: chunks recv returned, and those never counted  *)
  begun, fired (* history: tests begun, alarms delivered                  *)

ctlVars  == <<todo, pc, idx, allocated, reported>>
netVars  == <<conn, chunks>>
cntVars  == <<mutex, total, credited>>
thrVars  == <<slot, kind, j, amt, reg, open>>
histVars == <<taken, late, begun, fired>>
vars == <<proto, ctlVars, running, tid, stop, timer, st, netVars, cntVars,
          thrVars, histVars>>

WorkerLabels == {"none", "connect", "header", "send", "select", "ready", "late",
                 "lock", "store", "check", "close", "clear", "done"}
CtlLabels    == {"begin", "scan", "decide", "join", "free", "done", "killed"}

\* A thread that has been created and has not returned.
Live(t) == st[t] \notin {"none", "done"}

\* The process is still there: SIGPIPE or a crash ends every thread with it.
Up == pc # "killed"

Move(t, from, to) == st[t] = from /\ st' = [st EXCEPT ![t] = to]

Init ==
  /\ proto \in Protocols
  /\ todo \in Plans
  /\ pc = "begin" /\ idx = 0 /\ allocated = FALSE
  /\ running = [i \in Slots |-> 0]
  /\ tid = [i \in Slots |-> NoTid]
  /\ stop = 0 /\ timer = "off"
  /\ st = [t \in Tid |-> "none"]
  /\ slot = [t \in Tid |-> 0]
  /\ kind = [t \in Tid |-> "DOWNLOAD"]
  /\ conn = [t \in Tid |-> "empty"] /\ chunks = [t \in Tid |-> 0]
  /\ j = [t \in Tid |-> 0] /\ amt = [t \in Tid |-> 0] /\ reg = [t \in Tid |-> 0]
  /\ open = {}
  /\ mutex = NoTid
  /\ total = [o \in Op |-> 0] /\ credited = [o \in Op |-> 0]
  /\ reported = [o \in Op |-> 0]
  /\ taken = 0 /\ late = 0 /\ begun = 0 /\ fired = 0

-----------------------------------------------------------------------------
(* The controller *)

\* Mutant: thread_all_stop is not reset.
BeginNoReset ==
  /\ pc = "begin" /\ todo # <<>>
  /\ pc' = "scan" /\ idx' = 0 /\ allocated' = TRUE
  /\ running' = [i \in Slots |-> 0]
  /\ tid' = [i \in Slots |-> NoTid]
  /\ timer' = "armed" /\ begun' = begun + 1
  /\ UNCHANGED <<proto, todo, reported, stop, st, netVars, cntVars, thrVars,
                 taken, late, fired>>

\* The array is allocated and zeroed, the handler installed, the flag reset,
\* the timer set.
BeginTest ==
  /\ pc = "begin" /\ todo # <<>>
  /\ pc' = "scan" /\ idx' = 0 /\ allocated' = TRUE
  /\ running' = [i \in Slots |-> 0]
  /\ tid' = [i \in Slots |-> NoTid]
  /\ stop' = 0 /\ timer' = "armed"
  /\ begun' = begun + 1
  /\ UNCHANGED <<proto, todo, reported, st, netVars, cntVars, thrVars,
                 taken, late, fired>>

\* No server was found: the test returns an error and main ignores it.
SkipTest ==
  /\ pc = "begin" /\ todo # <<>>
  /\ todo' = Tail(todo)
  /\ UNCHANGED <<proto, pc, idx, allocated, reported, running, tid, stop, timer,
                 st, netVars, cntVars, thrVars, histVars>>

Exit ==
  /\ pc = "begin" /\ todo = <<>>
  /\ pc' = "done"
  /\ UNCHANGED <<proto, todo, idx, allocated, reported, running, tid, stop, timer,
                 st, netVars, cntVars, thrVars, histVars>>

\* Mutant: the last index is off by one.
NextSlotBeyond == IF idx = N THEN pc' = "decide" /\ idx' = 0
                             ELSE pc' = pc /\ idx' = idx + 1

NextSlot == IF idx = N - 1 THEN pc' = "decide" /\ idx' = 0
                           ELSE pc' = pc /\ idx' = idx + 1

ScanBusy ==
  /\ pc = "scan" /\ running[idx] = 1
  /\ NextSlot
  /\ UNCHANGED <<proto, todo, allocated, reported, running, tid, stop, timer, st,
                 netVars, cntVars, thrVars, histVars>>

CreateThread(t) ==
  /\ pc = "scan" /\ running[idx] = 0
  /\ st[t] = "none"
  /\ NextSlot
  /\ running' = [running EXCEPT ![idx] = 1]
  /\ tid' = [tid EXCEPT ![idx] = t]
  /\ st' = [st EXCEPT ![t] = "connect"]
  /\ slot' = [slot EXCEPT ![t] = idx]
  /\ kind' = [kind EXCEPT ![t] = Head(todo)]
  /\ UNCHANGED <<proto, todo, allocated, reported, stop, timer, netVars, cntVars,
                 j, amt, reg, open, histVars>>

\* pthread_create returns an error.  The flag stays 1, and the tid it leaves
\* is the old one or has no meaning.
CreateFails ==
  /\ pc = "scan" /\ running[idx] = 0
  /\ NextSlot
  /\ running' = [running EXCEPT ![idx] = 1]
  /\ \E v \in {tid[idx], NoTid} : tid' = [tid EXCEPT ![idx] = v]
  /\ UNCHANGED <<proto, todo, allocated, reported, stop, timer, st, netVars,
                 cntVars, thrVars, histVars>>

Rescan ==
  /\ pc = "decide" /\ stop = 0
  /\ pc' = "scan"
  /\ UNCHANGED <<proto, todo, idx, allocated, reported, running, tid, stop, timer,
                 st, netVars, cntVars, thrVars, histVars>>

\* Mutant: the threads are not joined.
ReportNoJoin ==
  /\ pc = "decide" /\ stop = 1
  /\ reported' = [reported EXCEPT ![Head(todo)] = total[Head(todo)]]
  /\ pc' = "free"
  /\ UNCHANGED <<proto, todo, idx, allocated, running, tid, stop, timer, st,
                 netVars, cntVars, thrVars, histVars>>

\* The speed is computed from the total, read without the mutex.
Report ==
  /\ pc = "decide" /\ stop = 1
  /\ reported' = [reported EXCEPT ![Head(todo)] = total[Head(todo)]]
  /\ pc' = "join"
  /\ UNCHANGED <<proto, todo, idx, allocated, running, tid, stop, timer, st,
                 netVars, cntVars, thrVars, histVars>>

NextJoin == IF idx = N - 1 THEN pc' = "free" /\ idx' = 0
                           ELSE pc' = pc /\ idx' = idx + 1

Join ==
  /\ pc = "join"
  /\ tid[idx] # NoTid /\ st[tid[idx]] = "done"
  /\ NextJoin
  /\ UNCHANGED <<proto, todo, allocated, reported, running, tid, stop, timer, st,
                 netVars, cntVars, thrVars, histVars>>

\* Joining what is not a thread: an error that is ignored, or a crash.
JoinInvalid ==
  /\ pc = "join" /\ tid[idx] = NoTid
  /\ NextJoin \/ (pc' = "killed" /\ idx' = idx)
  /\ UNCHANGED <<proto, todo, allocated, reported, running, tid, stop, timer, st,
                 netVars, cntVars, thrVars, histVars>>

Free ==
  /\ pc = "free"
  /\ allocated' = FALSE /\ todo' = Tail(todo) /\ pc' = "begin"
  /\ UNCHANGED <<proto, idx, reported, running, tid, stop, timer, st, netVars,
                 cntVars, thrVars, histVars>>

\* Mutant: the handler does not set the flag.
AlarmIgnored ==
  /\ Up /\ timer = "armed"
  /\ timer' = "off" /\ fired' = fired + 1
  /\ UNCHANGED <<proto, ctlVars, running, tid, stop, st, netVars, cntVars, thrVars,
                 taken, late, begun>>

\* speedtest_stop_all_thread, run on whichever thread takes the signal.
Alarm ==
  /\ Up /\ timer = "armed"
  /\ timer' = "off" /\ stop' = 1 /\ fired' = fired + 1
  /\ UNCHANGED <<proto, ctlVars, running, tid, st, netVars, cntVars, thrVars,
                 taken, late, begun>>

-----------------------------------------------------------------------------
(* What download_thread and upload_thread share *)

\* socket and connect succeed, or one fails and the thread goes to err.
Connect(t) ==
  /\ Up /\ proto = "HTTP"
  /\ \/ Move(t, "connect", "header") /\ open' = open \cup {t}
     \/ Move(t, "connect", "close")  /\ open' \in {open, open \cup {t}}
  /\ UNCHANGED <<proto, ctlVars, running, tid, stop, timer, netVars, cntVars,
                 slot, kind, j, amt, reg, histVars>>

\* The HTTPS branch: server_cert is never assigned, so the routine returns
\* with the flag set and the socket open.  A failed connect reaches err with no
\* SSL object to shut down: a crash, or nothing, as the library chooses.
ConnectHttps(t) ==
  /\ Up /\ proto = "HTTPS"
  /\ \/ Move(t, "connect", "done")  /\ open' = open \cup {t} /\ pc' = pc
     \/ Move(t, "connect", "close") /\ open' \in {open, open \cup {t}} /\ pc' = pc
     \/ st[t] = "connect" /\ pc' = "killed" /\ UNCHANGED <<st, open>>
  /\ UNCHANGED <<proto, todo, idx, allocated, reported, running, tid, stop, timer,
                 netVars, cntVars, slot, kind, j, amt, reg, histVars>>

\* send of the request header; an upload counts it.
SendHeader(t) ==
  /\ Up /\ conn[t] # "reset"
  /\ Move(t, "header", IF kind[t] = "UPLOAD" THEN "lock" ELSE "select")
  /\ amt' = [amt EXCEPT ![t] = IF kind[t] = "UPLOAD" THEN 1 ELSE 0]
  /\ UNCHANGED <<proto, ctlVars, running, tid, stop, timer, netVars, cntVars,
                 slot, kind, j, reg, open, histVars>>

HeaderFails(t) ==
  /\ Up /\ conn[t] = "reset" /\ Move(t, "header", "close")
  /\ UNCHANGED <<proto, ctlVars, running, tid, stop, timer, netVars, cntVars,
                 thrVars, histVars>>

\* Mutant: the total is updated without the mutex.
LockFree(t) ==
  /\ Up /\ Move(t, "lock", "store")
  /\ mutex' = t
  /\ reg' = [reg EXCEPT ![t] = total[kind[t]]]
  /\ UNCHANGED <<proto, ctlVars, running, tid, stop, timer, netVars, total,
                 credited, slot, kind, j, amt, open, histVars>>

\* pthread_mutex_lock, and the load of the total.
Lock(t) ==
  /\ Up /\ Move(t, "lock", "store")
  /\ mutex = NoTid /\ mutex' = t
  /\ reg' = [reg EXCEPT ![t] = total[kind[t]]]
  /\ UNCHANGED <<proto, ctlVars, running, tid, stop, timer, netVars, total,
                 credited, slot, kind, j, amt, open, histVars>>

\* The store of the total, and pthread_mutex_unlock.  The size of an upload's
\* header is added before the loop that looks at thread_all_stop.
Store(t) ==
  /\ Up
  /\ Move(t, "store", IF kind[t] = "UPLOAD" /\ j[t] = 0 THEN "send" ELSE "check")
  /\ total' = [total EXCEPT ![kind[t]] = reg[t] + amt[t]]
  /\ credited' = [credited EXCEPT ![kind[t]] = @ + amt[t]]
  /\ mutex' = NoTid
  /\ amt' = [amt EXCEPT ![t] = 0] /\ reg' = [reg EXCEPT ![t] = 0]
  /\ UNCHANGED <<proto, ctlVars, running, tid, stop, timer, netVars, slot, kind,
                 j, open, histVars>>

\* Where a thread goes after it has counted something.
AfterCheck(t) ==
  IF stop = 1 THEN "close"
  ELSE IF kind[t] = "UPLOAD" /\ j[t] < UL_BUFFER_TIMES THEN "send" ELSE "select"

CheckStop(t) ==
  /\ Up /\ Move(t, "check", AfterCheck(t))
  /\ UNCHANGED <<proto, ctlVars, running, tid, stop, timer, netVars, cntVars,
                 thrVars, histVars>>

\* select with its time limit of three seconds.
SelectReady(t) ==
  /\ Up /\ conn[t] # "empty" /\ Move(t, "select", "ready")
  /\ UNCHANGED <<proto, ctlVars, running, tid, stop, timer, netVars, cntVars,
                 thrVars, histVars>>

SelectTimeout(t) ==
  /\ Up /\ conn[t] = "empty" /\ Move(t, "select", "late")
  /\ UNCHANGED <<proto, ctlVars, running, tid, stop, timer, netVars, cntVars,
                 thrVars, histVars>>

\* recv after select announced something.  A download counts what it took,
\* an upload only waits for the end of the answer.
RecvData(t) ==
  /\ Up /\ conn[t] = "data"
  /\ Move(t, "ready", IF kind[t] = "DOWNLOAD" THEN "lock" ELSE "select")
  /\ conn' = [conn EXCEPT ![t] = "empty"]
  /\ amt' = [amt EXCEPT ![t] = IF kind[t] = "DOWNLOAD" THEN 1 ELSE 0]
  /\ taken' = taken + (IF kind[t] = "DOWNLOAD" THEN 1 ELSE 0)
  /\ UNCHANGED <<proto, ctlVars, running, tid, stop, timer, chunks, cntVars,
                 slot, kind, j, reg, open, late, begun, fired>>

\* Mutant: the end of the connection does not leave the loop.
RecvNoEnd(t) ==
  /\ Up /\ conn[t] # "data" /\ Move(t, "ready", "select")
  /\ UNCHANGED <<proto, ctlVars, running, tid, stop, timer, netVars, cntVars,
                 thrVars, histVars>>

RecvEnd(t) ==
  /\ Up /\ conn[t] # "data" /\ Move(t, "ready", "close")
  /\ UNCHANGED <<proto, ctlVars, running, tid, stop, timer, netVars, cntVars,
                 thrVars, histVars>>

\* Mutant: what a late recv returns is counted as well.
LateDataCounted(t) ==
  /\ Up /\ conn[t] = "data" /\ Move(t, "late", "lock")
  /\ conn' = [conn EXCEPT ![t] = "empty"]
  /\ amt' = [amt EXCEPT ![t] = 1]
  /\ taken' = taken + 1 /\ late' = late + 1
  /\ UNCHANGED <<proto, ctlVars, running, tid, stop, timer, chunks, cntVars,
                 slot, kind, j, reg, open, begun, fired>>

\* recv is called after the time limit as well, and blocks: what it then
\* returns is dropped, and neither the end nor thread_all_stop is looked at.
LateData(t) ==
  /\ Up /\ conn[t] = "data" /\ Move(t, "late", "select")
  /\ conn' = [conn EXCEPT ![t] = "empty"]
  /\ LET d == IF kind[t] = "DOWNLOAD" THEN 1 ELSE 0
     IN  taken' = taken + d /\ late' = late + d
  /\ UNCHANGED <<proto, ctlVars, running, tid, stop, timer, chunks, cntVars,
                 thrVars, begun, fired>>

\* The error of a reset is reported once, and then an end.
LateEnd(t) ==
  /\ Up /\ conn[t] \in {"eof", "reset"} /\ Move(t, "late", "select")
  /\ conn' = [conn EXCEPT ![t] = "eof"]
  /\ UNCHANGED <<proto, ctlVars, running, tid, stop, timer, chunks, cntVars,
                 thrVars, histVars>>

\* Mutant: the flag is cleared before the thread is done with its slot.
CloseAfterClear(t) ==
  /\ Up /\ Move(t, "close", "clear")
  /\ open' = open \ {t}
  /\ running' = [running EXCEPT ![slot[t]] = 0]
  /\ conn' = [conn EXCEPT ![t] = "empty"] /\ chunks' = [chunks EXCEPT ![t] = 0]
  /\ j' = [j EXCEPT ![t] = 0]
  /\ UNCHANGED <<proto, ctlVars, tid, stop, timer, cntVars, slot, kind, amt, reg,
                 histVars>>

\* Mutant: the socket stays open.
CloseNothing(t) ==
  /\ Up /\ Move(t, "close", "clear")
  /\ UNCHANGED <<proto, ctlVars, running, tid, stop, timer, netVars, cntVars,
                 thrVars, histVars>>

\* The socket is closed, unless socket failed.
Close(t) ==
  /\ Up /\ Move(t, "close", "clear")
  /\ open' = open \ {t}
  /\ conn' = [conn EXCEPT ![t] = "empty"] /\ chunks' = [chunks EXCEPT ![t] = 0]
  /\ j' = [j EXCEPT ![t] = 0]
  /\ UNCHANGED <<proto, ctlVars, running, tid, stop, timer, cntVars, slot, kind,
                 amt, reg, histVars>>

\* t_arg->running = 0, the last thing a thread does.
ClearRunning(t) ==
  /\ Up /\ Move(t, "clear", "done")
  /\ running' = [running EXCEPT ![slot[t]] = 0]
  /\ UNCHANGED <<proto, ctlVars, tid, stop, timer, netVars, cntVars, thrVars,
                 histVars>>

-----------------------------------------------------------------------------
(* The upload loop: an error of send is counted as -1, and a send on a       *)
(* connection already known to be broken raises SIGPIPE.                     *)
SendData(t) ==
  /\ Up /\ conn[t] # "broken" /\ Move(t, "send", "lock")
  /\ j' = [j EXCEPT ![t] = @ + 1]
  /\ amt' = [amt EXCEPT ![t] = IF conn[t] = "reset" THEN -1 ELSE 1]
  /\ conn' = [conn EXCEPT ![t] = IF @ = "reset" THEN "broken" ELSE @]
  /\ UNCHANGED <<proto, ctlVars, running, tid, stop, timer, chunks, cntVars,
                 slot, kind, reg, open, histVars>>

SigPipe(t) ==
  /\ Up /\ st[t] = "send" /\ conn[t] = "broken"
  /\ pc' = "killed"
  /\ UNCHANGED <<proto, todo, idx, allocated, reported, running, tid, stop, timer,
                 st, netVars, cntVars, thrVars, histVars>>

-----------------------------------------------------------------------------
(* The server *)

Connected(t) == t \in open /\ Live(t)

ServerData(t) ==
  /\ Up /\ Connected(t) /\ conn[t] = "empty" /\ chunks[t] < MaxChunks
  /\ conn' = [conn EXCEPT ![t] = "data"]
  /\ chunks' = [chunks EXCEPT ![t] = @ + 1]
  /\ UNCHANGED <<proto, ctlVars, running, tid, stop, timer, st, cntVars, thrVars,
                 histVars>>

ServerEnd(t) ==
  /\ Up /\ Connected(t) /\ conn[t] = "empty"
  /\ conn' = [conn EXCEPT ![t] = "eof"]
  /\ UNCHANGED <<proto, ctlVars, running, tid, stop, timer, st, chunks, cntVars,
                 thrVars, histVars>>

ServerReset(t) ==
  /\ Up /\ Connected(t) /\ conn[t] \in {"empty", "data", "eof"}
  /\ conn' = [conn EXCEPT ![t] = "reset"]
  /\ UNCHANGED <<proto, ctlVars, running, tid, stop, timer, st, chunks, cntVars,
                 thrVars, histVars>>

-----------------------------------------------------------------------------
Controller == \/ BeginTest \/ SkipTest \/ Exit
              \/ ScanBusy \/ CreateFails \/ \E t \in Tid : CreateThread(t)
              \/ Rescan \/ Report \/ Join \/ JoinInvalid \/ Free

\* The steps of a thread that need nothing of the network but an answer.
Worker(t) == \/ Connect(t) \/ ConnectHttps(t) \/ SendHeader(t) \/ HeaderFails(t)
             \/ Lock(t) \/ Store(t) \/ CheckStop(t)
             \/ SelectReady(t) \/ SelectTimeout(t)
             \/ RecvData(t) \/ RecvEnd(t) \/ LateData(t) \/ LateEnd(t)
             \/ Close(t) \/ ClearRunning(t) \/ SigPipe(t)

Server(t) == ServerData(t) \/ ServerEnd(t) \/ ServerReset(t)

Next == \/ Controller \/ Alarm
        \/ \E t \in Tid : Worker(t) \/ SendData(t) \/ Server(t)

Spec == Init /\ [][Next]_vars

\* The scheduler runs every thread that can run and the timer expires: what
\* the program and the kernel guarantee by themselves.
LocalFairness == /\ WF_vars(Controller) /\ WF_vars(Alarm)
                 /\ \A t \in Tid : WF_vars(Worker(t))

\* A server that answers: it drains what is sent to it and does not keep a
\* connection silent for ever.
ServerFairness == \A t \in Tid : WF_vars(SendData(t)) /\ WF_vars(Server(t))

LocalSpec == Spec /\ LocalFairness
FairSpec  == Spec /\ LocalFairness /\ ServerFairness
-----------------------------------------------------------------------------
(* The abstract view of the program *)

Phase == IF pc \in {"scan", "decide"}   THEN "measuring"
         ELSE IF pc \in {"join", "free"} THEN "shown"
         ELSE IF pc = "begin" THEN "idle"
         ELSE IF pc = "done"  THEN "over" ELSE "killed"

M == INSTANCE Meter WITH Amounts <- {-1, 1}, queue <- todo, phase <- Phase,
                         shown <- reported

\* The threads, the mutex and the joins together behave like one meter: a
\* transfer counts once, as a whole, and for the test under way; no thread of
\* one test counts while the next one runs.
MeterSpec == M!Spec
-----------------------------------------------------------------------------
(* Properties *)

TypeOK ==
  /\ proto \in Protocols
  /\ todo \in Seq(Op)
  /\ pc \in CtlLabels
  /\ idx \in Slots
  /\ allocated \in BOOLEAN
  /\ running \in [Slots -> {0, 1}]
  /\ tid \in [Slots -> Tid \cup {NoTid}]
  /\ stop \in {0, 1} /\ timer \in {"off", "armed"}
  /\ st \in [Tid -> WorkerLabels]
  /\ slot \in [Tid -> Slots]
  /\ kind \in [Tid -> Op]
  /\ conn \in [Tid -> {"empty", "data", "eof", "reset", "broken"}]
  /\ chunks \in [Tid -> Nat]
  /\ j \in [Tid -> Nat]
  /\ amt \in [Tid -> Int] /\ reg \in [Tid -> Int]
  /\ open \subseteq Tid
  /\ mutex \in Tid \cup {NoTid}
  /\ total \in [Op -> Int] /\ credited \in [Op -> Int] /\ reported \in [Op -> Int]
  /\ taken \in Nat /\ late \in Nat /\ begun \in Nat /\ fired \in Nat

\* A thread writes t_arg->running through a pointer into the array: as long
\* as one can run, the array must not have been freed, although the controller
\* joins only the last thread of each slot and overwrites the tid of the others.
NoUseAfterFree == \A t \in Tid : Live(t) => allocated

\* Two threads never work for the same slot, whatever the order in which they
\* clear the flag and the controller reads it.
OneThreadPerSlot ==
  \A t, u \in Tid : Live(t) /\ Live(u) /\ slot[t] = slot[u] => t = u

\* No update of a total is lost: each is the sum of all the amounts that the
\* threads added to it.
TotalExact == total = credited

\* A test leaves its scan only after its own alarm: the alarm of an earlier
\* test never cuts it short.
OwnAlarm == pc \in {"join", "free"} => fired = begun /\ timer = "off"

\* Every chunk recv returned to a download thread was counted, is about to be,
\* or was dropped after a select that had timed out.
ChunksAccounted ==
  LET inHand == {t \in Tid : kind[t] = "DOWNLOAD" /\ st[t] \in {"lock", "store"}}
  IN  taken = total["DOWNLOAD"] + Cardinality(inHand) + late

\* A finished HTTP thread has closed its socket.
SocketClosed == proto = "HTTP" => \A t \in open : Live(t)

\* With a server that answers, every run of the program ends.
ProgramEnds == <>(pc \in {"done", "killed"})

\* speedtest_stop_all_thread "Handles SIGALRM signal to stop all threads":
\* once the flag is up no thread is left running.
AlarmStopsThreads == stop = 1 ~> (~Up \/ \A t \in Tid : ~Live(t))
=============================================================================
