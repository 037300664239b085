------------------------------ MODULE ProcessSync ------------------------------
(***************************************************************************)
(* The two processes of IPC/Sychronization/P3.  Parent and child take      *)
(* turns on process_sync.txt: the one whose turn it is scans the file's    *)
(* records for the last counter, adds a constant to it, appends the sum as *)
(* a new record and sends SIGUSR1 to the other one, then waits for that    *)
(* signal itself.  SIGUSR1 is blocked except inside sigsuspend, so a       *)
(* signal that comes early stays pending; a second one merges with it.     *)
(*                                                                         *)
(* A user may kill either process and start the program again; the file    *)
(* stays, and is empty when the process that created it was killed before  *)
(* fclose.  Counters are in units of what one turn adds, and wrap at the   *)
(* bound Wrap.  The bytes that a window of the file with several newlines  *)
(* has too many for its buffer either land where nothing is read any more  *)
(* or end the process, which Kill allows at any point.                     *)
(***************************************************************************)
EXTENDS Naturals, Sequences

CONSTANTS
  Wrap,   (* bound: counters are kept modulo Wrap                           *)
  Keep    (* bound: a scan starts at the last Keep records of the file      *)

ASSUME WrapAssumption == Wrap \in Nat /\ Wrap > 1
ASSUME KeepAssumption == Keep \in Nat \ {0}

Proc == {"parent", "child"}
Other(p) == IF p = "parent" THEN "child" ELSE "parent"
Count == 0 .. Wrap - 1

VARIABLES
  pc,       (* where each process is in its loop                           *)
  alive,    (* the processes of this run that were not killed              *)
  pending,  (* the processes SIGUSR1 is pending for                        *)
  counter,  (* my_counter of each process                                  *)
  exists,   (* process_sync.txt has been created                           *)
  file,     (* the counters of its (last Keep) records                     *)
  from,     (* data_len: the records a scan has passed                     *)
  found,    (* filter_data: the counter it copied last                     *)
  appends,  (* history: the records appended so far, modulo Wrap           *)
  garbled   (* history: a scan found no record in the file                 *)

fileVars == <<exists, file, appends>>
scanVars == <<from, found, garbled>>
vars == <<pc, alive, pending, counter, fileVars, scanVars>>

(* The child works at once, the parent is about to wait for it. *)
Start == [p \in Proc |-> IF p = "child" THEN "read" ELSE "wait"]
Zero  == [p \in Proc |-> 0]

Init ==
  /\ pc = Start
  /\ alive = Proc
  /\ pending = {}
  /\ counter = Zero
  /\ exists = FALSE /\ file = <<>>
  /\ from = Zero /\ found = Zero
  /\ appends = 0
  /\ garbled = FALSE

Go(p, here, there) ==
  /\ p \in alive /\ pc[p] = here
  /\ pc' = [pc EXCEPT ![p] = there]

-------------------------------------------------------------------------------
(* process_file_operation_read *)

(* file_handle_check_file_exist: without a file the counter is 0. *)
CheckExist(p) ==
  /\ Go(p, "read", IF exists THEN "scan" ELSE "append")
  /\ counter' = [counter EXCEPT ![p] = IF exists THEN @ ELSE 0]
  /\ UNCHANGED <<alive, pending, fileVars, scanVars>>

(* The whole records among the 51 characters file_handle_read returns. *)
Window(p) == {n \in from[p] + 1 .. from[p] + 3 : n <= Len(file)}

(* A START_CHAR and a STOP_CHAR are found in the window. *)
HasRecord(p) == Window(p) # {}

(* utilities_copy_parameter: what lies between the first two of them. *)
Copied(p) == file[CHOOSE n \in Window(p) : \A m \in Window(p) : n <= m]

(* One turn of the loop: the record is copied and passed over. *)
Scan(p) ==
  /\ Go(p, "scan", "scan") /\ HasRecord(p)
  /\ found' = [found EXCEPT ![p] = Copied(p)]
  /\ from' = [from EXCEPT ![p] = @ + 1]
  /\ UNCHANGED <<alive, pending, counter, fileVars, garbled>>

Forget(p) == from' = [from EXCEPT ![p] = 0] /\ found' = [found EXCEPT ![p] = 0]

(* A mutant: what the process wrote itself is what it goes on from. *)
ReadOnce(p) ==
  /\ Go(p, "scan", "append") /\ ~ HasRecord(p) /\ from[p] > 0
  /\ counter' = [counter EXCEPT ![p] = IF @ = 0 THEN found[p] ELSE @]
  /\ Forget(p)
  /\ UNCHANGED <<alive, pending, fileVars, garbled>>

(* No next record: the counter is that of the last one copied. *)
ScanEnd(p) ==
  /\ Go(p, "scan", "append") /\ ~ HasRecord(p) /\ from[p] > 0
  /\ counter' = [counter EXCEPT ![p] = found[p]]
  /\ Forget(p)
  /\ UNCHANGED <<alive, pending, fileVars, garbled>>

(* No record at all: filter_data was never written.  Without a ':' in it   *)
(* memcpy gets the length -1, which ends the process; otherwise the        *)
(* counter is whatever number follows the ':'.                             *)
ScanNothing(p) ==
  /\ ~ HasRecord(p) /\ from[p] = 0
  /\ \/ /\ Go(p, "scan", "append")
        /\ \E c \in Count : counter' = [counter EXCEPT ![p] = c]
        /\ alive' = alive
     \/ /\ Go(p, "scan", "scan")
        /\ alive' = alive \ {p}
        /\ counter' = counter
  /\ garbled' = TRUE
  /\ UNCHANGED <<pending, fileVars, from, found>>

-------------------------------------------------------------------------------
(* process_file_operation_write *)

(* The counter is increased and the file opened, which creates it. *)
Open(p) ==
  /\ Go(p, "append", "write")
  /\ counter' = [counter EXCEPT ![p] = (@ + 1) % Wrap]
  /\ exists' = TRUE
  /\ UNCHANGED <<alive, pending, file, appends, scanVars>>

(* fclose: the record reaches the end of the file. *)
Write(p) ==
  /\ Go(p, "write", "signal")
  /\ file' = Append(IF Len(file) = Keep THEN Tail(file) ELSE file, counter[p])
  /\ appends' = (appends + 1) % Wrap
  /\ UNCHANGED <<alive, pending, counter, exists, scanVars>>

-------------------------------------------------------------------------------
(* The signals *)

(* A mutant: a signal that comes before sigsuspend is lost. *)
Unblocked(p) ==
  /\ Go(p, "signal", "wait")
  /\ pending' = IF Other(p) \in alive /\ pc[Other(p)] = "suspend"
                THEN pending \cup {Other(p)} ELSE pending
  /\ UNCHANGED <<alive, counter, fileVars, scanVars>>

(* A mutant: the signal is sent to a process that is gone. *)
SignalGone(p) ==
  /\ Go(p, "signal", "wait")
  /\ pending' = pending \cup {Other(p)}
  /\ UNCHANGED <<alive, counter, fileVars, scanVars>>

(* kill: a process that is gone gets nothing; the child's getppid() is     *)
(* then a process that has no part in this.                                *)
Signal(p) ==
  /\ Go(p, "signal", "wait")
  /\ pending' = IF Other(p) \in alive THEN pending \cup {Other(p)} ELSE pending
  /\ UNCHANGED <<alive, counter, fileVars, scanVars>>

(* The process has printed what it has to and calls sigsuspend. *)
Suspend(p) ==
  /\ Go(p, "wait", "suspend")
  /\ UNCHANGED <<alive, pending, counter, fileVars, scanVars>>

(* A mutant: the wait ends without the signal. *)
ResumeAnyway(p) ==
  /\ Go(p, "suspend", "read")
  /\ pending' = pending \ {p}
  /\ UNCHANGED <<alive, counter, fileVars, scanVars>>

(* sigsuspend returns when the signal is, or becomes, pending. *)
Resume(p) ==
  /\ Go(p, "suspend", "read") /\ p \in pending
  /\ pending' = pending \ {p}
  /\ UNCHANGED <<alive, counter, fileVars, scanVars>>

-------------------------------------------------------------------------------
(* The user *)

(* A user kills a process at any point. *)
Kill(p) ==
  /\ p \in alive
  /\ alive' = alive \ {p}
  /\ pending' = pending \ {p}
  /\ UNCHANGED <<pc, counter, fileVars, scanVars>>

Waiting(p) == pc[p] \in {"wait", "suspend"}
Active(p)  == p \in alive /\ (~ Waiting(p) \/ p \in pending)

(* The program is started again when what is left of it waits for ever.   *)
(* An orphan that still works would be a third writer: it is not modelled. *)
Restart ==
  /\ alive # Proc
  /\ \A p \in Proc : ~ Active(p)
  /\ pc' = Start
  /\ alive' = Proc
  /\ pending' = {}
  /\ counter' = Zero
  /\ from' = Zero /\ found' = Zero
  /\ UNCHANGED <<fileVars, garbled>>

Read(p) == CheckExist(p) \/ Scan(p) \/ ScanEnd(p) \/ ScanNothing(p)
Step(p) == Read(p) \/ Open(p) \/ Write(p) \/ Signal(p) \/ Suspend(p) \/ Resume(p)
Next == (\E p \in Proc : Step(p) \/ Kill(p)) \/ Restart

Spec == Init /\ [][Next]_vars
(* The system schedules a process that can run. *)
FairSpec == Spec /\ \A p \in Proc : WF_vars(Step(p))

-------------------------------------------------------------------------------
(* The type invariant. *)
TypeOK ==
  /\ pc \in [Proc -> {"read", "scan", "append", "write", "signal", "wait", "suspend"}]
  /\ alive \subseteq Proc
  /\ pending \subseteq alive
  /\ counter \in [Proc -> Count]
  /\ exists \in BOOLEAN
  /\ file \in Seq(Count) /\ Len(file) <= Keep
  /\ from \in [Proc -> Nat]
  /\ found \in [Proc -> Count]
  /\ appends \in Count
  /\ garbled \in BOOLEAN

(* The processes never work at the same time: between the signal that      *)
(* wakes a process and the signal it sends, the other one waits, or is     *)
(* about to, with no signal pending (main.c 119-136, 144-158).             *)
OneWorks == ~ (Active("parent") /\ Active("child"))

LastCounter == IF file = <<>> THEN 0 ELSE file[Len(file)]

(* No update is lost: the last record counts every record of the file,     *)
(* those of runs that were killed at any point included, unless a process  *)
(* was killed between the fopen that created the file and the fclose, and  *)
(* a later one read the empty file (main.c 40-88, file_handle.c 20-26).    *)
Counted == ~ garbled => LastCounter = appends

(* As long as nobody kills them, both processes go on writing for ever: no *)
(* signal is lost, and they never both wait (main.c 98-101, 129-134,       *)
(* 149-156).                                                               *)
BothWrite ==
  <>[](alive = Proc) => \A p \in Proc : []<>(p \in alive /\ pc[p] = "append")
===============================================================================
