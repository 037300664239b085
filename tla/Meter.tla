-------------------------------- MODULE Meter --------------------------------
(***************************************************************************)
(* What SpeedTest/main.c asks of the two speed tests: they are run one     *)
(* after the other, the total of a test changes by whole transfers and     *)
(* only while that test is under way, and what is shown is the total at    *)
(* one moment of the test.  The process may be killed at any time.         *)
(***************************************************************************)
EXTENDS Integers, Sequences

CONSTANTS Op,        \* the kinds of test
          Amounts    \* by how much one transfer may change a total

VARIABLES queue,     \* the tests that have not ended, the current one first
          phase,     \* "idle", "measuring", "shown", "over" or "killed"
          total,     \* units transferred by the tests of each kind
          shown      \* what the last test of each kind showed

vars == <<queue, phase, total, shown>>

Init ==
  /\ queue \in Seq(Op) /\ phase = "idle"
  /\ total = [o \in Op |-> 0] /\ shown = [o \in Op |-> 0]

Begin == phase = "idle" /\ queue # <<>> /\ phase' = "measuring"
         /\ UNCHANGED <<queue, total, shown>>

\* A test for which no server is found ends before it begins.
Skip == phase = "idle" /\ queue # <<>> /\ queue' = Tail(queue)
        /\ UNCHANGED <<phase, total, shown>>

Add(d) == /\ phase \in {"measuring", "shown"}
          /\ total' = [total EXCEPT ![Head(queue)] = @ + d]
          /\ UNCHANGED <<queue, phase, shown>>

Show == /\ phase = "measuring" /\ phase' = "shown"
        /\ shown' = [shown EXCEPT ![Head(queue)] = total[Head(queue)]]
        /\ UNCHANGED <<queue, total>>

End == phase = "shown" /\ phase' = "idle" /\ queue' = Tail(queue)
       /\ UNCHANGED <<total, shown>>

Finish == phase = "idle" /\ queue = <<>> /\ phase' = "over"
          /\ UNCHANGED <<queue, total, shown>>

Killed == phase \in {"measuring", "shown"} /\ phase' = "killed"
          /\ UNCHANGED <<queue, total, shown>>

Next == Begin \/ Skip \/ Show \/ End \/ Finish \/ Killed
        \/ \E d \in Amounts : Add(d)

Spec == Init /\ [][Next]_vars
=============================================================================
