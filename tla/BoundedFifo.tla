----------------------------- MODULE BoundedFifo -----------------------------
(***************************************************************************)
(* What a ring buffer promises one producer and one consumer: a queue of   *)
(* at most Cap values.  A producer's call is cut to what was free when it  *)
(* began, a consumer's to what was there when it began, and each takes     *)
(* effect at one moment between its beginning and its end.                 *)
(***************************************************************************)
EXTENDS Integers, Sequences

CONSTANTS Value, Cap

VARIABLES
  q,     (* the values written and not yet read                            *)
  arg,   (* producer: the data of the call under way, or the empty sequence *)
  fit,   (* producer: how much of it is going to be taken                  *)
  want,  (* consumer: how many values the read under way is going to take  *)
  got    (* consumer: what the last read or peek returned                  *)

fifoVars == <<q, arg, fit, want, got>>

Lesser(m, n) == IF m < n THEN m ELSE n

Init == q = <<>> /\ arg = <<>> /\ fit = 0 /\ want = 0 /\ got = <<>>

Offer ==
  /\ arg = <<>>
  /\ arg' \in Seq(Value) /\ arg' # <<>>
  /\ fit' = Lesser(Cap - Len(q), Len(arg')) /\ fit' > 0
  /\ UNCHANGED <<q, want, got>>

Put ==
  /\ arg # <<>>
  /\ q' = q \o SubSeq(arg, 1, fit)
  /\ arg' = <<>> /\ fit' = 0
  /\ UNCHANGED <<want, got>>

Ask ==
  /\ want = 0
  /\ want' \in 1 .. Len(q)
  /\ UNCHANGED <<q, arg, fit, got>>

Take ==
  /\ want > 0
  /\ got' = SubSeq(q, 1, want)
  /\ q' = SubSeq(q, want + 1, Len(q))
  /\ want' = 0
  /\ UNCHANGED <<arg, fit>>

Look ==
  /\ want = 0
  /\ \E k \in 0 .. Len(q) : \E n \in 1 .. Len(q) - k : got' = SubSeq(q, k + 1, k + n)
  /\ UNCHANGED <<q, arg, fit, want>>

Drop ==
  /\ want = 0
  /\ \E n \in 1 .. Len(q) : q' = SubSeq(q, n + 1, Len(q))
  /\ UNCHANGED <<arg, fit, want, got>>

Clear ==
  /\ arg = <<>> /\ want = 0
  /\ q' = <<>>
  /\ UNCHANGED <<arg, fit, want, got>>

Next == Offer \/ Put \/ Ask \/ Take \/ Look \/ Drop \/ Clear

Spec == Init /\ [][Next]_fifoVars
=============================================================================
