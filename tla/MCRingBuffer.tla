---------------------------- MODULE MCRingBuffer -----------------------------
(* The ring buffer for TLC: writers pass up to MaxLen bytes. *)
EXTENDS RingBuffer

CONSTANT MaxLen

MCData == UNION {[1 .. n -> Value] : n \in 1 .. MaxLen}
=============================================================================
