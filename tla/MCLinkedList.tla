----------------------------- MODULE MCLinkedList -----------------------------
(* The linked list for TLC.  Addresses are only compared and stored.       *)
EXTENDS LinkedList, TLC

MCSymmetry == Permutations(Node)
=============================================================================
