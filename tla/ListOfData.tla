------------------------------ MODULE ListOfData ------------------------------
(***************************************************************************)
(* The linked list as llist.h promises it to its callers: what each call   *)
(* does to a sequence of data, nodes and pointers apart.  An entry may be  *)
(* Empty: a list is created with one, and the first push or ordered insert *)
(* fills it while it is in front.                                          *)
(***************************************************************************)
EXTENDS Integers, Sequences

CONSTANTS Datum,     (* the data, ordered as integers                      *)
          Position,  (* the positions asked for                            *)
          Empty      (* no data                                            *)

VARIABLES
  exists,   (* there is a list                                             *)
  entries,  (* its data                                                    *)
  last      (* the last call: its name, its argument, and what it returned or
               handed over in order                                        *)

listVars == <<exists, entries, last>>

Before(s, i)  == SubSeq(s, 1, i)
Behind(s, i)  == SubSeq(s, i + 1, Len(s))
Sorted(s)     == /\ \A i \in 1 .. Len(s) : s[i] # Empty
                 /\ \A i, j \in 1 .. Len(s) : i < j => s[i] <= s[j]

Init == exists = FALSE /\ entries = <<>> /\ last = <<"none">>

Create ==
  /\ ~exists /\ exists' = TRUE
  /\ \E d \in Datum \cup {Empty} : entries' = <<d>> /\ last' = <<"create", d>>

Discard == exists /\ exists' = FALSE /\ entries' = <<>> /\ last' = <<"free">>

Fill(d) ==
  /\ entries # <<>> /\ entries[1] = Empty
  /\ entries' = <<d>> \o Behind(entries, 1)

\* A sorted list stays sorted, and an unsorted one loses nothing.  It fails, and
\* says so, on a list without entries.
AddInOrder(d) ==
  /\ exists
  /\ \/ entries = <<>> /\ entries' = entries /\ last' = <<"add_inorder", d, 0>>
     \/ Fill(d) /\ last' = <<"add_inorder", d, 1>>
     \/ /\ entries # <<>> /\ entries[1] # Empty
        /\ \E i \in 0 .. Len(entries) : entries' = Before(entries, i) \o <<d>> \o Behind(entries, i)
        /\ Sorted(entries) => Sorted(entries')
        /\ last' = <<"add_inorder", d, 1>>
  /\ UNCHANGED exists

Push(d) ==
  /\ exists
  /\ \/ Fill(d)
     \/ (entries = <<>> \/ entries[1] # Empty) /\ entries' = <<d>> \o entries
  /\ last' = <<"push", d>> /\ UNCHANGED exists

HasFirst == entries # <<>> /\ entries[1] # Empty

Pop ==
  /\ exists
  /\ \/ ~HasFirst /\ entries' = entries /\ last' = <<"pop", Empty>>
     \/ HasFirst /\ entries' = Behind(entries, 1) /\ last' = <<"pop", entries[1]>>
  /\ UNCHANGED exists

\* Nothing is inserted when there is no memory.
InsertAtEnd(d) ==
  /\ exists /\ entries' \in {entries, Append(entries, d)}
  /\ last' = <<"insert_at_end", d>> /\ UNCHANGED exists

\* Positions count from 0; where no entry is, none is deleted.
DeleteAt(n) ==
  /\ exists
  /\ entries' = IF n \in 0 .. Len(entries) - 1 THEN Before(entries, n) \o Behind(entries, n + 1)
                ELSE entries
  /\ last' = <<"delete_at_position", n>> /\ UNCHANGED exists

DeleteFirst ==
  /\ exists
  /\ entries' = IF entries = <<>> THEN entries ELSE Behind(entries, 1)
  /\ last' = <<"delete_at_beginning">> /\ UNCHANGED exists

DeleteLast ==
  /\ exists
  /\ entries' = IF entries = <<>> THEN entries ELSE Before(entries, Len(entries) - 1)
  /\ last' = <<"delete_at_end">> /\ UNCHANGED exists

\* llist_print and llist_traverse hand over the data in order.
Visit == exists /\ last' = <<"visit">> \o entries /\ UNCHANGED <<exists, entries>>

Next ==
  \/ Create \/ Discard \/ Pop \/ DeleteFirst \/ DeleteLast \/ Visit
  \/ \E d \in Datum : AddInOrder(d) \/ Push(d) \/ InsertAtEnd(d)
  \/ \E n \in Position : DeleteAt(n)

Spec == Init /\ [][Next]_listVars
=============================================================================
