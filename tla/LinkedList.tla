------------------------------ MODULE LinkedList ------------------------------
(***************************************************************************)
(* llist.c: the list of the socket server, as nodes that point to the      *)
(* next.  It has no lock; one thread calls it here.  Addresses are a       *)
(* finite set, and a freed one may be given out again; only                *)
(* llist_insert_at_end looks whether malloc gave one, and the others are   *)
(* not called when there is none.                                          *)
(***************************************************************************)
EXTENDS Integers, Sequences, FiniteSets

CONSTANTS
  Node,     (* the addresses malloc can give                               *)
  Datum,    (* the data, ordered as integers                               *)
  NULL

ASSUME NodeAssumption  == NULL \notin Node \cup Datum /\ IsFiniteSet(Node)
ASSUME DatumAssumption == Datum \subseteq Int

VARIABLES
  list,     (* the list was created and not freed                          *)
  head,     (* *list                                                       *)
  next,     (* curr->next                                                  *)
  data,     (* curr->data                                                  *)
  heap,     (* the nodes that are allocated                                *)
  last      (* the last call: its name, its argument, and what it returned or
               handed over in order                                        *)

vars == <<list, head, next, data, heap, last>>

Init ==
  /\ list = FALSE /\ head = NULL
  /\ next = [n \in Node |-> NULL] /\ data = [n \in Node |-> NULL]
  /\ heap = {} /\ last = <<"none">>

\* The walks: from *list on, at most limit nodes, all of them among passed.
Walk(passed, limit) ==
  LET to[path \in Seq(Node)] ==
        LET curr == IF path = <<>> THEN head ELSE next[path[Len(path)]]
        IN IF Len(path) < limit /\ curr \in passed THEN to[Append(path, curr)] ELSE path
  IN to[<<>>]

Whole == Walk(Node, Cardinality(Node))

\* prev->next, or *list when there is no node in front, in place of which
\* the node behind n follows.
Unlink(path, n) ==
  IF path = <<>> THEN head' = next[n] /\ next' = [next EXCEPT ![n] = NULL]
  ELSE /\ next' = [next EXCEPT ![path[Len(path)]] = next[n], ![n] = NULL]
       /\ UNCHANGED head

Following(path) == IF path = <<>> THEN head ELSE next[path[Len(path)]]

\* A new node is linked behind a path, in front of what followed.
Insert(path, d) ==
  \E n \in Node \ heap :
    /\ heap' = heap \cup {n}
    /\ data' = [data EXCEPT ![n] = d]
    /\ IF path = <<>> THEN head' = n /\ next' = [next EXCEPT ![n] = head]
       ELSE /\ next' = [next EXCEPT ![n] = Following(path), ![path[Len(path)]] = n]
            /\ UNCHANGED head

\* Mutant: the node is taken out but not freed.
RemoveKeep(path) ==
  /\ Unlink(path, Following(path))
  /\ UNCHANGED <<data, heap>>

\* The node behind a path is taken out and freed.  What a free node holds is
\* never read, so it is NULL here.
Remove(path) ==
  LET n == Following(path)
  IN /\ Unlink(path, n)
     /\ heap' = heap \ {n} /\ data' = [data EXCEPT ![n] = NULL]

Unchanged == UNCHANGED <<head, next, data, heap>>

-----------------------------------------------------------------------------
llist_create(d) ==
  /\ ~list /\ list' = TRUE
  /\ \E n \in Node \ heap :
       /\ heap' = heap \cup {n} /\ head' = n
       /\ data' = [data EXCEPT ![n] = d] /\ next' = [next EXCEPT ![n] = NULL]
  /\ last' = <<"create", d>>

llist_free ==
  /\ list /\ list' = FALSE
  /\ LET freed == {Whole[i] : i \in 1 .. Len(Whole)}
     IN /\ heap' = heap \ freed
        /\ next' = [n \in Node |-> IF n \in freed THEN NULL ELSE next[n]]
        /\ data' = [n \in Node |-> IF n \in freed THEN NULL ELSE data[n]]
  /\ head' = NULL
  /\ last' = <<"free">>

\* Data goes into an empty first node.
FillHead(d) == data' = [data EXCEPT ![head] = d] /\ UNCHANGED <<head, next, heap>>

llist_add_inorder(d) ==
  /\ list /\ UNCHANGED list
  /\ LET smaller == {n \in Node : data[n] # NULL /\ data[n] < d}
     IN \/ head = NULL /\ Unchanged /\ last' = <<"add_inorder", d, 0>>
        \/ head # NULL /\ data[head] = NULL /\ FillHead(d) /\ last' = <<"add_inorder", d, 1>>
        \/ head # NULL /\ data[head] # NULL /\ Insert(Walk(smaller, Cardinality(Node)), d) /\ last' = <<"add_inorder", d, 1>>

llist_push(d) ==
  /\ list /\ UNCHANGED list /\ last' = <<"push", d>>
  /\ \/ head = NULL /\ Unchanged
     \/ head # NULL /\ data[head] = NULL /\ FillHead(d)
     \/ head # NULL /\ data[head] # NULL /\ Insert(<<>>, d)

\* There is a first node and it holds data.
HasFirst == head # NULL /\ data[head] # NULL

llist_pop ==
  /\ list /\ UNCHANGED list
  /\ \/ ~HasFirst /\ Unchanged /\ last' = <<"pop", NULL>>
     \/ HasFirst /\ Remove(<<>>) /\ last' = <<"pop", data[head]>>

\* Position 0 is refused; a position behind the end changes nothing.
llist_delete_at_position(position) ==
  /\ list /\ UNCHANGED list /\ last' = <<"delete_at_position", position>>
  /\ LET path == Walk(Node, position)
     IN \/ (position = 0 \/ Following(path) = NULL) /\ Unchanged
        \/ position # 0 /\ Following(path) # NULL /\ Remove(path)

llist_delete_at_beginning ==
  /\ list /\ UNCHANGED list /\ last' = <<"delete_at_beginning">>
  /\ \/ head = NULL /\ Unchanged
     \/ head # NULL /\ Remove(<<>>)

\* Mutant: the node before the last is taken for the last.
llist_delete_at_end_two ==
  /\ list /\ UNCHANGED list /\ last' = <<"delete_at_end">>
  /\ \/ head = NULL /\ Unchanged
     \/ head # NULL /\ Remove(SubSeq(Whole, 1, Len(Whole) - 2))

llist_delete_at_end ==
  /\ list /\ UNCHANGED list /\ last' = <<"delete_at_end">>
  /\ \/ head = NULL /\ Unchanged
     \/ head # NULL /\ Remove(SubSeq(Whole, 1, Len(Whole) - 1))

llist_insert_at_end(d) ==
  /\ list /\ UNCHANGED list /\ last' = <<"insert_at_end", d>>
  /\ \/ Insert(Whole, d)
     \/ heap = Node /\ Unchanged

\* A function is called for every datum in order.
Visit ==
  /\ list /\ last' = <<"visit">> \o [i \in 1 .. Len(Whole) |-> data[Whole[i]]]
  /\ UNCHANGED list /\ Unchanged

llist_print    == Visit
llist_traverse == Visit

\* Bound: one position behind the end of the longest list.
Positions == 0 .. Cardinality(Node)

Next ==
  \/ \E d \in Datum \cup {NULL} : llist_create(d)
  \/ \E d \in Datum : llist_add_inorder(d) \/ llist_push(d) \/ llist_insert_at_end(d)
  \/ \E n \in Positions : llist_delete_at_position(n)
  \/ llist_free \/ llist_pop \/ llist_delete_at_beginning \/ llist_delete_at_end
  \/ llist_print \/ llist_traverse

Spec == Init /\ [][Next]_vars

-----------------------------------------------------------------------------
(* What the list keeps.                                                    *)

\* The allocated nodes are one chain from *list to NULL, with no node
\* outside it (a leak), none in it twice (a loop) and none in it that was
\* freed; without a list nothing is allocated.
WellFormed ==
  /\ list \in BOOLEAN /\ heap \subseteq Node
  /\ data \in [Node -> Datum \cup {NULL}]
  /\ ~list => heap = {}
  /\ \E chain \in [1 .. Cardinality(heap) -> heap] :
       LET At(i) == IF i \in DOMAIN chain THEN chain[i] ELSE NULL
       IN /\ heap = {chain[i] : i \in DOMAIN chain}
          /\ head = At(1)
          /\ \A i \in DOMAIN chain : next[chain[i]] = At(i + 1)

L == INSTANCE ListOfData WITH
       Empty <- NULL, Position <- Positions, exists <- list,
       entries <- [i \in 1 .. Len(Whole) |-> data[Whole[i]]]

\* What llist.h does not say: a list that has lost its last node refuses an
\* element pushed "to the front of the linked list" (llist.h:47, llist.c:96),
\* and the node "at the specified position" (llist.h:68) is not deleted when
\* that is 0 (llist.c:155).
Refused ==
  /\ list /\ UNCHANGED list /\ Unchanged
  /\ \/ head = NULL /\ \E d \in Datum : last' = <<"push", d>>
     \/ last' = <<"delete_at_position", 0>>

\* No call loses, repeats or misplaces data by its pointers: each one does to the
\* data along the chain what ListOfData promises of that call, and returns what
\* it promises, or is refused and changes nothing.
ImplementsList == L!Init /\ [][L!Next \/ Refused]_(L!listVars)
=============================================================================
