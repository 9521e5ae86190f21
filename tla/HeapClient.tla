------------------------------ MODULE HeapClient ------------------------------
(***************************************************************************)
(* What the programs that use the collector of module Gc have in common:   *)
(* the two halves of a function that allocates, the number that each       *)
(* object gets, and the dumps of the roots and of the graph of objects     *)
(* that gc_alloc writes under FULL_INVARIANT_CHECKS.                       *)
(*                                                                         *)
(* A function that allocates takes two steps, the request (all it does up  *)
(* to the call of alloc) and the return (all it does with the new object): *)
(* between them the collector may run and move every object, so a value    *)
(* that the code reads before alloc is read in the request and a value     *)
(* that it reads after alloc is read in the return.                        *)
(***************************************************************************)
EXTENDS Gc

CONSTANT MaxAlloc  \* bound: objects allocated in a run

ASSUME MaxAllocAssumption == MaxAlloc \in Nat

VARIABLES
  cur_id,  \* objects allocated so far, the id of the last one
  dump     \* the state seen at the start of gc_alloc, as its dumps record it

clientVars == <<gcVars, cur_id, dump>>

-------------------------------------------------------------------------------
(* Operands: the top of the stack is its last word *)

operand(i)     == stack[Len(stack) + 1 - i]
popped_more(n) == SubSeq(stack, 1, Len(stack) - n - 1)
popped(n)      == SubSeq(stack, 1, Len(stack) - n)
push(s, v)     == Append(s, v)

last_operands_early(n) == SubSeq(stack, Len(stack) - n, Len(stack) - 1)
last_operands(n)       == SubSeq(stack, Len(stack) - n + 1, Len(stack))

object_at(p) == mem[TO_DATA(p)]

\* The characters that functions of the C library see: those before a zero.
c_text(s) == SubSeq(s, 1, Cardinality({i \in DOMAIN s : \A j \in 1 .. i : s[j] # 0}))

\* failure(): a message and exit(255).
failure == /\ pc' = "failed"
           /\ UNCHANGED <<heap, mem, stack, statics, locals, extra, req, gc, cur_id, dump>>

-------------------------------------------------------------------------------
(* Allocation *)

no_dump == [roots |-> << >>, graph |-> << >>, order |-> << >>]

\* Everything up to the call of alloc, which first counts the object.
request(op, type, len) ==
  /\ pc = "run" /\ cur_id < MaxAlloc
  /\ req' = [op |-> op, type |-> type, len |-> len, size |-> obj_words(type, len)]
  /\ cur_id' = cur_id + 1
  /\ pc' = "alloc"
  /\ UNCHANGED <<heap, mem, gc, dump>>

\* The object alloc_array, alloc_sexp, ... initialise and the caller fills.
new_object(contents) ==
  [id |-> cur_id, type |-> req.type, len |-> req.len, words |-> contents,
   marked |-> FALSE, enqueued |-> FALSE, forward |-> 0]

\* alloc returns and the object is filled.
allocated(op, contents) ==
  /\ req.op = op
  /\ place_object(new_object(contents))
  /\ dump' = no_dump

new_address == get_object_content_ptr(heap.current)

-------------------------------------------------------------------------------
(* The abstract value of a state: the object graph under the addresses *)

abs_word(p) == IF is_valid_heap_pointer(p) /\ is_object(p) THEN <<"ref", object_at(p).id>>
                                                           ELSE <<"word", p>>
abs_words(o) == [i \in DOMAIN o.words |-> IF i \in fields(o) THEN abs_word(o.words[i])
                                                             ELSE <<"word", o.words[i]>>]
abs_object(o) == [type |-> o.type, len |-> o.len, words |-> abs_words(o)]

now_roots == [i \in DOMAIN statics |-> abs_word(statics[i])]
               \o [i \in DOMAIN stack |-> abs_word(stack[i])]
               \o [i \in DOMAIN extra |-> abs_word(cell_word(extra[i]))]

\* Header addresses of the objects that the roots reach, each in at most as
\* many steps as there are objects.
targets(words) == {TO_DATA(p) : p \in {w \in words : is_valid_heap_pointer(w)}}
root_targets   == targets({root(i) : i \in 1 .. root_count})
field_targets(a) == targets({mem[a].words[i] : i \in fields(mem[a])})
live_objects ==
  LET within[n \in Nat] == IF n = 0 THEN root_targets \cap DOMAIN mem
                           ELSE UNION {{a} \cup (field_targets(a) \cap DOMAIN mem)
                                         : a \in within[n - 1]}
  IN  within[Cardinality(DOMAIN mem)]

now_graph ==
  [d \in {mem[a].id : a \in live_objects} |->
     abs_object(mem[CHOOSE a \in DOMAIN mem : mem[a].id = d])]

\* ids of the objects at the addresses in s, in the order of the heap
ids_in_order(s) ==
  [n \in 1 .. Cardinality(s) |->
     mem[CHOOSE a \in s : Cardinality({b \in s : b <= a}) = n].id]

\* gc_alloc dumps the stack and the heap before it marks.
gc_alloc_dump ==
  /\ gc_alloc
  /\ dump' = [roots |-> now_roots, graph |-> now_graph, order |-> ids_in_order(live_objects)]
  /\ UNCHANGED cur_id

CollectStep == \/ gc_alloc_dump
               \/ (Mark \/ Compact) /\ UNCHANGED <<cur_id, dump>>
===============================================================================
