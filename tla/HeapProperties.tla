---------------------------- MODULE HeapProperties ----------------------------
(***************************************************************************)
(* What must hold of the heap and the collector (module Gc) whichever      *)
(* program uses them (module HeapClient and the modules that extend it).   *)
(***************************************************************************)
EXTENDS HeapClient

gc_idle    == pc \in {"run", "failed", "alloc", "retry"}
marking    == pc \in {"mark_roots", "mark_queue", "mark_fields"}
compacting == pc \in {"compute_locations", "update_references", "fix_extra_roots",
                      "physically_relocate"}

\* The types of the variables of the collector and of its dumps: words and
\* addresses are naturals, objects are records of the heap, the program counter
\* is a place of the code, a registered cell exists.  The names of the functions
\* that allocate are for the modules of the programs to list.
Cell == {"stack"} \X DOMAIN stack \cup {"local"} \X DOMAIN locals
ClientTypeOK ==
  /\ heap \in [begin: Nat, current: Nat, size: Nat \ {0}]
  /\ DOMAIN mem \subseteq Nat /\ \A a \in DOMAIN mem : mem[a] \in Object
  /\ stack \in Seq(Word) /\ statics \in Seq(Word)
  /\ locals \in [DOMAIN locals -> Word]
  /\ extra \in Seq(Cell) /\ Len(extra) <= MAX_EXTRA_ROOTS_NUMBER
  /\ gc_idle \/ marking \/ compacting
  /\ req \in [op: {req.op}, type: lama_type, len: Nat, size: Nat]
  /\ gc \in [idx: Nat, head: Nat, tail: Nat, obj: Nat, fld: Nat, it: Nat, free: Nat,
             live: Nat, old: [begin: Nat, current: Nat]]
  /\ cur_id \in Nat

-------------------------------------------------------------------------------
(* The heap as the iterators see it *)

\* The heap is a sequence of objects: heap_next_obj_iterator leads from
\* heap.begin over headers only and ends exactly at heap.current, except
\* while physically_relocate is overwriting the part below its iterator.
tiled_from(a) ==
  /\ a = heap.current \/ a \in DOMAIN mem
  /\ \A b \in DOMAIN mem : b >= a =>
       /\ next_obj(b) = heap.current \/ next_obj(b) \in DOMAIN mem
       /\ \A c \in DOMAIN mem : c > b => next_obj(b) <= c
HeapParsable ==
  /\ heap.current <= heap_end
  /\ \A a \in DOMAIN mem : heap.begin <= a /\ next_obj(a) <= heap.current
  /\ pc # "physically_relocate" => tiled_from(heap.begin)
  /\ pc \in {"compute_locations", "physically_relocate"} => tiled_from(gc.it)

\* No word that the program or the collector follows dangles: outside a
\* collection every word of the stack, of the registered cells and of the
\* fields of any object that looks like a heap pointer is the address of the
\* contents of an object.
sound(p) == is_valid_heap_pointer(p) => is_object(p)
NoDanglingPointers ==
  gc_idle => /\ \A i \in 1 .. root_count : sound(root(i))
             /\ \A a \in DOMAIN mem : \A i \in fields(mem[a]) : sound(mem[a].words[i])

-------------------------------------------------------------------------------
(* The collector *)

\* Both bits of forward_address are clear whenever the program runs, or the
\* next collection would take a live object for one it has visited.
BitsClearOutsideCollection ==
  gc_idle => \A a \in DOMAIN mem : ~mem[a].marked /\ ~mem[a].enqueued

\* The queue of mark(): the slots are the objects from head to tail.
queue_slots == {a \in DOMAIN mem : gc.head <= a /\ a < gc.tail}
queued(a)   == mem[a].forward

\* The comment in mark(): the queue contains only unmarked objects, each of
\* them once, and exactly those whose enqueued bit is set; and the queue never
\* needs more slots than the heap has objects.
QueueInvariant ==
  pc \in {"mark_queue", "mark_fields"} =>
    /\ gc.tail <= heap.current
    /\ \A a \in queue_slots : is_object(queued(a)) /\ ~object_at(queued(a)).marked
    /\ \A a, b \in queue_slots : queued(a) = queued(b) => a = b
    /\ {TO_DATA(queued(a)) : a \in queue_slots} = {a \in DOMAIN mem : mem[a].enqueued}

\* mark_phase marks what the roots reach and nothing else.
MarkedAreReachable ==
  pc = "compute_locations" => {a \in DOMAIN mem : mem[a].marked} = live_objects

\* Objects only slide down and never over an object that has not moved yet:
\* the destination is at most the address of the object, and the objects in
\* the order of the heap have disjoint destinations in the same order.
size(a)     == WORDS_TO_BYTES(size_of(mem[a]))
moved_to(a) == IF pc = "compute_locations" THEN mem[a].forward ELSE forwarded(mem[a])
to_move     == {a \in DOMAIN mem : /\ mem[a].marked
                                   /\ pc = "compute_locations" => a < gc.it
                                   /\ pc = "physically_relocate" => a >= gc.it}
SlidesDown ==
  compacting => \A a \in to_move :
    /\ heap.begin <= moved_to(a) /\ moved_to(a) <= a
    /\ \A b \in to_move : a < b => moved_to(a) + size(a) <= moved_to(b)

\* A finished collection leaves room for the object it was started for, so
\* the second gc_alloc_on_existing_heap, whose NULL nobody tests, succeeds;
\* and then for as many words again as survived, so that the next collection
\* only comes when so much has been allocated.
survived == (heap.current - heap.begin) \div WORD_BYTES
CollectionMakesRoom == pc = "retry" => has_room(req.size + survived)

\* The dumps that gc_alloc compares under FULL_INVARIANT_CHECKS agree: the
\* stack and the graph of live objects are after a collection what they were
\* before it.
DumpsAgree == pc = "retry" => now_roots = dump.roots /\ now_graph = dump.graph

\* A collection keeps exactly the live objects, in their order
\* (test_garbage_is_reclaimed, test_gc in test_main.c).
GarbageReclaimedInOrder == pc = "retry" => ids_in_order(DOMAIN mem) = dump.order

\* Every call of alloc returns: each loop of the collector ends.
AllocReturns == (pc = "alloc") ~> (pc = "run")

\* The comments in mark() and scan_extra_roots: what is handed to mark() and
\* looks like a heap pointer is the contents of an object.
MarkedRootsAreContents ==
  (pc = "alloc" /\ ~has_room(req.size)) => \A i \in 1 .. root_count : sound(root(i))

===============================================================================
