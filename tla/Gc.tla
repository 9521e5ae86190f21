---------------------------------- MODULE Gc ----------------------------------
(***************************************************************************)
(* The mark-compact collector of gc.c: a bump allocator, a mark phase that *)
(* keeps its breadth-first queue in the forward_address words of the heap  *)
(* itself, and a LISP2 compaction that lets mremap move the whole heap.    *)
(*                                                                         *)
(* One step of this module is one iteration of a loop of the code.  The    *)
(* collector runs inside alloc, so no other code runs between its steps;   *)
(* the steps are there so that the invariants of each loop can be stated.  *)
(* The module has no mutator: module InterpHeap extends it with the        *)
(* instruction handlers that allocate and that own the roots.              *)
(***************************************************************************)
EXTENDS LamaWords, Sequences, FiniteSets

CONSTANTS
  Bases,                 \* addresses at which mmap and mremap may put the heap
  MINIMUM_HEAP_CAPACITY, \* words of the first heap (4 in production)
  MAX_EXTRA_ROOTS_NUMBER \* cells of the pool of extra roots (32 in production)

ASSUME BasesAssumption ==
  Bases # {} /\ \A b \in Bases : b \in Nat /\ b % WORD_BYTES = 0 /\ b > 0
ASSUME CapacityAssumption == MINIMUM_HEAP_CAPACITY \in Nat \ {0}
ASSUME PoolAssumption == MAX_EXTRA_ROOTS_NUMBER \in Nat

EXTRA_ROOM_HEAP_COEFFICIENT == 2

VARIABLES
  heap,   \* memory_chunk: begin and current in bytes, size in words
  mem,    \* header address -> object
  stack,  \* words of [__gc_stack_top + 4, __gc_stack_bottom), the last is the top
  statics,\* words of [__start_custom_data, __stop_custom_data)
  locals, \* C variables of runtime functions that hold words: name -> word
  extra,  \* extra_roots.roots, the addresses of registered cells
  pc,     \* "run" in the mutator, else the place reached in alloc
  req,    \* the allocation in progress
  gc      \* the locals of the collector's loops

gcVars == <<heap, mem, stack, statics, locals, extra, pc, req, gc>>

-------------------------------------------------------------------------------
(* Objects and pointers *)

Word   == Nat
Object == [id: Nat, type: lama_type, len: Nat, words: Seq(Word),
           marked: BOOLEAN, enqueued: BOOLEAN, forward: Nat]

size_of(o)  == obj_words(o.type, o.len)
heap_end    == heap.begin + WORDS_TO_BYTES(heap.size)
next_obj(a) == a + WORDS_TO_BYTES(size_of(mem[a]))

\* The upper bound is heap.current itself: the contents of an object without
\* members that is the last of the heap start exactly there.
is_valid_heap_pointer(p) == ~UNBOXED(p) /\ heap.begin <= p /\ p <= heap.current

is_object(p) == TO_DATA(p) \in DOMAIN mem

\* Positions of the words of object o that may hold pointers to follow.
fields(o) == first_field(o.type, o.len) .. Len(o.words)

-------------------------------------------------------------------------------
(* Allocation *)

no_locals == [idx |-> 0, head |-> 0, tail |-> 0, obj |-> 0, fld |-> 0, it |-> 0,
              free |-> 0, live |-> 0, old |-> [begin |-> 0, current |-> 0]]

any_room(size) == heap.current <= heap_end
has_room(size) == heap.current + WORDS_TO_BYTES(size) <= heap_end

\* The successful branch of gc_alloc_on_existing_heap, taken from alloc (the
\* fast path) or from the end of gc_alloc.  The caller fills the object in.
place_object(o) ==
  /\ pc \in {"alloc", "retry"}
  /\ has_room(size_of(o))
  /\ mem' = [a \in DOMAIN mem \cup {heap.current} |->
               IF a = heap.current THEN o ELSE mem[a]]
  /\ heap' = [heap EXCEPT !.current = @ + WORDS_TO_BYTES(size_of(o))]
  /\ pc' = "run"
  /\ gc' = no_locals

\* alloc finds no room and calls gc_alloc, which starts with mark_phase.
gc_alloc ==
  /\ pc = "alloc"
  /\ ~has_room(req.size)
  /\ pc' = "mark_roots"
  /\ gc' = [no_locals EXCEPT !.idx = 1]
  /\ UNCHANGED <<heap, mem, stack, statics, locals, extra, req>>

-------------------------------------------------------------------------------
(* The pool of extra roots.  A registered cell is a word of the scanned      *)
(* stack, <<"stack", position>>, or a C variable below it, <<"local", name>>.*)

cell_word(c) == IF c[1] = "stack" THEN stack[c[2]] ELSE locals[c[2]]

\* push_extra_root for each of the cells in turn, pop_extra_root likewise.
pool_overflow_early(cells) == Len(extra) + Len(cells) >= MAX_EXTRA_ROOTS_NUMBER
pool_overflow(cells) == Len(extra) + Len(cells) > MAX_EXTRA_ROOTS_NUMBER
pushed_roots(cells)  == extra \o cells
pops_match(cells)    == /\ Len(cells) <= Len(extra)
                        /\ \A i \in DOMAIN cells : extra[Len(extra) + 1 - i] = cells[i]
popped_roots(cells)  == SubSeq(extra, 1, Len(extra) - Len(cells))

-------------------------------------------------------------------------------
(* mark_phase: gc_root_scan_stack from the top of the stack to its bottom,   *)
(* then scan_extra_roots and scan_global_area; mark() for each of the words. *)

root_count_no_statics == Len(stack) + Len(extra)
root_count == Len(stack) + Len(extra) + Len(statics)
root(i) ==
  CASE i <= Len(stack) -> stack[Len(stack) + 1 - i]
    [] i > Len(stack) /\ i <= Len(stack) + Len(extra) -> cell_word(extra[i - Len(stack)])
    [] i > Len(stack) + Len(extra) -> statics[i - Len(stack) - Len(extra)]

to_mark(p) == is_valid_heap_pointer(p) /\ ~mem[TO_DATA(p)].marked

\* mark() returns at once: not a heap pointer, or marked already.
mark_skip ==
  /\ pc = "mark_roots"
  /\ gc.idx <= root_count
  /\ ~to_mark(root(gc.idx))
  /\ gc' = [gc EXCEPT !.idx = @ + 1]
  /\ UNCHANGED <<heap, mem, stack, statics, locals, extra, pc, req>>

\* queue_enqueue: the slot of the queue is the forward_address of the object
\* the tail iterator stands on, whatever that object is.
enqueue(slot, p) ==
  [[mem EXCEPT ![slot].forward = p] EXCEPT ![TO_DATA(p)].enqueued = TRUE]

\* mark() starts with an empty queue at the first object of the heap.
mark_start ==
  /\ pc = "mark_roots"
  /\ gc.idx <= root_count
  /\ to_mark(root(gc.idx))
  /\ mem' = enqueue(heap.begin, root(gc.idx))
  /\ gc' = [gc EXCEPT !.head = heap.begin, !.tail = next_obj(heap.begin)]
  /\ pc' = "mark_queue"
  /\ UNCHANGED <<heap, stack, statics, locals, extra, req>>

dequeued_with_bit(o) == [o EXCEPT !.marked = TRUE]
dequeued(o) == [o EXCEPT !.enqueued = FALSE, !.marked = TRUE]

\* The loop head of mark(): queue_dequeue and mark_object.
mark_dequeue_in_place ==
  /\ pc = "mark_queue"
  /\ gc.head # gc.tail
  /\ LET cur == TO_DATA(mem[gc.head].forward) IN
       /\ mem' = [mem EXCEPT ![cur] = dequeued(@)]
       /\ gc' = [gc EXCEPT !.obj = cur,
                           !.fld = first_field(mem[cur].type, mem[cur].len)]
  /\ pc' = "mark_fields"
  /\ UNCHANGED <<heap, stack, statics, locals, extra, req>>
mark_dequeue ==
  /\ pc = "mark_queue"
  /\ gc.head # gc.tail
  /\ LET cur == TO_DATA(mem[gc.head].forward) IN
       /\ mem' = [mem EXCEPT ![cur] = dequeued(@)]
       /\ gc' = [gc EXCEPT !.head = next_obj(gc.head), !.obj = cur,
                           !.fld = first_field(mem[cur].type, mem[cur].len)]
  /\ pc' = "mark_fields"
  /\ UNCHANGED <<heap, stack, statics, locals, extra, req>>

to_enqueue(p) == /\ is_valid_heap_pointer(p)
                 /\ ~mem[TO_DATA(p)].marked
                 /\ ~mem[TO_DATA(p)].enqueued

\* One iteration of the loop over the fields of the dequeued object.
mark_field ==
  /\ pc = "mark_fields"
  /\ gc.fld <= Len(mem[gc.obj].words)
  /\ LET p == mem[gc.obj].words[gc.fld] IN
       IF to_enqueue(p)
       THEN /\ mem' = enqueue(gc.tail, p)
            /\ gc' = [gc EXCEPT !.tail = next_obj(gc.tail), !.fld = @ + 1]
       ELSE /\ mem' = mem
            /\ gc' = [gc EXCEPT !.fld = @ + 1]
  /\ UNCHANGED <<heap, stack, statics, locals, extra, pc, req>>

mark_fields_done ==
  /\ pc = "mark_fields"
  /\ gc.fld > Len(mem[gc.obj].words)
  /\ pc' = "mark_queue"
  /\ UNCHANGED <<heap, mem, stack, statics, locals, extra, req, gc>>

\* The queue is empty: mark() returns to the scan of the roots.
mark_done_skipping ==
  /\ pc = "mark_queue"
  /\ gc.head = gc.tail
  /\ gc' = [gc EXCEPT !.idx = @ + 2, !.head = 0, !.tail = 0, !.obj = 0, !.fld = 0]
  /\ pc' = "mark_roots"
  /\ UNCHANGED <<heap, mem, stack, statics, locals, extra, req>>
mark_done ==
  /\ pc = "mark_queue"
  /\ gc.head = gc.tail
  /\ gc' = [gc EXCEPT !.idx = @ + 1, !.head = 0, !.tail = 0, !.obj = 0, !.fld = 0]
  /\ pc' = "mark_roots"
  /\ UNCHANGED <<heap, mem, stack, statics, locals, extra, req>>

mark_phase_done ==
  /\ pc = "mark_roots"
  /\ gc.idx > root_count
  /\ gc' = [no_locals EXCEPT !.it = heap.begin, !.free = heap.begin]
  /\ pc' = "compute_locations"
  /\ UNCHANGED <<heap, mem, stack, statics, locals, extra, req>>

-------------------------------------------------------------------------------
(* compact_phase *)

compute_location_late ==
  /\ pc = "compute_locations"
  /\ gc.it < heap.current
  /\ LET next == gc.free + WORDS_TO_BYTES(size_of(mem[gc.it])) IN
       IF mem[gc.it].marked
       THEN /\ mem' = [mem EXCEPT ![gc.it].forward = next]
            /\ gc' = [gc EXCEPT !.it = next_obj(@), !.free = next]
       ELSE /\ mem' = mem
            /\ gc' = [gc EXCEPT !.it = next_obj(@)]
  /\ UNCHANGED <<heap, stack, statics, locals, extra, pc, req>>
compute_location ==
  /\ pc = "compute_locations"
  /\ gc.it < heap.current
  /\ IF mem[gc.it].marked
     THEN /\ mem' = [mem EXCEPT ![gc.it].forward = gc.free]
          /\ gc' = [gc EXCEPT !.it = next_obj(@),
                              !.free = @ + WORDS_TO_BYTES(size_of(mem[gc.it]))]
     ELSE /\ mem' = mem
          /\ gc' = [gc EXCEPT !.it = next_obj(@)]
  /\ UNCHANGED <<heap, stack, statics, locals, extra, pc, req>>

max(x, y) == IF x > y THEN x ELSE y

live_words == (gc.free - heap.begin) \div WORD_BYTES
heap_size_without_request(size) ==
  max(max(live_words * EXTRA_ROOM_HEAP_COEFFICIENT, MINIMUM_HEAP_CAPACITY), heap.size)
next_heap_size(size) ==
  max(max(live_words * EXTRA_ROOM_HEAP_COEFFICIENT + size, MINIMUM_HEAP_CAPACITY), heap.size)

\* mremap keeps the contents and may move them to another address, but only
\* when the heap grows.
mremap ==
  /\ pc = "compute_locations"
  /\ gc.it >= heap.current
  /\ \E b \in (IF next_heap_size(req.size) = heap.size THEN {heap.begin} ELSE Bases) :
       /\ heap' = [begin |-> b, size |-> next_heap_size(req.size),
                   current |-> b + (heap.current - heap.begin)]
       /\ mem' = [a \in {x + (b - heap.begin) : x \in DOMAIN mem} |->
                    mem[a - (b - heap.begin)]]
       /\ gc' = [no_locals EXCEPT !.it = b, !.live = gc.free - heap.begin,
                                  !.old = [begin |-> heap.begin, current |-> heap.current]]
  /\ pc' = "update_references"
  /\ UNCHANGED <<stack, statics, locals, extra, req>>

in_old_heap(p) == ~UNBOXED(p) /\ gc.old.begin <= p /\ p <= gc.old.current

\* Where an object or a contents address of the old heap lies before
\* relocation, and where the forward address of an object sends it.
after_mremap(p) == heap.begin + (p - gc.old.begin)
forwarded(o) == after_mremap(o.forward)

unadjusted_reference(p) ==
  IF in_old_heap(p)
  THEN get_object_content_ptr(mem[TO_DATA(after_mremap(p))].forward)
  ELSE p
new_reference(p) ==
  IF in_old_heap(p)
  THEN get_object_content_ptr(forwarded(mem[TO_DATA(after_mremap(p))]))
  ELSE p

\* update_references for one object; the fields are fixed independently.
update_object_stuck ==
  /\ pc = "update_references"
  /\ gc.it < heap.current
  /\ mem' = IF mem[gc.it].marked
            THEN [mem EXCEPT ![gc.it].words =
                    [i \in DOMAIN @ |-> IF i \in fields(mem[gc.it])
                                        THEN new_reference(@[i]) ELSE @[i]]]
            ELSE mem
  /\ gc' = IF mem[gc.it].marked THEN [gc EXCEPT !.it = next_obj(@)] ELSE gc
  /\ UNCHANGED <<heap, stack, statics, locals, extra, pc, req>>
update_object ==
  /\ pc = "update_references"
  /\ gc.it < heap.current
  /\ mem' = IF mem[gc.it].marked
            THEN [mem EXCEPT ![gc.it].words =
                    [i \in DOMAIN @ |-> IF i \in fields(mem[gc.it])
                                        THEN new_reference(@[i]) ELSE @[i]]]
            ELSE mem
  /\ gc' = [gc EXCEPT !.it = next_obj(@)]
  /\ UNCHANGED <<heap, stack, statics, locals, extra, pc, req>>

\* scan_and_fix_region for the stack.  Its bound is one word beyond the bottom;
\* that word is not the stack's, and is left out.
fix_stack_but_top ==
  /\ pc = "update_references"
  /\ gc.it >= heap.current
  /\ stack' = [i \in DOMAIN stack |-> IF i = Len(stack) THEN stack[i]
                                                      ELSE new_reference(stack[i])]
  /\ gc' = [gc EXCEPT !.idx = 1]
  /\ pc' = "fix_extra_roots"
  /\ UNCHANGED <<heap, mem, statics, locals, extra, req>>
fix_stack ==
  /\ pc = "update_references"
  /\ gc.it >= heap.current
  /\ stack' = [i \in DOMAIN stack |-> new_reference(stack[i])]
  /\ gc' = [gc EXCEPT !.idx = 1]
  /\ pc' = "fix_extra_roots"
  /\ UNCHANGED <<heap, mem, statics, locals, extra, req>>

\* A registered cell of the stack has been fixed with the stack and is skipped.  So
\* would be one of the static area, but no function registers any.
skipped(c) == c[1] = "stack"

\* One iteration of scan_and_fix_region_roots.
fix_extra_root ==
  /\ pc = "fix_extra_roots"
  /\ gc.idx <= Len(extra)
  /\ LET c == extra[gc.idx]
         w == IF skipped(c) THEN cell_word(c) ELSE new_reference(cell_word(c))
     IN  IF c[1] = "stack"
         THEN stack' = [stack EXCEPT ![c[2]] = w] /\ locals' = locals
         ELSE locals' = [locals EXCEPT ![c[2]] = w] /\ stack' = stack
  /\ gc' = [gc EXCEPT !.idx = @ + 1]
  /\ UNCHANGED <<heap, mem, statics, extra, pc, req>>

\* scan_and_fix_region for the static area ends update_references.
leave_statics ==
  /\ pc = "fix_extra_roots"
  /\ gc.idx > Len(extra)
  /\ gc' = [gc EXCEPT !.idx = 0, !.it = heap.begin]
  /\ pc' = "physically_relocate"
  /\ UNCHANGED <<heap, mem, stack, statics, locals, extra, req>>
fix_statics ==
  /\ pc = "fix_extra_roots"
  /\ gc.idx > Len(extra)
  /\ statics' = [i \in DOMAIN statics |-> new_reference(statics[i])]
  /\ gc' = [gc EXCEPT !.idx = 0, !.it = heap.begin]
  /\ pc' = "physically_relocate"
  /\ UNCHANGED <<heap, mem, stack, locals, extra, req>>

\* memmove of object o to address to: headers under it are overwritten.
memmove(o, to) ==
  LET end  == to + WORDS_TO_BYTES(size_of(o))
      kept == {a \in DOMAIN mem : next_obj(a) <= to \/ a >= end}
  IN  [a \in kept \cup {to} |-> IF a = to THEN o ELSE mem[a]]

relocated_still_marked(o) == o
relocated(o) == [o EXCEPT !.marked = FALSE]

\* One iteration of physically_relocate; the iterator has moved on before the
\* object is moved.
relocate_object ==
  /\ pc = "physically_relocate"
  /\ gc.it < heap.current
  /\ gc' = [gc EXCEPT !.it = next_obj(@)]
  /\ mem' = IF mem[gc.it].marked
            THEN memmove(relocated(mem[gc.it]), forwarded(mem[gc.it]))
            ELSE mem
  /\ UNCHANGED <<heap, stack, statics, locals, extra, pc, req>>

\* The end of compact_phase: what lies above the live objects is free again.
compact_phase_done ==
  /\ pc = "physically_relocate"
  /\ gc.it >= heap.current
  /\ heap' = [heap EXCEPT !.current = heap.begin + gc.live]
  /\ mem' = [a \in {x \in DOMAIN mem : x < heap.begin + gc.live} |-> mem[a]]
  /\ pc' = "retry"
  /\ gc' = no_locals
  /\ UNCHANGED <<stack, statics, locals, extra, req>>

Mark == \/ mark_skip \/ mark_start \/ mark_dequeue \/ mark_field
        \/ mark_fields_done \/ mark_done \/ mark_phase_done

Compact == \/ compute_location \/ mremap \/ update_object \/ fix_stack
           \/ fix_extra_root \/ fix_statics \/ relocate_object
           \/ compact_phase_done

Collect == gc_alloc \/ Mark \/ Compact

\* __init: an empty heap of the minimum capacity.
GcInit ==
  /\ \E b \in Bases :
       heap = [begin |-> b, size |-> MINIMUM_HEAP_CAPACITY, current |-> b]
  /\ mem = << >>
  /\ locals = << >> /\ extra = << >>
  /\ pc = "run"
  /\ gc = no_locals
===============================================================================
