------------------------- MODULE HeapSoundness_proofs -------------------------
(***************************************************************************)
(* Every step of the collector, and what its callers do to the heap,       *)
(* preserves the inductive invariants Structure and Soundness of modules   *)
(* HeapStructure and HeapSoundness, for every heap size and every value of *)
(* the words in the heap.  The shape of the heap comes first, with one     *)
(* lemma for each phase of gc_alloc and one for each kind of step of a     *)
(* caller.  Its contents come after it: no phase loses an object that a    *)
(* root leads to, and no word that is followed points at anything but an   *)
(* object.  Module InterpHeap_proofs concludes that both are invariants of *)
(* the interpreter.                                                        *)
(***************************************************************************)
EXTENDS HeapSoundness, TLAPS, FiniteSetTheorems, SequenceTheorems

-------------------------------------------------------------------------------
(* Objects and memories *)

\* Memory n has the objects of memory m at the same addresses, with the same
\* headers; their words and their forward_address may differ.
same_layout(m, n) ==
  /\ n = [a \in DOMAIN n |-> n[a]]
  /\ DOMAIN n = DOMAIN m
  /\ \A a \in DOMAIN m : shaped(n[a]) /\ n[a].type = m[a].type /\ n[a].len = m[a].len

memory(m) == m = [a \in DOMAIN m |-> m[a]] /\ \A a \in DOMAIN m : shaped(m[a])

\* An object takes at least the two words of its header.
LEMMA SizeOf == ASSUME NEW o, shaped(o) PROVE size_of(o) \in Nat /\ size_of(o) >= 2
  BY DEF shaped, size_of, obj_words, obj_bytes, BYTES_TO_WORDS, WORD_BYTES, DATA_HEADER_SZ, MEMBER_SIZE, lama_type

\* The size of an object depends on its header alone (obj_size_header_ptr).
LEMMA SameSize ==
  ASSUME NEW o, NEW q, o.type = q.type, o.len = q.len PROVE size_of(o) = size_of(q)
  BY DEF size_of

\* Writing a forward_address keeps the layout of the heap, at any address.
LEMMA SetForward ==
  ASSUME NEW m, memory(m), NEW a, NEW v
  PROVE  memory([m EXCEPT ![a].forward = v]) /\ same_layout(m, [m EXCEPT ![a].forward = v])
  BY DEF memory, same_layout, shaped, ObjectFields

\* So does make_enqueued.
LEMMA SetEnqueued ==
  ASSUME NEW m, memory(m), NEW a, NEW v
  PROVE  memory([m EXCEPT ![a].enqueued = v]) /\ same_layout(m, [m EXCEPT ![a].enqueued = v])
  BY DEF memory, same_layout, shaped, ObjectFields

\* So do make_dequeued and mark_object.
LEMMA SetDequeued ==
  ASSUME NEW m, memory(m), NEW a
  PROVE  same_layout(m, [m EXCEPT ![a] = dequeued(@)])
<1>1. \A x \in DOMAIN m : shaped(dequeued(m[x]))
                          /\ dequeued(m[x]).type = m[x].type /\ dequeued(m[x]).len = m[x].len
  BY DEF memory, shaped, ObjectFields, dequeued
<1> QED BY <1>1 DEF memory, same_layout

\* So does update_references for all the words of an object.
LEMMA SetWords ==
  ASSUME NEW m, memory(m), NEW a, NEW v
  PROVE  memory([m EXCEPT ![a].words = v]) /\ same_layout(m, [m EXCEPT ![a].words = v])
  BY DEF memory, same_layout, shaped, ObjectFields

\* So does a store to one word, Bsta or a store to a captured variable.
LEMMA SetWord ==
  ASSUME NEW m, memory(m), NEW a, NEW v, NEW i
  PROVE  memory([m EXCEPT ![a].words[i] = v]) /\ same_layout(m, [m EXCEPT ![a].words[i] = v])
  BY SMTT(20) DEF memory, same_layout, shaped, ObjectFields

\* Layouts compose.
LEMMA SameLayoutTrans ==
  ASSUME NEW m, NEW n, NEW o, same_layout(m, n), same_layout(n, o)
  PROVE  same_layout(m, o)
  BY DEF same_layout

\* A heap has its own layout.
LEMMA SameLayoutRefl == ASSUME NEW m, memory(m) PROVE same_layout(m, m)
  BY DEF same_layout, memory

\* A step that keeps the layout keeps what the heap iterators rely on.
LEMMA LayoutKept ==
  ASSUME Shapes, Bounds, heap' = heap, same_layout(mem, mem')
  PROVE  /\ Shapes' /\ Bounds'
         /\ \A a \in DOMAIN mem : next_obj(a)' = next_obj(a) /\ size(a)' = size(a)
         /\ \A x : tiled_from(x) => tiled_from(x)'
<1>1. \A a \in DOMAIN mem : next_obj(a)' = next_obj(a) /\ size(a)' = size(a)
  BY SameSize DEF next_obj, size, same_layout
<1>2. Shapes' BY DEF Shapes, same_layout
<1>3. Bounds' BY <1>1 DEF Bounds, same_layout, heap_end
<1>4. ASSUME NEW x, tiled_from(x) PROVE tiled_from(x)'
  BY <1>1, <1>4 DEF tiled_from, same_layout
<1> QED BY <1>1, <1>2, <1>3, <1>4


-------------------------------------------------------------------------------
(* Steps that leave the layout of the heap alone and do not compact *)

quiet == {"run", "failed", "alloc", "mark_roots", "mark_queue", "mark_fields"}

\* A step outside compact_phase that keeps the layout keeps the invariant.
LEMMA QuietStep ==
  ASSUME Structure, pc # "physically_relocate", pc' \in quiet,
         heap' = heap, same_layout(mem, mem'), AllocShape'
  PROVE  Structure'
<1>1. Shapes' /\ Bounds' /\ tiled_from(heap.begin)'
  BY LayoutKept DEF Structure
<1>2. Computing' /\ Updating' /\ Relocating' /\ CollectionMakesRoom'
  BY DEF quiet, Computing, Updating, Relocating, CollectionMakesRoom
<1> QED BY <1>1, <1>2 DEF Structure

\* The heap is a memory.
LEMMA MemoryOf == ASSUME Shapes PROVE memory(mem)
  BY DEF Shapes, memory

\* The steps of mark_phase change forward_address words only.
LEMMA MarkStep ==
  ASSUME Structure, gc_alloc \/ mark_skip \/ mark_start \/ mark_dequeue \/ mark_field
                    \/ mark_fields_done \/ mark_done
  PROVE  Structure'
<1> USE DEF quiet
<1>1. memory(mem) /\ same_layout(mem, mem) /\ AllocShape
  BY MemoryOf, SameLayoutRefl DEF Structure
<1>2. \A slot, p : memory(enqueue(slot, p)) /\ same_layout(mem, enqueue(slot, p))
  <2> TAKE slot, p
  <2>1. /\ memory([mem EXCEPT ![slot].forward = p])
        /\ same_layout(mem, [mem EXCEPT ![slot].forward = p])
    BY <1>1, SetForward
  <2>2. /\ memory(enqueue(slot, p))
        /\ same_layout([mem EXCEPT ![slot].forward = p], enqueue(slot, p))
    BY <2>1, SetEnqueued DEF enqueue
  <2> QED BY <2>1, <2>2, SameLayoutTrans
<1>3. CASE gc_alloc
  BY <1>1, <1>3, QuietStep DEF gc_alloc, AllocShape, no_locals, LocalFields, marking
<1>4. CASE mark_skip
  BY <1>1, <1>4, QuietStep DEF mark_skip, AllocShape, LocalFields, marking
<1>5. CASE mark_start
  BY <1>1, <1>2, <1>5, QuietStep DEF mark_start, AllocShape, LocalFields, marking
<1>6. CASE mark_dequeue
  <2>1. same_layout(mem, mem')
    BY <1>1, <1>6, SetDequeued DEF mark_dequeue
  <2> QED BY <1>1, <1>6, <2>1, QuietStep DEF mark_dequeue, AllocShape, LocalFields, marking
<1>7. CASE mark_field
  <2> DEFINE p == mem[gc.obj].words[gc.fld]
  <2>1. mem' = enqueue(gc.tail, p) \/ mem' = mem
    BY <1>7 DEF mark_field
  <2>2. same_layout(mem, mem')
    BY <1>1, <1>2, <2>1
  <2>3. gc' = [f \in LocalFields |-> gc'[f]]
    BY <1>1, <1>7 DEF mark_field, AllocShape, LocalFields
  <2> QED BY <1>1, <1>7, <2>2, <2>3, QuietStep DEF mark_field, AllocShape, marking
<1>8. CASE mark_fields_done
  BY <1>1, <1>8, QuietStep DEF mark_fields_done, AllocShape, LocalFields, marking
<1>9. CASE mark_done
  BY <1>1, <1>9, QuietStep DEF mark_done, AllocShape, LocalFields, marking
<1> QED BY <1>3, <1>4, <1>5, <1>6, <1>7, <1>8, <1>9

-------------------------------------------------------------------------------
(* compute_locations *)

\* compute_locations starts with no destination at the first object.
LEMMA MarkPhaseDone == ASSUME Structure, mark_phase_done PROVE Structure'
<1> USE DEF mark_phase_done, no_locals
<1>1. Shapes' /\ Bounds' /\ tiled_from(heap.begin)'
  BY MemoryOf, SameLayoutRefl, LayoutKept DEF Structure
<1>2. AllocShape'
  BY DEF Structure, AllocShape, LocalFields, compacting
<1>3. gc'.it = heap.begin /\ gc'.free = heap.begin /\ heap.begin \in Nat
  BY DEF Structure, Shapes
<1>4. to_move' = {}
  BY <1>3 DEF to_move, Structure, Bounds, Shapes
<1>5. chain(to_move, heap.begin, gc.free)'
  BY <1>3, <1>4 DEF chain
<1>6. Computing'
  BY <1>1, <1>3, <1>5 DEF Computing, Structure, Bounds, WORD_BYTES
<1>7. Updating' /\ Relocating' /\ CollectionMakesRoom'
  BY DEF Updating, Relocating, CollectionMakesRoom
<1> QED BY <1>1, <1>2, <1>6, <1>7 DEF Structure

\* One iteration of compute_locations extends the chain of destinations by the
\* object under the iterator, or leaves it alone.
LEMMA ComputeLocation == ASSUME Structure, compute_location PROVE Structure'
<1> PICK it : it = gc.it OBVIOUS
<1> PICK o : o = mem[it] OBVIOUS
<1> PICK S : S = to_move OBVIOUS
<1>1. /\ memory(mem) /\ Shapes /\ Bounds /\ AllocShape /\ tiled_from(heap.begin)
      /\ Computing /\ pc = "compute_locations" /\ pc' = pc /\ heap' = heap /\ req' = req
  BY MemoryOf DEF Structure, compute_location
<1>2. /\ it \in Nat /\ it < heap.current /\ it \in DOMAIN mem /\ shaped(o)
      /\ heap.begin \in Nat /\ heap.current \in Nat /\ heap.begin <= it
  BY <1>1 DEF compute_location, Computing, tiled_from, Shapes, Bounds
<1>3. /\ size_of(o) \in Nat /\ size_of(o) > 0
      /\ size(it) = 4 * size_of(o) /\ next_obj(it) = it + size(it)
  BY <1>2, SizeOf DEF size, next_obj, WORDS_TO_BYTES, WORD_BYTES
<1>4. same_layout(mem, mem')
  BY <1>1, SetForward, SameLayoutRefl DEF compute_location
<1>5. /\ Shapes' /\ Bounds' /\ \A x : tiled_from(x) => tiled_from(x)'
      /\ \A a \in DOMAIN mem : next_obj(a)' = next_obj(a) /\ size(a)' = size(a)
  BY <1>1, <1>4, LayoutKept
<1>6. /\ next_obj(it) <= heap.current /\ tiled_from(next_obj(it))
      /\ \A a \in DOMAIN mem : a < next_obj(it) => a < it \/ a = it
  BY <1>1, <1>2, <1>3 DEF Computing, Bounds, tiled_from, Shapes
<1>7. gc'.it = next_obj(it) /\ AllocShape'
  BY <1>1 DEF compute_location, AllocShape, LocalFields, compacting
<1>8. /\ gc.free \in Nat /\ gc.free <= it /\ (gc.free - heap.begin) % 4 = 0
      /\ chain(S, heap.begin, gc.free)
      /\ \A a \in S : moved_to(a) = mem[a].forward
      /\ S = {a \in DOMAIN mem : mem[a].marked /\ a < it}
  BY <1>1 DEF Computing, WORD_BYTES, moved_to, to_move
<1>9. CASE ~o.marked
  <2>1. mem' = mem /\ gc'.free = gc.free
    BY <1>1, <1>9 DEF compute_location, AllocShape, LocalFields
  <2>2. to_move' = S
    BY <1>1, <1>2, <1>3, <1>6, <1>7, <1>8, <1>9, <2>1 DEF to_move, Shapes
  <2>3. \A a \in S : moved_to(a)' = moved_to(a) /\ size(a)' = size(a)
    BY <1>1, <1>5, <1>8, <2>1 DEF moved_to
  <2>4. chain(to_move, heap.begin, gc.free)'
    BY <1>1, <1>8, <2>1, <2>2, <2>3 DEF chain
  <2> QED BY <1>1, <1>2, <1>3, <1>5, <1>6, <1>7, <1>8, <2>1, <2>4
          DEF Structure, Computing, Updating, Relocating, CollectionMakesRoom, WORD_BYTES
<1>10. CASE o.marked
  <2>1. /\ mem' = [mem EXCEPT ![it].forward = gc.free]
        /\ gc'.free = gc.free + size(it)
    <3>1. mem' = [mem EXCEPT ![it].forward = gc.free]
      BY <1>10 DEF compute_location
    <3>2. gc'.free = gc.free + size(it)
      BY <1>1, <1>10 DEF compute_location, AllocShape, LocalFields, size
    <3> QED BY <3>1, <3>2
  <2>2. /\ mem'[it].forward = gc.free
        /\ \A a \in DOMAIN mem : mem'[a].marked = mem[a].marked
        /\ \A a \in S : mem'[a].forward = mem[a].forward
    BY <1>1, <1>2, <1>8, <2>1 DEF memory, shaped, ObjectFields
  <2>3. to_move' = S \cup {it}
    BY <1>1, <1>2, <1>3, <1>4, <1>6, <1>7, <1>8, <1>10, <2>2 DEF to_move, Shapes, same_layout
  <2>4. /\ \A a \in S : moved_to(a)' = moved_to(a) /\ size(a)' = size(a)
        /\ moved_to(it)' = gc.free /\ size(it)' = size(it)
    BY <1>1, <1>2, <1>5, <1>8, <2>2 DEF moved_to
  <2>5. chain(to_move, heap.begin, gc.free)'
    <3>1. \A a \in S : /\ moved_to(a) \in Int /\ size(a) \in Nat /\ a \in Int /\ a < it
                       /\ heap.begin <= moved_to(a) /\ moved_to(a) <= a
                       /\ moved_to(a) + size(a) <= gc.free
      BY <1>1, <1>8, SizeOf DEF chain, Shapes, size, WORDS_TO_BYTES, WORD_BYTES
    <3>2. \A a, b \in S : a < b => moved_to(a) + size(a) <= moved_to(b)
      BY <1>8 DEF chain
    <3>3. /\ heap.begin = gc.free \/ \E a \in S : moved_to(a) = heap.begin
          /\ \A a \in S : \/ moved_to(a) + size(a) = gc.free
                          \/ \E b \in S : moved_to(b) = moved_to(a) + size(a)
      BY <1>8 DEF chain
    <3>4. heap.begin <= gc.free
      BY <1>8 DEF chain
    <3> QED BY <1>1, <1>2, <1>3, <1>8, <2>1, <2>3, <2>4, <3>1, <3>2, <3>3, <3>4 DEF chain
  <2>6. (gc'.free - heap.begin) % 4 = 0 /\ gc'.free \in Nat /\ gc'.free <= gc'.it
    BY <1>2, <1>3, <1>7, <1>8, <2>1
  <2> QED BY <1>1, <1>2, <1>3, <1>5, <1>6, <1>7, <1>8, <2>5, <2>6
          DEF Structure, Computing, Updating, Relocating, CollectionMakesRoom, WORD_BYTES
<1> QED BY <1>9, <1>10

-------------------------------------------------------------------------------
(* mremap shifts every object by the same distance d *)

\* compact_phase asks for twice the live words and the request.
LEMMA SizeRoom ==
  ASSUME Structure, pc = "compute_locations"
  PROVE  /\ next_heap_size(req.size) \in Nat /\ heap.size <= next_heap_size(req.size)
         /\ 2 * ((gc.free - heap.begin) \div 4) + req.size <= next_heap_size(req.size)
<1>1. /\ heap.size \in Nat /\ req.size \in Nat /\ MINIMUM_HEAP_CAPACITY \in Nat
      /\ gc.free \in Nat /\ heap.begin \in Nat /\ heap.begin <= gc.free
  BY CapacityAssumption DEF Structure, Shapes, AllocShape, Computing, chain
<1> QED BY <1>1 DEF next_heap_size, max, live_words, EXTRA_ROOM_HEAP_COEFFICIENT, WORD_BYTES

\* mremap shifts the objects and their destinations by the same distance.
LEMMA Mremap == ASSUME Structure, mremap PROVE Structure'
<1>1. /\ memory(mem) /\ Shapes /\ Bounds /\ AllocShape /\ tiled_from(heap.begin)
      /\ Computing /\ pc = "compute_locations" /\ pc' = "update_references" /\ req' = req
  BY MemoryOf DEF Structure, mremap
<1> PICK S : S = to_move OBVIOUS
<1>2. PICK b \in Nat :
        /\ heap' = [begin |-> b, size |-> next_heap_size(req.size),
                    current |-> b + (heap.current - heap.begin)]
        /\ mem' = [a \in {x + (b - heap.begin) : x \in DOMAIN mem} |->
                     mem[a - (b - heap.begin)]]
        /\ gc' = [no_locals EXCEPT !.it = b, !.live = gc.free - heap.begin,
                     !.old = [begin |-> heap.begin, current |-> heap.current]]
  BY <1>1, BasesAssumption DEF mremap, Shapes
<1> PICK d : d = b - heap.begin OBVIOUS
<1>3. /\ heap.begin \in Nat /\ heap.current \in Nat /\ heap.size \in Nat /\ d \in Int
      /\ heap'.begin = heap.begin + d /\ heap'.current = heap.current + d
      /\ heap'.size = next_heap_size(req.size)
  BY <1>1, <1>2 DEF Shapes
<1>4. \A y \in DOMAIN mem' : y - d \in DOMAIN mem /\ mem'[y] = mem[y - d]
  BY <1>1, <1>2, <1>3 DEF Shapes
<1>5. \A x \in DOMAIN mem : x + d \in DOMAIN mem' /\ mem'[x + d] = mem[x]
  BY <1>1, <1>2, <1>3 DEF Shapes
<1>6. \A x \in DOMAIN mem : /\ x \in Nat /\ size_of(mem[x]) \in Nat /\ size_of(mem[x]) > 0
                            /\ size(x) = 4 * size_of(mem[x]) /\ next_obj(x) = x + size(x)
                            /\ heap.begin <= x /\ next_obj(x) <= heap.current
                            /\ x < heap.current
  BY <1>1, <1>3, SizeOf DEF Shapes, Bounds, size, next_obj, WORDS_TO_BYTES, WORD_BYTES
<1>7. \A y \in DOMAIN mem' : /\ y \in Nat /\ shaped(mem'[y])
                             /\ size(y)' = size(y - d) /\ next_obj(y)' = next_obj(y - d) + d
  BY <1>1, <1>2, <1>3, <1>4, <1>6 DEF Shapes, size, next_obj, WORDS_TO_BYTES, WORD_BYTES
<1>a. /\ next_heap_size(req.size) \in Nat /\ heap.size <= next_heap_size(req.size)
      /\ 2 * ((gc.free - heap.begin) \div 4) + req.size <= next_heap_size(req.size)
  BY <1>1, SizeRoom
<1>8. Shapes'
  <2>1. heap' = [begin |-> heap'.begin, current |-> heap'.current, size |-> heap'.size]
    BY <1>2
  <2>2. heap'.begin \in Nat /\ heap'.current \in Nat /\ heap'.size \in Nat
    BY <1>1, <1>2, <1>3, <1>a DEF Bounds
  <2>3. mem' = [a \in DOMAIN mem' |-> mem'[a]]
    BY <1>2
  <2> QED BY <1>7, <2>1, <2>2, <2>3 DEF Shapes
<1>9. Bounds'
  <2>1. heap'.begin <= heap'.current /\ heap'.current <= heap_end'
    BY <1>1, <1>3, <1>a DEF Bounds, heap_end, WORDS_TO_BYTES, WORD_BYTES
  <2>2. \A y \in DOMAIN mem' : heap'.begin <= y /\ next_obj(y)' <= heap'.current
    BY <1>3, <1>4, <1>6, <1>7
  <2> QED BY <2>1, <2>2 DEF Bounds
<1>10. tiled_from(heap.begin)'
  <2>1. heap.begin = heap.current \/ heap.begin \in DOMAIN mem
    BY <1>1 DEF tiled_from
  <2>2. heap'.begin = heap'.current \/ heap'.begin \in DOMAIN mem'
    BY <1>3, <1>5, <2>1
  <2>3. ASSUME NEW y \in DOMAIN mem'
        PROVE  /\ next_obj(y)' = heap'.current \/ next_obj(y)' \in DOMAIN mem'
               /\ \A c \in DOMAIN mem' : c > y => next_obj(y)' <= c
    <3> PICK x \in DOMAIN mem : x = y - d BY <1>4
    <3>1. /\ next_obj(x) = heap.current \/ next_obj(x) \in DOMAIN mem
          /\ \A c \in DOMAIN mem : c > x => next_obj(x) <= c
      BY <1>1, <1>6 DEF tiled_from
    <3>2. next_obj(y)' = heap'.current \/ next_obj(y)' \in DOMAIN mem'
      BY <1>3, <1>5, <1>7, <3>1
    <3>3. ASSUME NEW c \in DOMAIN mem', c > y PROVE next_obj(y)' <= c
      BY <1>3, <1>4, <1>6, <1>7, <3>1, <3>3
    <3> QED BY <3>2, <3>3
  <2> QED BY <2>2, <2>3 DEF tiled_from
<1>11. AllocShape' /\ gc'.live = gc.free - heap.begin /\ gc'.old.begin = heap.begin
  BY <1>1, <1>2 DEF AllocShape, LocalFields, no_locals, compacting
<1>12. /\ gc.free \in Nat /\ (gc.free - heap.begin) % 4 = 0 /\ heap.begin <= gc.free
       /\ gc.free <= heap.current
       /\ chain(S, heap.begin, gc.free)
  BY <1>1, <1>3 DEF Computing, chain, WORD_BYTES
<1>13. Decided'
  BY <1>1, <1>3, <1>11, <1>12, <1>a DEF Decided, WORD_BYTES, Structure
<1>14. \A a \in S : /\ a \in DOMAIN mem /\ mem[a].marked /\ moved_to(a) = mem[a].forward
                    /\ moved_to(a) \in Int
  BY <1>1, <1>12 DEF to_move, moved_to, chain
<1>15. /\ \A y \in to_move' : y - d \in S
       /\ \A x \in S : x + d \in to_move'
  <2>1. S = {a \in DOMAIN mem : mem[a].marked}
    <3>1. gc.it \in Nat /\ heap.current <= gc.it
      BY <1>1, <1>3 DEF Computing, mremap
    <3> QED BY <1>1, <1>3, <1>6, <3>1 DEF to_move
  <2> QED BY <1>1, <1>4, <1>5, <2>1 DEF to_move
<1>16. \A y \in to_move' : moved_to(y)' = moved_to(y - d) + d
  <2>1. \A y \in to_move' : moved_to(y)' = heap'.begin + (mem'[y].forward - heap.begin)
    BY <1>1, <1>11 DEF moved_to, forwarded, after_mremap
  <2> QED BY <1>3, <1>4, <1>14, <1>15, <2>1 DEF to_move
<1>17. chain(to_move, heap.begin, heap.begin + gc.live)'
  <2>1. heap'.begin + gc'.live = gc.free + d
    BY <1>3, <1>11, <1>12
  <2>2. \A y \in to_move' : y \in DOMAIN mem'
    BY DEF to_move
  <2>3. ASSUME NEW y \in to_move'
        PROVE  /\ moved_to(y)' \in Int
               /\ heap'.begin <= moved_to(y)' /\ moved_to(y)' <= y
               /\ moved_to(y)' + size(y)' <= gc.free + d
               /\ \/ moved_to(y)' + size(y)' = gc.free + d
                  \/ \E z \in to_move' : moved_to(z)' = moved_to(y)' + size(y)'
    <3> PICK x \in S : x = y - d BY <1>15
    <3>1. /\ moved_to(x) \in Int /\ size(x) \in Nat /\ x \in Nat /\ y \in Nat
          /\ y = x + d /\ size(y)' = size(x) /\ moved_to(y)' = moved_to(x) + d
      BY <1>3, <1>6, <1>7, <1>14, <1>16, <2>2
    <3>2. /\ heap.begin <= moved_to(x) /\ moved_to(x) <= x
          /\ moved_to(x) + size(x) <= gc.free
      BY <1>12 DEF chain
    <3>3. CASE moved_to(x) + size(x) = gc.free
      BY <1>3, <1>12, <3>1, <3>2, <3>3
    <3>4. CASE \E z \in S : moved_to(z) = moved_to(x) + size(x)
      <4> PICK z \in S : moved_to(z) = moved_to(x) + size(x) BY <3>4
      <4>1. z + d \in to_move' /\ (z + d) - d = z
        BY <1>3, <1>6, <1>14, <1>15
      <4>2. moved_to(z + d)' = moved_to(z) + d
        BY <1>16, <4>1
      <4> QED BY <1>3, <1>12, <3>1, <3>2, <4>1, <4>2
    <3> QED BY <1>12, <3>3, <3>4 DEF chain
  <2>4. ASSUME NEW y \in to_move', NEW z \in to_move', y < z
        PROVE  moved_to(y)' + size(y)' <= moved_to(z)'
    <3>1. /\ y - d \in S /\ z - d \in S /\ y \in Nat /\ z \in Nat
          /\ moved_to(y)' = moved_to(y - d) + d /\ moved_to(z)' = moved_to(z - d) + d
          /\ size(y)' = size(y - d)
      BY <1>7, <1>15, <1>16, <2>2
    <3>2. moved_to(y - d) + size(y - d) <= moved_to(z - d)
      BY <1>3, <1>12, <2>4, <3>1 DEF chain
    <3> QED BY <1>3, <1>6, <1>14, <3>1, <3>2
  <2>5. heap'.begin = gc.free + d \/ \E y \in to_move' : moved_to(y)' = heap'.begin
    <3>1. CASE heap.begin = gc.free
      BY <1>3, <3>1
    <3>2. CASE \E x \in S : moved_to(x) = heap.begin
      <4> PICK x \in S : moved_to(x) = heap.begin BY <3>2
      <4>1. x + d \in to_move' /\ (x + d) - d = x
        BY <1>3, <1>6, <1>14, <1>15
      <4> QED BY <1>3, <1>16, <4>1
    <3> QED BY <1>12, <3>1, <3>2 DEF chain
  <2> QED BY <1>3, <1>12, <2>1, <2>3, <2>4, <2>5 DEF chain
<1>18. Computing' /\ Relocating' /\ CollectionMakesRoom'
  BY <1>1 DEF Computing, Relocating, CollectionMakesRoom
<1> QED BY <1>1, <1>8, <1>9, <1>10, <1>11, <1>13, <1>17, <1>18 DEF Structure, Updating

-------------------------------------------------------------------------------
(* update_references *)

\* update_references changes the words of objects only.
LEMMA UpdateObject == ASSUME Structure, update_object PROVE Structure'
<1>1. /\ memory(mem) /\ Shapes /\ Bounds /\ AllocShape /\ tiled_from(heap.begin)
      /\ Decided /\ chain(to_move, heap.begin, heap.begin + gc.live)
      /\ pc = "update_references" /\ pc' = pc /\ heap' = heap /\ req' = req
  BY MemoryOf DEF Structure, update_object, Updating
<1>2. AllocShape' /\ gc'.live = gc.live /\ gc'.old = gc.old
  BY <1>1 DEF update_object, AllocShape, LocalFields, compacting
<1>3. \E v : mem' = [mem EXCEPT ![gc.it].words = v] \/ mem' = mem
  BY DEF update_object
<1>4. /\ same_layout(mem, mem')
      /\ \A a \in DOMAIN mem : mem'[a].marked = mem[a].marked /\ mem'[a].forward = mem[a].forward
  <2> PICK v : mem' = [mem EXCEPT ![gc.it].words = v] \/ mem' = mem BY <1>3
  <2>1. CASE mem' = mem
    BY <1>1, <2>1, SameLayoutRefl
  <2>2. CASE mem' = [mem EXCEPT ![gc.it].words = v]
    <3>1. same_layout(mem, mem')
      BY <1>1, <2>2, SetWords
    <3>2. \A a \in DOMAIN mem : mem'[a].marked = mem[a].marked /\ mem'[a].forward = mem[a].forward
      BY <1>1, <2>2 DEF memory, shaped, ObjectFields
    <3> QED BY <3>1, <3>2
  <2> QED BY <2>1, <2>2
<1>5. /\ Shapes' /\ Bounds' /\ tiled_from(heap.begin)'
      /\ \A a \in DOMAIN mem : size(a)' = size(a)
  BY <1>1, <1>4, LayoutKept
<1>6. to_move' = to_move /\ \A a \in to_move : moved_to(a)' = moved_to(a) /\ size(a)' = size(a)
  BY <1>1, <1>2, <1>4, <1>5 DEF to_move, moved_to, forwarded, after_mremap, same_layout
<1>7. Decided' /\ chain(to_move, heap.begin, heap.begin + gc.live)'
  BY <1>1, <1>2, <1>6 DEF Decided, chain
<1> QED BY <1>1, <1>2, <1>5, <1>7
        DEF Structure, Computing, Updating, Relocating, CollectionMakesRoom

\* Fixing the roots leaves the heap alone.
LEMMA FixRoots == ASSUME Structure, fix_stack \/ fix_extra_root PROVE Structure'
<1>1. /\ Shapes /\ Bounds /\ AllocShape /\ tiled_from(heap.begin)
      /\ Decided /\ chain(to_move, heap.begin, heap.begin + gc.live)
      /\ pc \in {"update_references", "fix_extra_roots"} /\ pc' = "fix_extra_roots"
      /\ heap' = heap /\ mem' = mem /\ req' = req
  BY DEF Structure, fix_stack, fix_extra_root, Updating
<1>2. AllocShape' /\ gc'.live = gc.live /\ gc'.old = gc.old
  BY <1>1 DEF fix_stack, fix_extra_root, AllocShape, LocalFields, compacting
<1>3. Shapes' /\ Bounds' /\ tiled_from(heap.begin)' /\ \A a : size(a)' = size(a)
  BY <1>1 DEF Shapes, Bounds, tiled_from, next_obj, heap_end, size
<1>4. to_move' = to_move /\ \A a : moved_to(a)' = moved_to(a)
  BY <1>1, <1>2 DEF to_move, moved_to, forwarded, after_mremap
<1>5. Decided' /\ chain(to_move, heap.begin, heap.begin + gc.live)'
  BY <1>1, <1>2, <1>3, <1>4 DEF Decided, chain
<1> QED BY <1>1, <1>2, <1>3, <1>5
        DEF Structure, Computing, Updating, Relocating, CollectionMakesRoom

\* The static area is fixed, and physically_relocate starts with nothing moved.
LEMMA FixStatics == ASSUME Structure, fix_statics PROVE Structure'
<1>1. /\ Shapes /\ Bounds /\ AllocShape /\ tiled_from(heap.begin)
      /\ Decided /\ chain(to_move, heap.begin, heap.begin + gc.live)
      /\ pc = "fix_extra_roots" /\ pc' = "physically_relocate"
      /\ heap' = heap /\ mem' = mem /\ req' = req
  BY DEF Structure, fix_statics, Updating
<1>2. AllocShape' /\ gc'.live = gc.live /\ gc'.old = gc.old /\ gc'.it = heap.begin
  BY <1>1 DEF fix_statics, AllocShape, LocalFields, compacting
<1>3. /\ Shapes' /\ Bounds' /\ tiled_from(heap.begin)' /\ \A a : size(a)' = size(a)
      /\ heap.begin \in Nat /\ heap.current \in Nat /\ heap.begin <= heap.current
      /\ \A a \in DOMAIN mem : a \in Nat /\ heap.begin <= a
  BY <1>1 DEF Shapes, Bounds, tiled_from, next_obj, heap_end, size
<1>4. to_move' = to_move /\ \A a : moved_to(a)' = moved_to(a)
  BY <1>1, <1>2, <1>3 DEF to_move, moved_to, forwarded, after_mremap
<1>5. Decided' /\ chain(to_move, heap.begin, heap.begin + gc.live)'
  BY <1>1, <1>2, <1>3, <1>4 DEF Decided, chain
<1>6. filled_up_to(heap.begin)'
  BY <1>1, <1>3 DEF filled_up_to
<1>7. Relocating'
  <2>1. tiled_from(gc.it)'
    BY <1>1, <1>2, <1>3
  <2>2. heap'.begin \in heap'.begin .. gc'.it
    BY <1>1, <1>2, <1>3
  <2> QED BY <1>1, <1>2, <1>3, <1>5, <1>6, <2>1, <2>2 DEF Relocating
<1> QED BY <1>1, <1>2, <1>3, <1>7
        DEF Structure, Computing, Updating, CollectionMakesRoom

-------------------------------------------------------------------------------
(* physically_relocate *)

\* Moving a marked object: where it goes, which headers its contents overwrite,
\* and what is left to move.
slides(it, f, g) ==
  /\ f \in Int /\ g \in Int /\ heap.begin <= f /\ f <= it /\ f < g
  /\ g = f + size(it) /\ g <= next_obj(it) /\ g <= heap.begin + gc.live
  /\ filled_up_to(f) /\ moved_to(it) = f /\ it \in to_move
  /\ DOMAIN mem' = {a \in DOMAIN mem : next_obj(a) <= f \/ a >= g} \cup {f}
  /\ mem'[f] = relocated(mem[it])
  /\ mem' = [a \in DOMAIN mem' |-> mem'[a]]
  /\ \A a \in DOMAIN mem : next_obj(a) <= f \/ a >= g => a # f /\ mem'[a] = mem[a]
  /\ to_move' = to_move \ {it}
  /\ \A a \in to_move \ {it} : a \in DOMAIN mem /\ a >= g /\ moved_to(a)' = moved_to(a)
  /\ chain(to_move \ {it}, g, heap.begin + gc.live)

LEMMA RelocateMoves ==
  ASSUME Structure, relocate_object, mem[gc.it].marked
  PROVE  \E f, g : slides(gc.it, f, g)
<1> PICK it : it = gc.it OBVIOUS
<1> PICK o : o = mem[it] OBVIOUS
<1> PICK S : S = to_move OBVIOUS
<1> PICK top : top = heap.begin + gc.live OBVIOUS
<1>1. /\ memory(mem) /\ Shapes /\ Bounds /\ AllocShape /\ Decided
      /\ Relocating /\ pc = "physically_relocate" /\ pc' = pc /\ heap' = heap /\ req' = req
      /\ it < heap.current
  BY MemoryOf DEF Structure, relocate_object, Relocating
<1>2. PICK f \in heap.begin .. it : filled_up_to(f) /\ chain(S, f, top)
  BY <1>1 DEF Relocating
<1>3. /\ it \in Nat /\ it \in DOMAIN mem /\ shaped(o) /\ heap.begin \in Nat
      /\ heap.current \in Nat /\ tiled_from(it) /\ f \in Int /\ heap.begin <= f /\ f <= it
      /\ gc.live \in Nat /\ top \in Int
  BY <1>1, <1>2 DEF Relocating, tiled_from, Shapes, Decided
<1>4. \A x \in DOMAIN mem : /\ x \in Nat /\ size_of(mem[x]) \in Nat /\ size_of(mem[x]) > 0
                            /\ size(x) = 4 * size_of(mem[x]) /\ next_obj(x) = x + size(x)
                            /\ size(x) \in Nat /\ size(x) > 0 /\ next_obj(x) \in Nat
                            /\ heap.begin <= x /\ next_obj(x) <= heap.current
  BY <1>1, SizeOf DEF Shapes, Bounds, size, next_obj, WORDS_TO_BYTES, WORD_BYTES
<1>5. /\ gc'.it = next_obj(it) /\ gc'.live = gc.live /\ gc'.old = gc.old /\ AllocShape'
  BY <1>1 DEF relocate_object, AllocShape, LocalFields, compacting
<1>6. PICK nxt \in Nat : /\ nxt = next_obj(it) /\ nxt = it + size(it) /\ nxt <= heap.current
                         /\ \A c \in DOMAIN mem : c > it => nxt <= c
                         /\ nxt = heap.current \/ nxt \in DOMAIN mem
  BY <1>3, <1>4 DEF tiled_from
<1>7. \A b \in DOMAIN mem : b >= nxt =>
         /\ next_obj(b) = heap.current \/ next_obj(b) \in DOMAIN mem
         /\ next_obj(b) >= nxt
         /\ \A c \in DOMAIN mem : c > b => next_obj(b) <= c
  BY <1>3, <1>4, <1>6 DEF tiled_from
<1>8. S = {a \in DOMAIN mem : mem[a].marked /\ a >= it}
  BY <1>1 DEF to_move
<1>9. \E x, y : slides(it, x, y)
  <2>0. o.marked
    OBVIOUS
  <2>1. it \in S /\ \A a \in S : /\ a \in DOMAIN mem /\ a \in Nat /\ a >= it /\ size(a) \in Nat
                                 /\ size(a) > 0 /\ moved_to(a) \in Int
                                 /\ f <= moved_to(a) /\ moved_to(a) <= a
                                 /\ moved_to(a) + size(a) <= top
    BY <1>2, <1>3, <1>4, <1>8, <2>0 DEF chain
  <2>2. \A a, b \in S : a < b => moved_to(a) + size(a) <= moved_to(b)
    BY <1>2 DEF chain
  <2>3. moved_to(it) = f
    <3>1. f = top \/ \E a \in S : moved_to(a) = f
      BY <1>2 DEF chain
    <3>2. f # top
      BY <1>3, <2>1
    <3>3. PICK a \in S : moved_to(a) = f
      BY <3>1, <3>2
    <3>4. a = it
      BY <1>3, <2>1, <2>2, <3>3
    <3> QED BY <3>3, <3>4
  <2> PICK g : g = f + size(it) OBVIOUS
  <2>4. g \in Int /\ f < g /\ g <= nxt /\ g <= top /\ heap.begin < g
    BY <1>3, <1>4, <1>6, <2>1, <2>3
  <2> PICK q : q = relocated(o) OBVIOUS
  <2> PICK kept : kept = {a \in DOMAIN mem : next_obj(a) <= f \/ a >= g} OBVIOUS
  <2>5. shaped(q) /\ size_of(q) = size_of(o) /\ size_of(o) \in Nat
    BY <1>3, SizeOf DEF relocated, shaped, ObjectFields, size_of
  <2>6. mem' = [a \in kept \cup {f} |-> IF a = f THEN q ELSE mem[a]]
    <3>1. forwarded(o) = f
      BY <1>1, <2>3 DEF moved_to
    <3>2. mem' = memmove(q, f)
      BY <1>1, <2>0, <3>1 DEF relocate_object
    <3>3. f + WORDS_TO_BYTES(size_of(q)) = g
      BY <2>5 DEF size
    <3> QED BY <3>2, <3>3 DEF memmove
  <2>7. /\ DOMAIN mem' = kept \cup {f}
        /\ f \notin kept
        /\ \A a \in kept : a \in DOMAIN mem /\ mem'[a] = mem[a] /\ size(a)' = size(a)
                           /\ next_obj(a)' = next_obj(a)
        /\ mem'[f] = q /\ size(f)' = size(it) /\ next_obj(f)' = g
    <3>1. f \notin kept
      BY <1>3, <1>4, <2>4
    <3>2. /\ DOMAIN mem' = kept \cup {f} /\ mem'[f] = q
          /\ \A a \in kept : a \in DOMAIN mem /\ mem'[a] = mem[a]
      BY <2>6, <3>1
    <3>3. size(f)' = size(it) /\ next_obj(f)' = g
      BY <2>5, <3>2 DEF size, next_obj
    <3> QED BY <3>1, <3>2, <3>3 DEF size, next_obj
  <2>8. \A c \in DOMAIN mem : c >= nxt => c \in kept
    BY <1>4, <1>6, <2>4
  <2>14. to_move' = S \ {it}
    <3>1. to_move' = {a \in DOMAIN mem' : mem'[a].marked /\ a >= nxt}
      BY <1>1, <1>5, <1>6 DEF to_move
    <3>2. \A a \in DOMAIN mem' : a >= nxt => a # f
      BY <1>3, <2>4
    <3>3. \A a \in S : a # it => a >= nxt
      BY <1>6, <2>1, <1>3
    <3>4. ~(it >= nxt) /\ \A a \in DOMAIN mem : a >= nxt => a >= it
      BY <1>3, <1>4, <1>6
    <3> QED BY <1>8, <2>7, <2>8, <3>1, <3>2, <3>3, <3>4
  <2>15. \A a \in S \ {it} : moved_to(a)' = moved_to(a) /\ size(a)' = size(a)
    <3>1. \A a \in S \ {it} : a \in kept
      BY <1>3, <1>6, <2>1, <2>8
    <3> QED BY <1>1, <1>5, <2>7, <3>1 DEF moved_to, forwarded, after_mremap
  <2>16. chain(S \ {it}, g, top)
    <3>1. \A a \in S \ {it} : g <= moved_to(a)
      BY <1>3, <2>1, <2>2, <2>3
    <3>2. \A a \in S : moved_to(a) + size(a) = top \/ \E b \in S : moved_to(b) = moved_to(a) + size(a)
      BY <1>2 DEF chain
    <3>3. \A a \in S : moved_to(a) + size(a) = top
                       \/ \E b \in S \ {it} : moved_to(b) = moved_to(a) + size(a)
      <4> TAKE a \in S
      <4> SUFFICES ASSUME moved_to(a) + size(a) # top
                   PROVE  \E b \in S \ {it} : moved_to(b) = moved_to(a) + size(a)
        OBVIOUS
      <4>1. PICK b \in S : moved_to(b) = moved_to(a) + size(a)
        BY <3>2
      <4>2. b # it
        BY <1>3, <2>1, <2>3, <4>1
      <4> QED BY <4>1, <4>2
    <3>4. g = top \/ \E b \in S \ {it} : moved_to(b) = g
      BY <2>1, <2>3, <3>3
    <3> QED BY <2>1, <2>2, <2>4, <3>1, <3>3, <3>4 DEF chain
  <2>17. slides(it, f, g)
    <3>1. \A a \in S \ {it} : a \in DOMAIN mem /\ a >= g
      BY <1>3, <1>4, <1>6, <2>1, <2>4, <2>8
    <3>2. mem' = [a \in DOMAIN mem' |-> mem'[a]]
      BY <2>6
    <3>3. \A a \in DOMAIN mem : next_obj(a) <= f \/ a >= g => a # f /\ mem'[a] = mem[a]
      BY <2>7
    <3> QED BY <1>2, <1>3, <1>6, <2>1, <2>3, <2>4, <2>7, <2>14, <2>15, <2>16, <3>1, <3>2, <3>3 DEF slides
  <2> QED BY <2>17
<1> QED BY <1>9

\* One iteration of physically_relocate: the object under the iterator is the
\* next of the chain, so memmove puts it right behind what has been moved and
\* writes over nothing that has not.
LEMMA RelocateObject == ASSUME Structure, relocate_object PROVE Structure'
<1> PICK it : it = gc.it OBVIOUS
<1> PICK o : o = mem[it] OBVIOUS
<1> PICK S : S = to_move OBVIOUS
<1> PICK top : top = heap.begin + gc.live OBVIOUS
<1>1. /\ memory(mem) /\ Shapes /\ Bounds /\ AllocShape /\ Decided
      /\ Relocating /\ pc = "physically_relocate" /\ pc' = pc /\ heap' = heap /\ req' = req
      /\ it < heap.current
  BY MemoryOf DEF Structure, relocate_object, Relocating
<1>2. /\ it \in Nat /\ it \in DOMAIN mem /\ shaped(o) /\ heap.begin \in Nat
      /\ heap.current \in Nat /\ tiled_from(it)
      /\ gc.live \in Nat /\ top \in Int
  BY <1>1 DEF Relocating, tiled_from, Shapes, Decided
<1>4. \A x \in DOMAIN mem : /\ x \in Nat /\ size_of(mem[x]) \in Nat /\ size_of(mem[x]) > 0
                            /\ size(x) = 4 * size_of(mem[x]) /\ next_obj(x) = x + size(x)
                            /\ size(x) \in Nat /\ size(x) > 0 /\ next_obj(x) \in Nat
                            /\ heap.begin <= x /\ next_obj(x) <= heap.current
  BY <1>1, SizeOf DEF Shapes, Bounds, size, next_obj, WORDS_TO_BYTES, WORD_BYTES
<1>5. /\ gc'.it = next_obj(it) /\ gc'.live = gc.live /\ gc'.old = gc.old /\ AllocShape'
  BY <1>1 DEF relocate_object, AllocShape, LocalFields, compacting
<1>6. PICK nxt \in Nat : /\ nxt = next_obj(it) /\ nxt = it + size(it) /\ nxt <= heap.current
                         /\ \A c \in DOMAIN mem : c > it => nxt <= c
                         /\ nxt = heap.current \/ nxt \in DOMAIN mem
  BY <1>2, <1>4 DEF tiled_from
<1>7. \A b \in DOMAIN mem : b >= nxt =>
         /\ next_obj(b) = heap.current \/ next_obj(b) \in DOMAIN mem
         /\ next_obj(b) >= nxt
         /\ \A c \in DOMAIN mem : c > b => next_obj(b) <= c
  BY <1>2, <1>4, <1>6 DEF tiled_from
<1>8. S = {a \in DOMAIN mem : mem[a].marked /\ a >= it}
  BY <1>1 DEF to_move
<1>9. ASSUME ~o.marked PROVE Structure'
  <2>0. PICK f \in heap.begin .. it : filled_up_to(f) /\ chain(S, f, top)
    BY <1>1 DEF Relocating
  <2>1. mem' = mem
    BY <1>1, <1>9 DEF relocate_object
  <2>2. Shapes' /\ Bounds' /\ Decided' /\ \A a : size(a)' = size(a) /\ next_obj(a)' = next_obj(a)
    BY <1>1, <1>5, <2>1 DEF Shapes, Bounds, Decided, next_obj, heap_end, size
  <2>3. tiled_from(gc.it)'
    BY <1>1, <1>5, <1>6, <1>7, <2>1, <2>2 DEF tiled_from
  <2>4. to_move' = S
    BY <1>1, <1>2, <1>4, <1>5, <1>6, <1>8, <1>9, <2>1 DEF to_move
  <2>5. \A a : moved_to(a)' = moved_to(a)
    BY <1>1, <1>5, <2>1 DEF moved_to, forwarded, after_mremap
  <2>6. filled_up_to(f)' /\ chain(to_move, f, heap.begin + gc.live)'
    BY <1>1, <1>2, <1>5, <2>0, <2>1, <2>2, <2>4, <2>5 DEF filled_up_to, chain
  <2>7. f \in heap'.begin .. gc'.it
    BY <1>1, <1>2, <1>4, <1>5
  <2>8. Relocating'
    BY <1>1, <1>4, <1>2, <1>5, <1>6, <2>2, <2>3, <2>6, <2>7 DEF Relocating
  <2> QED BY <1>1, <1>5, <2>2, <2>8
          DEF Structure, Computing, Updating, CollectionMakesRoom
<1>10. ASSUME o.marked PROVE Structure'
  <2> PICK f, g : slides(it, f, g)
    BY <1>10, RelocateMoves
  <2> PICK q : q = relocated(o) OBVIOUS
  <2> PICK kept : kept = {a \in DOMAIN mem : next_obj(a) <= f \/ a >= g} OBVIOUS
  <2>1. /\ f \in Int /\ heap.begin <= f /\ f <= it /\ filled_up_to(f) /\ g \in Int
        /\ f < g /\ g = f + size(it) /\ g <= nxt /\ g <= top /\ heap.begin < g
    BY <1>2, <1>6 DEF slides
  <2>2. shaped(q) /\ size_of(q) = size_of(o) /\ size_of(o) \in Nat
    BY <1>2, SizeOf DEF relocated, shaped, ObjectFields, size_of
  <2>7. /\ DOMAIN mem' = kept \cup {f}
        /\ f \notin kept
        /\ \A a \in kept : a \in DOMAIN mem /\ mem'[a] = mem[a] /\ size(a)' = size(a)
                           /\ next_obj(a)' = next_obj(a)
        /\ mem'[f] = q /\ size(f)' = size(it) /\ next_obj(f)' = g
    <3>1. /\ DOMAIN mem' = kept \cup {f} /\ mem'[f] = q /\ f \notin kept
          /\ \A a \in kept : a \in DOMAIN mem /\ mem'[a] = mem[a]
      BY DEF slides
    <3>2. size(f)' = size(it) /\ next_obj(f)' = g
      BY <2>1, <2>2, <3>1 DEF size, next_obj
    <3> QED BY <3>1, <3>2 DEF size, next_obj
  <2>8. \A c \in DOMAIN mem : c >= nxt => c \in kept
    BY <1>4, <1>6, <2>1
  <2>9. Shapes'
    <3>1. mem' = [a \in DOMAIN mem' |-> mem'[a]]
      BY DEF slides
    <3>2. DOMAIN mem' \subseteq Nat /\ \A a \in DOMAIN mem' : shaped(mem'[a])
      BY <1>1, <1>2, <1>4, <2>1, <2>2, <2>7 DEF Shapes
    <3> QED BY <1>1, <3>1, <3>2 DEF Shapes
  <2>10. Bounds'
    <3>1. heap.begin <= f /\ g <= heap.current
      BY <1>2, <1>6, <2>1
    <3>2. \A a \in DOMAIN mem' : heap.begin <= a /\ next_obj(a)' <= heap.current
      BY <1>4, <2>7, <3>1
    <3> QED BY <1>1, <3>2 DEF Bounds, heap_end
  <2>11. Decided'
    BY <1>1, <1>5 DEF Decided
  <2>12. tiled_from(gc.it)'
    <3>1. nxt = heap'.current \/ nxt \in DOMAIN mem'
      BY <1>1, <1>6, <2>7, <2>8
    <3>2. ASSUME NEW b \in DOMAIN mem', b >= nxt
          PROVE  /\ next_obj(b)' = heap.current \/ next_obj(b)' \in DOMAIN mem'
                 /\ \A c \in DOMAIN mem' : c > b => next_obj(b)' <= c
      <4>1. b \in kept /\ b \in DOMAIN mem /\ next_obj(b)' = next_obj(b)
        BY <1>2, <2>1, <2>7, <3>2
      <4>2. next_obj(b) = heap.current \/ next_obj(b) \in DOMAIN mem'
        BY <1>7, <2>7, <2>8, <3>2, <4>1
      <4>3. ASSUME NEW c \in DOMAIN mem', c > b PROVE next_obj(b) <= c
        <5>1. c # f
          BY <1>2, <1>4, <1>6, <2>1, <3>2, <4>1, <4>3
        <5> QED BY <1>7, <2>7, <3>2, <4>1, <4>3, <5>1
      <4> QED BY <4>1, <4>2, <4>3
    <3> QED BY <1>1, <1>5, <1>6, <3>1, <3>2 DEF tiled_from
  <2>13. filled_up_to(g)'
    <3>1. heap.begin \in DOMAIN mem'
      <4>1. CASE f = heap.begin
        BY <2>7, <4>1
      <4>2. CASE f # heap.begin
        <5>1. heap.begin \in DOMAIN mem /\ heap.begin < f
          BY <1>2, <2>1, <4>2 DEF filled_up_to
        <5>2. next_obj(heap.begin) <= f
          BY <1>4, <2>1, <5>1 DEF filled_up_to
        <5> QED BY <2>7, <5>1, <5>2
      <4> QED BY <4>1, <4>2
    <3>2. ASSUME NEW b \in DOMAIN mem', b < g
          PROVE  /\ \/ next_obj(b)' = g
                    \/ next_obj(b)' < g /\ next_obj(b)' \in DOMAIN mem'
                 /\ \A c \in DOMAIN mem' : c > b => next_obj(b)' <= c
      <4>1. CASE b = f
        <5>1. \A c \in kept : c > f => g <= c
          BY <1>2, <1>4, <2>1, <2>7
        <5> QED BY <2>1, <2>7, <4>1, <5>1
      <4>2. CASE b # f
        <5>1. /\ b \in DOMAIN mem /\ b \in kept /\ next_obj(b)' = next_obj(b)
              /\ next_obj(b) <= f /\ b < f
          BY <1>2, <1>4, <2>1, <2>7, <3>2, <4>2
        <5>2. /\ next_obj(b) = f \/ (next_obj(b) < f /\ next_obj(b) \in DOMAIN mem)
              /\ \A c \in DOMAIN mem : c > b => next_obj(b) <= c
          BY <1>2, <2>1, <5>1 DEF filled_up_to
        <5>3. \A c \in DOMAIN mem' : c > b => next_obj(b) <= c
          BY <2>7, <5>1, <5>2
        <5>4. next_obj(b) < g
          BY <1>2, <1>4, <2>1, <5>1
        <5>5. next_obj(b) \in DOMAIN mem'
          <6>1. CASE next_obj(b) = f
            BY <2>7, <6>1
          <6>2. CASE next_obj(b) < f /\ next_obj(b) \in DOMAIN mem
            <7>1. next_obj(next_obj(b)) <= f
              BY <1>2, <1>4, <2>1, <6>2 DEF filled_up_to
            <7> QED BY <2>7, <6>2, <7>1
          <6> QED BY <5>2, <6>1, <6>2
        <5> QED BY <5>1, <5>3, <5>4, <5>5
      <4> QED BY <4>1, <4>2
    <3> QED BY <1>1, <3>1, <3>2 DEF filled_up_to
  <2>14. /\ to_move' = S \ {it} /\ chain(S \ {it}, g, top)
         /\ \A a \in S \ {it} : moved_to(a)' = moved_to(a) /\ size(a)' = size(a)
    BY <2>7 DEF slides
  <2>17. chain(to_move, g, heap.begin + gc.live)'
    BY <1>1, <1>5, <2>14 DEF chain
  <2>18. g \in heap'.begin .. gc'.it
    BY <1>1, <1>2, <1>5, <1>6, <2>1
  <2>19. Relocating'
    BY <1>1, <1>5, <1>6, <2>11, <2>12, <2>13, <2>17, <2>18 DEF Relocating
  <2> QED BY <1>1, <1>5, <2>9, <2>10, <2>19
          DEF Structure, Computing, Updating, CollectionMakesRoom
<1> QED BY <1>9, <1>10

\* When the iterator is at the end everything has been moved, and the heap ends
\* behind the last object moved, with the room that was asked for.
LEMMA CompactPhaseDone == ASSUME Structure, compact_phase_done PROVE Structure'
<1> PICK top : top = heap.begin + gc.live OBVIOUS
<1>1. /\ Shapes /\ Bounds /\ AllocShape /\ Decided
      /\ Relocating /\ pc = "physically_relocate" /\ pc' = "retry" /\ req' = req
      /\ gc.it \in Nat /\ heap.current <= gc.it
  BY DEF Structure, compact_phase_done, Relocating
<1>2. PICK f \in heap.begin .. gc.it : filled_up_to(f) /\ chain(to_move, f, top)
  BY <1>1 DEF Relocating
<1>3. \A x \in DOMAIN mem : /\ x \in Nat /\ size_of(mem[x]) \in Nat /\ size_of(mem[x]) > 0
                            /\ next_obj(x) = x + 4 * size_of(mem[x])
                            /\ heap.begin <= x /\ next_obj(x) <= heap.current
  BY <1>1, SizeOf DEF Shapes, Bounds, next_obj, WORDS_TO_BYTES, WORD_BYTES
<1>4. /\ heap.begin \in Nat /\ heap.current \in Nat /\ heap.size \in Nat /\ top \in Nat
      /\ heap.begin <= top /\ top <= heap.current /\ req.size \in Nat
  BY <1>1 DEF Shapes, Decided, AllocShape
<1>5. to_move = {}
  BY <1>1, <1>3, <1>4 DEF to_move
<1>6. f = top
  BY <1>2, <1>5 DEF chain
<1>7. /\ heap'.begin = heap.begin /\ heap'.size = heap.size /\ heap'.current = top
      /\ heap' = [begin |-> heap'.begin, current |-> heap'.current, size |-> heap'.size]
  BY <1>1 DEF compact_phase_done, Shapes
<1>8. /\ mem' = [a \in {x \in DOMAIN mem : x < top} |-> mem[a]]
      /\ DOMAIN mem' = {x \in DOMAIN mem : x < top}
      /\ \A a \in DOMAIN mem' : mem'[a] = mem[a] /\ next_obj(a)' = next_obj(a)
  BY DEF compact_phase_done, next_obj
<1>9. /\ top = heap.begin \/ heap.begin \in DOMAIN mem
      /\ \A b \in DOMAIN mem' :
           /\ next_obj(b) = top \/ (next_obj(b) < top /\ next_obj(b) \in DOMAIN mem)
           /\ \A c \in DOMAIN mem : c > b => next_obj(b) <= c
  BY <1>2, <1>6, <1>8 DEF filled_up_to
<1>10. Shapes'
  <2>1. mem' = [a \in DOMAIN mem' |-> mem'[a]]
    BY <1>8
  <2> QED BY <1>1, <1>4, <1>7, <1>8, <2>1 DEF Shapes
<1>11. Bounds'
  <2>1. top <= heap.begin + 4 * heap.size
    BY <1>1, <1>4 DEF Bounds, heap_end, WORDS_TO_BYTES, WORD_BYTES
  <2>2. \A a \in DOMAIN mem' : heap.begin <= a /\ next_obj(a)' <= top
    BY <1>3, <1>4, <1>8, <1>9
  <2> QED BY <1>4, <1>7, <2>1, <2>2 DEF Bounds, heap_end, WORDS_TO_BYTES, WORD_BYTES
<1>12. tiled_from(heap.begin)'
  <2>1. heap.begin = top \/ heap.begin \in DOMAIN mem'
    BY <1>4, <1>8, <1>9
  <2>2. \A b \in DOMAIN mem' :
           /\ next_obj(b)' = top \/ next_obj(b)' \in DOMAIN mem'
           /\ \A c \in DOMAIN mem' : c > b => next_obj(b)' <= c
    BY <1>8, <1>9
  <2> QED BY <1>7, <2>1, <2>2 DEF tiled_from
<1>13. AllocShape'
  BY <1>1 DEF compact_phase_done, AllocShape, no_locals, LocalFields
<1>14. CollectionMakesRoom'
  <2>1. /\ gc.live \in Nat /\ gc.live % 4 = 0
        /\ 2 * (gc.live \div 4) + req.size <= heap.size
    BY <1>1 DEF Decided, WORD_BYTES
  <2>2. heap'.current - heap'.begin = gc.live
    BY <1>1, <1>4, <1>7 DEF Decided
  <2>3. PICK w \in Nat : w = gc.live \div 4 /\ gc.live = 4 * w
    BY <2>1
  <2>4. survived' = w
    BY <2>2, <2>3 DEF survived, WORD_BYTES
  <2>5. top + (req.size + w) * 4 <= heap.begin + heap.size * 4
    BY <1>4, <1>7, <2>1, <2>2, <2>3
  <2>6. has_room(req.size + survived)'
    BY <1>1, <1>7, <2>4, <2>5 DEF has_room, heap_end, WORDS_TO_BYTES, WORD_BYTES
  <2> QED BY <2>6 DEF CollectionMakesRoom
<1> QED BY <1>1, <1>10, <1>11, <1>12, <1>13, <1>14
        DEF Structure, Computing, Updating, Relocating

-------------------------------------------------------------------------------
(* alloc and its callers *)

\* gc_alloc_on_existing_heap appends an object to the heap.
LEMMA PlaceObject ==
  ASSUME Structure, NEW o, shaped(o), place_object(o), req' = req
  PROVE  Structure'
<1> PICK at : at = heap.current OBVIOUS
<1> PICK n : n = 4 * size_of(o) OBVIOUS
<1>1. /\ Shapes /\ Bounds /\ AllocShape /\ tiled_from(heap.begin)
      /\ pc # "physically_relocate" /\ pc' = "run"
  BY DEF Structure, place_object
<1>2. /\ heap.begin \in Nat /\ at \in Nat /\ heap.size \in Nat /\ heap.begin <= at
      /\ size_of(o) \in Nat /\ n \in Nat /\ n > 0
  BY <1>1, SizeOf DEF Shapes, Bounds
<1>3. /\ heap'.begin = heap.begin /\ heap'.size = heap.size /\ heap'.current = at + n
      /\ heap' = [begin |-> heap'.begin, current |-> heap'.current, size |-> heap'.size]
      /\ at + n <= heap.begin + 4 * heap.size
  BY <1>1, <1>2 DEF place_object, has_room, heap_end, Shapes, WORDS_TO_BYTES, WORD_BYTES
<1>4. \A x \in DOMAIN mem : /\ x \in Nat /\ size_of(mem[x]) \in Nat /\ size_of(mem[x]) > 0
                            /\ next_obj(x) = x + 4 * size_of(mem[x])
                            /\ heap.begin <= x /\ next_obj(x) <= at /\ x < at
  BY <1>1, <1>2, SizeOf DEF Shapes, Bounds, next_obj, WORDS_TO_BYTES, WORD_BYTES
<1>5. /\ mem' = [a \in DOMAIN mem \cup {at} |-> IF a = at THEN o ELSE mem[a]]
      /\ DOMAIN mem' = DOMAIN mem \cup {at} /\ mem'[at] = o
      /\ \A a \in DOMAIN mem : mem'[a] = mem[a]
  BY <1>4 DEF place_object
<1>6. /\ next_obj(at)' = at + n
      /\ \A a \in DOMAIN mem : next_obj(a)' = next_obj(a)
  BY <1>2, <1>5 DEF next_obj, WORDS_TO_BYTES, WORD_BYTES
<1>7. Shapes'
  <2>1. mem' = [a \in DOMAIN mem' |-> mem'[a]]
    BY <1>5
  <2> QED BY <1>1, <1>2, <1>3, <1>5, <2>1 DEF Shapes
<1>8. Bounds'
  <2>1. \A a \in DOMAIN mem' : heap.begin <= a /\ next_obj(a)' <= at + n
    BY <1>2, <1>4, <1>5, <1>6
  <2> QED BY <1>2, <1>3, <2>1 DEF Bounds, heap_end, WORDS_TO_BYTES, WORD_BYTES
<1>9. tiled_from(heap.begin)'
  <2>1. heap.begin \in DOMAIN mem'
    BY <1>1, <1>5 DEF tiled_from
  <2>2. ASSUME NEW b \in DOMAIN mem'
        PROVE  /\ next_obj(b)' = at + n \/ next_obj(b)' \in DOMAIN mem'
               /\ \A c \in DOMAIN mem' : c > b => next_obj(b)' <= c
    <3>1. CASE b = at
      BY <1>2, <1>4, <1>5, <1>6, <3>1
    <3>2. CASE b # at
      <4>1. /\ b \in DOMAIN mem /\ (next_obj(b) = at \/ next_obj(b) \in DOMAIN mem)
            /\ \A c \in DOMAIN mem : c > b => next_obj(b) <= c
        BY <1>1, <1>4, <1>5, <3>2 DEF tiled_from
      <4> QED BY <1>4, <1>5, <1>6, <4>1
    <3> QED BY <3>1, <3>2
  <2> QED BY <1>3, <2>1, <2>2 DEF tiled_from
<1>10. AllocShape'
  BY <1>1 DEF place_object, AllocShape, no_locals, LocalFields
<1> QED BY <1>1, <1>7, <1>8, <1>9, <1>10
        DEF Structure, Computing, Updating, Relocating, CollectionMakesRoom

\* A function that allocates places an object of the shape it has requested.
LEMMA AllocatedStep ==
  ASSUME Structure, NEW op, NEW contents, allocated(op, contents), req' = req
  PROVE  Structure'
<1>1. shaped(new_object(contents))
  BY DEF Structure, AllocShape, shaped, new_object, ObjectFields
<1> QED BY <1>1, PlaceObject DEF allocated

\* A step of the program stores to words of objects at most.
LEMMA ProgramStep ==
  ASSUME Structure, pc = "run", pc' \in {"run", "failed"}, heap' = heap, req' = req,
         gc' = gc, same_layout(mem, mem')
  PROVE  Structure'
BY QuietStep DEF Structure, AllocShape, quiet

\* The call of alloc leaves the heap alone.
LEMMA RequestStep ==
  ASSUME Structure, NEW op, NEW t \in lama_type, NEW n \in Nat, request(op, t, n)
  PROVE  Structure'
<1>1. memory(mem) /\ same_layout(mem, mem) /\ AllocShape
  BY MemoryOf, SameLayoutRefl DEF Structure
<1>2. obj_words(t, n) \in Nat
  BY DEF obj_words, obj_bytes, BYTES_TO_WORDS, WORD_BYTES, DATA_HEADER_SZ, MEMBER_SIZE, lama_type
<1>3. AllocShape'
  BY <1>1, <1>2 DEF request, AllocShape
<1> QED BY <1>1, <1>3, QuietStep DEF request, quiet

\* Every step of the collector preserves the invariant.
LEMMA CollectorStep == ASSUME Structure, CollectStep PROVE Structure'
  BY MarkStep, MarkPhaseDone, ComputeLocation, Mremap, UpdateObject, FixRoots,
     FixStatics, RelocateObject, CompactPhaseDone
     DEF CollectStep, gc_alloc_dump, Mark, Compact

\* The collector answers the request it was called with, and leaves as many
\* operands, statics, C variables and registered cells as there were.
LEMMA CollectorKeeps ==
  ASSUME CollectStep
  PROVE  /\ pc \in {"alloc"} \/ marking \/ compacting
         /\ pc' \in {"alloc", "retry"} \/ marking' \/ compacting'
         /\ req' = req /\ extra' = extra
         /\ DOMAIN stack' = DOMAIN stack /\ DOMAIN statics' = DOMAIN statics
         /\ DOMAIN locals' = DOMAIN locals
<1>1. CASE gc_alloc_dump
  BY <1>1 DEF gc_alloc_dump, gc_alloc, marking
<1>2. CASE Mark
  BY <1>2 DEF Mark, mark_skip, mark_start, mark_dequeue, mark_field, mark_fields_done,
     mark_done, mark_phase_done, marking, compacting
<1>3. CASE compute_location \/ mremap \/ update_object \/ relocate_object \/ compact_phase_done
  <2>1. /\ compacting /\ pc' \in {"compute_locations", "update_references", "physically_relocate", "retry"}
        /\ UNCHANGED <<stack, statics, locals, extra, req>>
    <3>1. CASE mremap
      BY <3>1 DEF mremap, compacting
    <3>2. CASE compute_location
      BY <3>2 DEF compute_location, compacting
    <3>3. CASE update_object
      BY <3>3 DEF update_object, compacting
    <3>4. CASE relocate_object \/ compact_phase_done
      BY <3>4 DEF relocate_object, compact_phase_done, compacting
    <3> QED BY <1>3, <3>1, <3>2, <3>3, <3>4
  <2> QED BY <2>1 DEF compacting
<1>4. CASE fix_stack \/ fix_statics
  BY <1>4 DEF fix_stack, fix_statics, compacting
<1>5. CASE fix_extra_root
  <2> DEFINE c == extra[gc.idx]
             w == IF skipped(c) THEN cell_word(c) ELSE new_reference(cell_word(c))
  <2>1. /\ pc = "fix_extra_roots" /\ pc' = pc /\ req' = req /\ extra' = extra /\ statics' = statics
        /\ \/ stack' = [stack EXCEPT ![c[2]] = w] /\ locals' = locals
           \/ locals' = [locals EXCEPT ![c[2]] = w] /\ stack' = stack
    BY <1>5 DEF fix_extra_root
  <2> QED BY <2>1 DEF compacting
<1> QED BY <1>1, <1>2, <1>3, <1>4, <1>5 DEF CollectStep, Compact

\* Which steps write to the stack, to the C variables and to the loop over the
\* pool.
LEMMA RootsFixed ==
  ASSUME CollectStep
  PROVE  /\ stack' = stack \/ fix_stack \/ fix_extra_root
         /\ locals' = locals \/ fix_extra_root
         /\ "idx" \in DOMAIN gc => "idx" \in DOMAIN gc'
         /\ pc' = "fix_extra_roots" => fix_stack \/ fix_extra_root
<1>1. CASE gc_alloc_dump
  BY <1>1 DEF gc_alloc_dump, gc_alloc, no_locals, LocalFields
<1>2. CASE Mark
  <2>1. /\ UNCHANGED <<stack, locals>> /\ pc' # "fix_extra_roots"
    BY <1>2 DEF Mark, mark_skip, mark_start, mark_dequeue, mark_field, mark_fields_done,
       mark_done, mark_phase_done
  <2>2. DOMAIN gc' = DOMAIN gc \/ DOMAIN gc' = LocalFields
    BY <1>2 DEF Mark, mark_skip, mark_start, mark_dequeue, mark_field, mark_fields_done,
       mark_done, mark_phase_done, no_locals, LocalFields
  <2> QED BY <2>1, <2>2 DEF LocalFields
<1>3. CASE mremap
  <2>1. UNCHANGED <<stack, locals>> /\ pc' # "fix_extra_roots" /\ DOMAIN gc' = LocalFields
    BY <1>3 DEF mremap, no_locals, LocalFields
  <2> QED BY <2>1 DEF LocalFields
<1>4. CASE compute_location \/ relocate_object \/ compact_phase_done \/ fix_statics
  <2>1. UNCHANGED <<stack, locals>> /\ pc' # "fix_extra_roots"
    BY <1>4 DEF compute_location, relocate_object, compact_phase_done, fix_statics
  <2>2. DOMAIN gc' = DOMAIN gc \/ DOMAIN gc' = LocalFields
    BY <1>4 DEF compute_location, relocate_object, compact_phase_done, fix_statics,
       no_locals, LocalFields
  <2> QED BY <2>1, <2>2 DEF LocalFields
<1>5. CASE update_object
  <2>1. UNCHANGED <<stack, locals>> /\ pc' # "fix_extra_roots" /\ DOMAIN gc' = DOMAIN gc
    BY <1>5 DEF update_object
  <2> QED BY <2>1
<1>6. CASE fix_stack
  BY <1>6 DEF fix_stack
<1>7. CASE fix_extra_root
  <2>1. DOMAIN gc' = DOMAIN gc
    BY <1>7 DEF fix_extra_root
  <2> QED BY <1>7, <2>1
<1> QED BY <1>1, <1>2, <1>3, <1>4, <1>5, <1>6, <1>7 DEF CollectStep, Compact

\* A step that changes nothing preserves it.
LEMMA StutteringStep ==
  ASSUME Structure, heap' = heap, mem' = mem, pc' = pc, req' = req, gc' = gc
  PROVE  Structure'
<1>1. /\ Shapes' /\ Bounds' /\ AllocShape' /\ CollectionMakesRoom'
      /\ \A a : tiled_from(a) => tiled_from(a)'
      /\ \A f : filled_up_to(f) => filled_up_to(f)'
      /\ \A S, f, g : chain(S, f, g) => chain(S, f, g)'
      /\ to_move' = to_move /\ (Decided => Decided')
  BY DEF Structure, Shapes, Bounds, AllocShape, CollectionMakesRoom, tiled_from,
     filled_up_to, chain, to_move, Decided, next_obj, heap_end, size, moved_to, forwarded,
     after_mremap, has_room, survived, marking, compacting
<1> QED BY <1>1 DEF Structure, Computing, Updating, Relocating

\* __init makes an empty heap.
LEMMA GcInitStructure ==
  ASSUME GcInit, req = [op |-> "none", type |-> "ARRAY", len |-> 0, size |-> 0]
  PROVE  Structure
<1>1. PICK b \in Bases : heap = [begin |-> b, size |-> MINIMUM_HEAP_CAPACITY, current |-> b]
  BY DEF GcInit
<1>2. b \in Nat /\ MINIMUM_HEAP_CAPACITY \in Nat
  BY BasesAssumption, CapacityAssumption
<1>3. mem = << >> /\ pc = "run" /\ DOMAIN mem = {}
  BY DEF GcInit
<1>4. Shapes
  BY <1>1, <1>2, <1>3 DEF Shapes
<1>5. AllocShape
  BY <1>3 DEF GcInit, AllocShape, no_locals, LocalFields, lama_type
<1>6. Bounds /\ tiled_from(heap.begin)
  BY <1>1, <1>2, <1>3 DEF Bounds, tiled_from, heap_end, WORDS_TO_BYTES, WORD_BYTES
<1> QED BY <1>3, <1>4, <1>5, <1>6
        DEF Structure, Computing, Updating, Relocating, CollectionMakesRoom

\* The invariant is stronger than the properties it is for.
LEMMA StructureImplies ==
  ASSUME Structure PROVE HeapParsable /\ SlidesDown /\ CollectionMakesRoom
<1>1. HeapParsable
  BY DEF Structure, HeapParsable, Shapes, Bounds, Computing, Relocating
<1>2. SlidesDown
  <2>1. PICK f, g : compacting => heap.begin <= f /\ f \in Int /\ chain(to_move, f, g)
    BY DEF Structure, Shapes, Computing, Updating, Relocating, compacting
  <2>2. heap.begin \in Nat
    BY DEF Structure, Shapes
  <2> QED BY <2>1, <2>2 DEF SlidesDown, chain
<1> QED BY <1>1, <1>2 DEF Structure

-------------------------------------------------------------------------------
(* Words *)

\* More objects, more references.
LEMMA ReferencesGrow ==
  ASSUME NEW O, NEW P, O \subseteq P PROVE references(O) \subseteq references(P)
BY DEF references

LEMMA SeqGrows ==
  ASSUME NEW R, NEW S, R \subseteq S, NEW s \in Seq(R) PROVE s \in Seq(S)
OBVIOUS

LEMMA SeqOf ==
  ASSUME NEW s \in Seq(Nat), NEW R, \A i \in 1 .. Len(s) : s[i] \in R PROVE s \in Seq(R)
OBVIOUS

\* The contents of an object never start at the first field or before it.
LEMMA FirstField ==
  ASSUME NEW t \in lama_type, NEW n \in Nat PROVE first_field(t, n) \in Nat /\ first_field(t, n) >= 1
BY DEF first_field, lama_type

\* The fields of an object are some of its words.
LEMMA FieldsAreWords ==
  ASSUME NEW o \in Object
  PROVE  /\ o.words \in Seq(Nat) /\ Len(o.words) \in Nat /\ DOMAIN o.words = 1 .. Len(o.words)
         /\ first_field(o.type, o.len) \in Nat
         /\ fields(o) \subseteq 1 .. Len(o.words)
         /\ \A i \in fields(o) : o.words[i] \in Nat
<1>1. o.words \in Seq(Nat) /\ o.type \in lama_type /\ o.len \in Nat
  BY DEF Object, Word
<1>2. first_field(o.type, o.len) \in Nat /\ first_field(o.type, o.len) >= 1
  BY <1>1, FirstField
<1> QED BY <1>1, <1>2 DEF fields

\* Every root is one of the words of the stack, the cells and the static area.
LEMMA RootsIn ==
  ASSUME NEW R, roots_in(R), NEW i \in 1 .. root_count, extra \in Seq(Cell)
  PROVE  root(i) \in R
<1>1. /\ stack \in Seq(R) /\ statics \in Seq(R) /\ Len(stack) \in Nat /\ Len(statics) \in Nat
      /\ Len(extra) \in Nat /\ \A k \in 1 .. Len(extra) : cell_word(extra[k]) \in R
      /\ \A k \in 1 .. Len(stack) : stack[k] \in R
      /\ \A k \in 1 .. Len(statics) : statics[k] \in R
  BY DEF roots_in, cells_in
<1>2. i \in Nat /\ 1 <= i /\ i <= Len(stack) + Len(extra) + Len(statics)
  BY <1>1 DEF root_count
<1>3. CASE i <= Len(stack)
  <2>1. Len(stack) + 1 - i \in 1 .. Len(stack)
    BY <1>1, <1>2, <1>3
  <2>2. root(i) = stack[Len(stack) + 1 - i]
    BY <1>3 DEF root
  <2> QED BY <1>1, <2>1, <2>2
<1>4. CASE i > Len(stack) /\ i <= Len(stack) + Len(extra)
  <2>1. i - Len(stack) \in 1 .. Len(extra)
    BY <1>1, <1>2, <1>4
  <2>2. root(i) = cell_word(extra[i - Len(stack)])
    BY <1>1, <1>2, <1>4 DEF root
  <2> QED BY <1>1, <2>1, <2>2
<1>5. CASE i > Len(stack) + Len(extra)
  <2>1. i - Len(stack) - Len(extra) \in 1 .. Len(statics)
    BY <1>1, <1>2, <1>5
  <2>2. root(i) = statics[i - Len(stack) - Len(extra)]
    BY <1>1, <1>2, <1>5 DEF root
  <2> QED BY <1>1, <2>1, <2>2
<1> QED BY <1>1, <1>2, <1>3, <1>4, <1>5

\* Conversely, what is known of every root is known of their words.
LEMMA RootsAreAll ==
  ASSUME NEW R, extra \in Seq(Cell), stack \in Seq(Nat), statics \in Seq(Nat),
         \A i \in 1 .. root_count : root(i) \in R
  PROVE  roots_in(R)
<1>1. /\ Len(stack) \in Nat /\ Len(statics) \in Nat /\ Len(extra) \in Nat
      /\ DOMAIN extra = 1 .. Len(extra)
  OBVIOUS
<1>2. ASSUME NEW k \in 1 .. Len(stack) PROVE stack[k] \in R
  <2>1. PICK i : i = Len(stack) + 1 - k
    OBVIOUS
  <2>2. i \in 1 .. root_count /\ i <= Len(stack) /\ Len(stack) + 1 - i = k
    <3>1. Len(stack) \in Nat /\ Len(statics) \in Nat /\ Len(extra) \in Nat /\ k \in Nat
          /\ 1 <= k /\ k <= Len(stack)
      BY <1>1
    <3> QED BY ONLY <2>1, <3>1 DEF root_count
  <2>3. root(i) = stack[k]
    BY <2>2 DEF root
  <2> QED BY <2>2, <2>3
<1>3. ASSUME NEW k \in 1 .. Len(extra) PROVE cell_word(extra[k]) \in R
  <2>1. PICK i \in Int : i = Len(stack) + k
    BY <1>1
  <2>2. /\ i \in 1 .. root_count /\ i > Len(stack) /\ ~(i <= Len(stack))
        /\ i <= Len(stack) + Len(extra) /\ i - Len(stack) = k
    BY <1>1, <2>1 DEF root_count
  <2> QED BY SMTT(20), <2>2 DEF root
<1>4. ASSUME NEW k \in 1 .. Len(statics) PROVE statics[k] \in R
  <2>1. PICK i \in Int : i = Len(stack) + Len(extra) + k
    BY <1>1
  <2>2. /\ i \in 1 .. root_count /\ i > Len(stack) + Len(extra) /\ ~(i <= Len(stack))
        /\ ~(i <= Len(stack) + Len(extra)) /\ i - Len(stack) - Len(extra) = k
    BY <1>1, <2>1 DEF root_count
  <2> QED BY <2>2 DEF root
<1>5. stack \in Seq(R) /\ statics \in Seq(R)
  BY <1>2, <1>4, SeqOf
<1> QED BY <1>1, <1>3, <1>5 DEF roots_in, cells_in

-------------------------------------------------------------------------------
(* Places *)

\* Where the objects lie, for the steps that leave them there.
Places ==
  /\ heap.begin \in Nat /\ heap.current \in Nat /\ heap.begin <= heap.current
  /\ DOMAIN mem \subseteq Nat
  /\ \A a \in DOMAIN mem : /\ a \in Nat /\ next_obj(a) \in Nat /\ a + 8 <= next_obj(a)
                           /\ heap.begin <= a /\ next_obj(a) <= heap.current

LEMMA PlacesOf == ASSUME Structure PROVE Places
<1>1. Shapes /\ Bounds
  BY DEF Structure
<1>2. \A a \in DOMAIN mem : /\ a \in Nat /\ size_of(mem[a]) \in Nat /\ size_of(mem[a]) >= 2
                            /\ next_obj(a) = a + 4 * size_of(mem[a])
  BY <1>1, SizeOf DEF Shapes, next_obj, WORDS_TO_BYTES, WORD_BYTES
<1> QED BY <1>1, <1>2 DEF Places, Shapes, Bounds

\* Outside of the moving of objects the iterators lead from boundary to boundary.
LEMMA Boundaries ==
  ASSUME Places, tiled_from(heap.begin)
  PROVE  /\ boundary(heap.begin)
         /\ \A b \in DOMAIN mem : /\ boundary(next_obj(b))
                                  /\ \A c \in DOMAIN mem : c < next_obj(b) <=> c <= b
<1>1. boundary(heap.begin)
  BY DEF tiled_from, boundary
<1>2. ASSUME NEW b \in DOMAIN mem
      PROVE  /\ boundary(next_obj(b))
             /\ \A c \in DOMAIN mem : c < next_obj(b) <=> c <= b
  <2>1. /\ next_obj(b) = heap.current \/ next_obj(b) \in DOMAIN mem
        /\ \A c \in DOMAIN mem : c > b => next_obj(b) <= c
    BY DEF tiled_from, Places
  <2> QED BY <2>1 DEF boundary, Places
<1> QED BY <1>1, <1>2

\* A word that is a reference and looks like a heap pointer is one; a word that
\* does not look like one never will.
LEMMA Pointers ==
  ASSUME Places, heap.begin \in Bases, NEW O, NEW p \in references(O)
  PROVE  /\ is_valid_heap_pointer(p) => TO_DATA(p) \in O
         /\ O \subseteq DOMAIN mem /\ ~is_valid_heap_pointer(p) => outside(p)
<1>1. p \in Nat /\ (outside(p) \/ TO_DATA(p) \in O)
  BY DEF references
<1>2. outside(p) => ~is_valid_heap_pointer(p)
  BY <1>1 DEF outside, is_valid_heap_pointer, Places
<1>3. ASSUME TO_DATA(p) \in DOMAIN mem, ~outside(p) PROVE is_valid_heap_pointer(p)
  <2>1. p - 8 \in DOMAIN mem
    BY <1>3 DEF TO_DATA, DATA_HEADER_SZ
  <2>2. heap.begin <= p - 8 /\ (p - 8) + 8 <= heap.current
    BY <1>1, <2>1 DEF Places
  <2> QED BY <1>1, <1>3, <2>2 DEF outside, is_valid_heap_pointer, Places
<1> QED BY <1>1, <1>2, <1>3

-------------------------------------------------------------------------------
(* Steps that change the forward_address words at most *)

same_words(m, n) ==
  /\ DOMAIN n = DOMAIN m
  /\ \A a \in DOMAIN m : /\ n[a] \in Object
                         /\ n[a].type = m[a].type /\ n[a].len = m[a].len
                         /\ n[a].words = m[a].words

same_roots == /\ stack' = stack /\ statics' = statics /\ locals' = locals /\ extra' = extra
              /\ req' = req /\ cur_id' = cur_id

GcLocals == [idx: Nat, head: Nat, tail: Nat, obj: Nat, fld: Nat, it: Nat, free: Nat,
             live: Nat, old: [begin: Nat, current: Nat]]

objects(m) == \A a \in DOMAIN m : m[a] \in Object

LEMMA SameWordsRefl == ASSUME NEW m, objects(m) PROVE same_words(m, m)
  BY DEF objects, same_words

\* The locals of the collector's loops stay what they are.
LEMMA NextRoot ==
  ASSUME NEW g \in GcLocals, NEW n \in Nat,
         NEW h, h = [g EXCEPT !.idx = n, !.head = 0, !.tail = 0, !.obj = 0, !.fld = 0]
  PROVE  h \in GcLocals /\ h.idx = n
<1>1. h \in GcLocals
  BY DEF GcLocals
<1>2. h.idx = n
  BY DEF GcLocals
<1> QED BY <1>1, <1>2

\* What is said of the fields of objects stays true.
LEMMA FieldsStay ==
  ASSUME same_words(mem, mem')
  PROVE  /\ DOMAIN mem' = DOMAIN mem
         /\ \A a \in DOMAIN mem : fields(mem'[a]) = fields(mem[a]) /\ mem'[a].words = mem[a].words
         /\ \A a \in DOMAIN mem : next_obj(a)' = next_obj(a)
         /\ \A S, R : S \subseteq DOMAIN mem /\ fields_in(S, R) => fields_in(S, R)'
<1>1. DOMAIN mem' = DOMAIN mem
  BY DEF same_words
<1>2. \A a \in DOMAIN mem : fields(mem'[a]) = fields(mem[a]) /\ mem'[a].words = mem[a].words
  BY DEF same_words, fields
<1>3. \A a \in DOMAIN mem : next_obj(a)' = next_obj(a)
  BY DEF same_words, next_obj, size_of
<1>4. ASSUME NEW S, NEW R, S \subseteq DOMAIN mem, fields_in(S, R) PROVE fields_in(S, R)'
  BY <1>2, <1>4 DEF fields_in
<1> QED BY <1>1, <1>2, <1>3, <1>4

\* Nor do the types of the variables change.
LEMMA TypedStays ==
  ASSUME Typed, heap' = heap, same_words(mem, mem'), same_roots, gc' \in GcLocals,
         gc_idle' \/ marking' \/ compacting',
         pc' \notin {"mark_queue", "mark_fields"} => Enqueued' = {}
  PROVE  Typed'
<1>1. ClientTypeOK'
  BY DEF Typed, ClientTypeOK, same_words, same_roots, Cell, GcLocals
<1> QED BY <1>1 DEF Typed, same_words, same_roots

\* Nor does mark_phase make anything dangle.
LEMMA CleanStays ==
  ASSUME Clean, gc_idle \/ marking, marking', heap' = heap, same_words(mem, mem'), same_roots
  PROVE  Clean'
<1>1. roots_in(references(DOMAIN mem)) /\ fields_in(DOMAIN mem, references(DOMAIN mem))
  BY DEF Clean
<1>2. DOMAIN mem' = DOMAIN mem
  BY DEF same_words
<1>3. roots_in(references(DOMAIN mem))'
  BY <1>1, <1>2 DEF roots_in, cells_in, cell_word, same_roots
<1>4. fields_in(DOMAIN mem, references(DOMAIN mem))'
  BY <1>1, <1>2, FieldsStay
<1>5. ~gc_idle'
  BY DEF gc_idle, marking
<1> QED BY <1>3, <1>4, <1>5 DEF Clean

LEMMA RootsStay ==
  ASSUME same_roots PROVE root_count' = root_count /\ \A i : root(i)' = root(i)
BY DEF same_roots, root_count, root, cell_word

\* The places of compact_phase are not those of mark_phase.
LEMMA NotCompacting ==
  ASSUME marking PROVE ~compacting /\ ~gc_idle
BY DEF marking, compacting, gc_idle

LEMMA MarkingOnly ==
  ASSUME marking', Typed', Clean', MarkingRoots', Queue', Traced'
  PROVE  Soundness'
BY DEF Soundness, marking, Closed, Moved, UpdatingObjects, FixingRoots, Relocated

LEMMA WithEnqueued ==
  ASSUME NEW o \in Object, NEW q, q = [o EXCEPT !.enqueued = TRUE]
  PROVE  /\ q \in Object /\ q.type = o.type /\ q.len = o.len /\ q.words = o.words
         /\ q.marked = o.marked /\ q.forward = o.forward /\ q.enqueued
BY DEF Object

\* queue_enqueue writes two words: a slot, and the bit of the object enqueued.
LEMMA Enqueueing ==
  ASSUME objects(mem), NEW slot \in DOMAIN mem, NEW p \in Nat, TO_DATA(p) \in DOMAIN mem,
         mem' = enqueue(slot, p)
  PROVE  /\ same_words(mem, mem')
         /\ \A a \in DOMAIN mem : mem'[a].marked = mem[a].marked
         /\ \A a \in DOMAIN mem : mem'[a].forward = IF a = slot THEN p ELSE mem[a].forward
         /\ \A a \in DOMAIN mem : mem'[a].enqueued = (a = TO_DATA(p) \/ mem[a].enqueued)
<1> DEFINE m == [mem EXCEPT ![slot].forward = p]
           t == TO_DATA(p)
<1>1. /\ DOMAIN m = DOMAIN mem
      /\ \A a \in DOMAIN mem :
           /\ m[a] \in Object /\ m[a].type = mem[a].type /\ m[a].len = mem[a].len
           /\ m[a].words = mem[a].words
           /\ m[a].marked = mem[a].marked /\ m[a].enqueued = mem[a].enqueued
           /\ m[a].forward = IF a = slot THEN p ELSE mem[a].forward
  BY DEF objects, Object
<1>2. mem' = [m EXCEPT ![t].enqueued = TRUE]
  BY DEF enqueue
<1>3. t \in DOMAIN m /\ \A a \in DOMAIN m : m[a] \in Object
  BY <1>1
<1> HIDE DEF m, t
<1>4. /\ DOMAIN mem' = DOMAIN m
      /\ \A a \in DOMAIN m : a # t => mem'[a] = m[a]
      /\ mem'[t] = [m[t] EXCEPT !.enqueued = TRUE]
  BY <1>2, <1>3
<1>5. ASSUME NEW a \in DOMAIN mem
      PROVE  /\ mem'[a] \in Object /\ mem'[a].type = mem[a].type /\ mem'[a].len = mem[a].len
             /\ mem'[a].words = mem[a].words
             /\ mem'[a].marked = mem[a].marked
             /\ mem'[a].forward = IF a = slot THEN p ELSE mem[a].forward
             /\ mem'[a].enqueued = (a = t \/ mem[a].enqueued)
  <2>1. mem[a].enqueued \in BOOLEAN
    BY DEF objects, Object
  <2>2. CASE a = t
    <3>1. mem'[a] = [m[a] EXCEPT !.enqueued = TRUE]
      BY <1>4, <2>2
    <3>2. /\ mem'[a] \in Object /\ mem'[a].type = m[a].type /\ mem'[a].len = m[a].len
          /\ mem'[a].words = m[a].words /\ mem'[a].marked = m[a].marked
          /\ mem'[a].forward = m[a].forward /\ mem'[a].enqueued
      BY <1>1, <3>1, WithEnqueued
    <3>3. mem'[a].enqueued = TRUE
      BY <3>2 DEF Object
    <3> QED BY <1>1, <2>2, <3>2, <3>3
  <2>3. CASE a # t
    <3>1. mem'[a] = m[a]
      BY <1>1, <1>4, <2>3
    <3> QED BY <1>1, <2>1, <2>3, <3>1
  <2> QED BY <2>2, <2>3
<1> QED BY <1>1, <1>4, <1>5 DEF same_words, t

-------------------------------------------------------------------------------
(* mark_phase *)

\* gc_alloc starts with nothing marked.
LEMMA GcAllocSound ==
  ASSUME Structure, Soundness, gc_alloc, cur_id' = cur_id PROVE Soundness'
<1>1. /\ Typed /\ Clean /\ pc = "alloc" /\ pc' = "mark_roots" /\ heap' = heap /\ mem' = mem
      /\ same_roots /\ gc' = [no_locals EXCEPT !.idx = 1] /\ gc_idle /\ marking'
  BY DEF Soundness, gc_alloc, same_roots, gc_idle, marking
<1>2. objects(mem) /\ same_words(mem, mem')
  BY <1>1, SameWordsRefl DEF Typed, ClientTypeOK, objects
<1>3. Enqueued' = {} /\ Marked' = {}
  BY <1>1 DEF Typed, Clean, Enqueued, Marked
<1>4. gc' \in GcLocals /\ gc'.idx = 1
  BY <1>1 DEF GcLocals, no_locals
<1>5. Typed' /\ Clean'
  BY <1>1, <1>2, <1>3, <1>4, TypedStays, CleanStays
<1>6. MarkingRoots' /\ Queue' /\ Traced'
  BY <1>1, <1>3, <1>4 DEF MarkingRoots, Queue, Traced, fields_in
<1> QED BY <1>1, <1>5, <1>6, MarkingOnly

\* mark() returns at once for what is no heap pointer or marked already.
LEMMA MarkSkipSound ==
  ASSUME Structure, Soundness, mark_skip, cur_id' = cur_id PROVE Soundness'
<1>1. /\ Typed /\ Clean /\ MarkingRoots /\ pc = "mark_roots" /\ pc' = "mark_roots"
      /\ heap' = heap /\ mem' = mem
      /\ same_roots /\ gc' = [gc EXCEPT !.idx = @ + 1] /\ marking /\ marking'
      /\ gc.idx <= root_count /\ ~to_mark(root(gc.idx))
  BY DEF Soundness, mark_skip, same_roots, marking
<1>2. objects(mem) /\ same_words(mem, mem') /\ gc \in GcLocals /\ extra \in Seq(Cell)
  BY <1>1, SameWordsRefl DEF Typed, ClientTypeOK, objects, GcLocals
<1>3. Enqueued' = {} /\ Marked' = Marked
  BY <1>1 DEF Typed, Enqueued, Marked
<1>4. gc' \in GcLocals /\ gc'.idx = gc.idx + 1 /\ gc.idx \in Nat
  <2>1. gc' = [gc EXCEPT !.idx = gc.idx + 1] /\ gc \in GcLocals
    BY <1>1, <1>2
  <2> QED BY ONLY <2>1 DEF GcLocals
<1>5. Typed' /\ Clean'
  BY <1>1, <1>2, <1>3, <1>4, TypedStays, CleanStays
<1>6. root(gc.idx) \in references(Marked)
  <2>1. root(gc.idx) \in references(DOMAIN mem)
    <3>1. gc.idx \in 1 .. root_count
      BY <1>1, <1>2, <1>4 DEF MarkingRoots, root_count, Typed, ClientTypeOK
    <3> QED BY <1>1, <1>2, <3>1, RootsIn DEF Clean
  <2>2. Places /\ heap.begin \in Bases
    BY <1>1, PlacesOf DEF Typed
  <2>3. is_valid_heap_pointer(root(gc.idx)) => TO_DATA(root(gc.idx)) \in Marked
    BY <1>1, <2>1, <2>2, Pointers DEF to_mark, Marked
  <2>4. ~is_valid_heap_pointer(root(gc.idx)) => outside(root(gc.idx))
    BY <2>1, <2>2, Pointers
  <2> QED BY <2>1, <2>3, <2>4 DEF references
<1>7. MarkingRoots'
  <2>1. \A i \in 1 .. gc'.idx - 1 : i <= root_count' => root(i)' \in references(Marked')
    BY <1>1, <1>3, <1>4, <1>6, RootsStay DEF MarkingRoots
  <2>2. fields_in(Marked, references(Marked))'
    BY <1>1, <1>2, <1>3, FieldsStay DEF MarkingRoots, Marked
  <2> QED BY <1>1, <1>4, <2>1, <2>2 DEF MarkingRoots
<1>8. Queue' /\ Traced'
  BY <1>1 DEF Queue, Traced
<1> QED BY <1>1, <1>5, <1>7, <1>8, MarkingOnly

\* What every step of mark_phase starts from.
LEMMA MarkingFacts ==
  ASSUME Structure, Soundness, marking
  PROVE  /\ Places /\ tiled_from(heap.begin) /\ heap.begin \in Bases
         /\ objects(mem) /\ gc \in GcLocals /\ extra \in Seq(Cell)
         /\ Typed /\ Clean /\ MarkingRoots /\ Queue /\ Traced
         /\ root_count \in Nat
         /\ \A i \in 1 .. root_count : root(i) \in references(DOMAIN mem)
         /\ fields_in(DOMAIN mem, references(DOMAIN mem))
<1>1. Typed /\ Clean /\ MarkingRoots /\ Queue /\ Traced
  BY DEF Soundness
<1>2. objects(mem) /\ gc \in GcLocals /\ extra \in Seq(Cell) /\ heap.begin \in Bases
      /\ root_count \in Nat
  BY <1>1 DEF Typed, ClientTypeOK, objects, GcLocals, root_count
<1>3. tiled_from(heap.begin)
  BY DEF Structure, marking
<1>4. \A i \in 1 .. root_count : root(i) \in references(DOMAIN mem)
  BY <1>1, <1>2, RootsIn DEF Clean
<1> QED BY <1>1, <1>2, <1>3, <1>4, PlacesOf DEF Clean

\* mark() starts a queue in the first object of the heap.
LEMMA MarkStartSound ==
  ASSUME Structure, Soundness, mark_start, cur_id' = cur_id PROVE Soundness'
<1> PICK p : p = root(gc.idx) OBVIOUS
<1> PICK t : t = TO_DATA(p) OBVIOUS
<1> PICK first : first = heap.begin OBVIOUS
<1>1. /\ pc = "mark_roots" /\ pc' = "mark_queue" /\ heap' = heap
      /\ same_roots /\ marking /\ marking' /\ gc.idx <= root_count
      /\ is_valid_heap_pointer(p) /\ ~mem[t].marked /\ mem' = enqueue(first, p)
      /\ gc' = [gc EXCEPT !.head = first, !.tail = next_obj(first)]
  BY DEF mark_start, same_roots, marking, to_mark
<1>2. /\ Places /\ tiled_from(heap.begin) /\ heap.begin \in Bases
      /\ objects(mem) /\ gc \in GcLocals /\ extra \in Seq(Cell)
      /\ Typed /\ Clean /\ MarkingRoots
      /\ root_count \in Nat /\ \A i \in 1 .. root_count : root(i) \in references(DOMAIN mem)
  BY <1>1, MarkingFacts
<1>3. gc.idx \in 1 .. root_count /\ gc.idx \in Nat
  BY <1>1, <1>2 DEF MarkingRoots, GcLocals
<1>4. p \in Nat /\ t \in DOMAIN mem
  <2>1. p \in references(DOMAIN mem)
    BY <1>2, <1>3
  <2> QED BY <1>1, <1>2, <2>1, Pointers DEF references
<1>5. first \in DOMAIN mem /\ \A a \in DOMAIN mem : a < next_obj(first) <=> a = first
  <2>1. first \in DOMAIN mem
    BY <1>2, <1>4 DEF tiled_from, Places
  <2> QED BY <1>2, <2>1, Boundaries DEF Places
<1>6. /\ same_words(mem, mem')
      /\ \A a \in DOMAIN mem : mem'[a].marked = mem[a].marked
      /\ \A a \in DOMAIN mem : mem'[a].forward = IF a = first THEN p ELSE mem[a].forward
      /\ \A a \in DOMAIN mem : mem'[a].enqueued = (a = t \/ mem[a].enqueued)
  BY <1>1, <1>2, <1>4, <1>5, Enqueueing
<1>7. DOMAIN mem' = DOMAIN mem /\ Marked' = Marked /\ Enqueued' = {t} /\ t \notin Marked
  <2>1. DOMAIN mem' = DOMAIN mem
    BY <1>6 DEF same_words
  <2>2. \A a \in DOMAIN mem : ~mem[a].enqueued
    BY <1>1, <1>2 DEF Typed, Enqueued
  <2> QED BY ZenonT(30), <1>1, <1>4, <1>6, <2>1, <2>2 DEF Marked, Enqueued
<1>8. /\ gc' \in GcLocals /\ gc'.idx = gc.idx /\ gc'.head = first
      /\ gc'.tail = next_obj(first)
  <2>1. first \in Nat /\ next_obj(first) \in Nat
    BY <1>2, <1>5 DEF Places
  <2> QED BY ONLY <1>1, <1>2, <2>1 DEF GcLocals
<1>9. Typed' /\ Clean'
  BY <1>1, <1>2, <1>6, <1>8, TypedStays, CleanStays
<1>10. Visited' = Marked \cup {t} /\ references(Marked) \subseteq references(Visited')
  BY <1>7, ReferencesGrow DEF Visited
<1>11. Queue'
  <2>1. boundary(gc.head)' /\ boundary(gc.tail)' /\ gc'.head <= gc'.tail
    BY <1>1, <1>2, <1>5, <1>7, <1>8, Boundaries DEF boundary, Places
  <2>2. \A a \in DOMAIN mem' : a < gc'.tail => a = first /\ queued(a)' = p
    BY <1>5, <1>6, <1>7, <1>8 DEF queued
  <2>3. queue_slots' = {first}
    BY <1>2, <1>5, <1>7, <1>8 DEF queue_slots, Places
  <2>4. {TO_DATA(queued(a)) : a \in queue_slots}' = Enqueued'
    BY <1>5, <1>6, <1>7, <2>3 DEF queued
  <2>5. ASSUME NEW i \in 1 .. gc'.idx PROVE root(i)' \in references(Visited')
    <3>1. root(i)' = root(i)
      BY <1>1, RootsStay
    <3>2. CASE i = gc.idx
      BY <1>4, <1>10, <3>1, <3>2 DEF references
    <3>3. CASE i # gc.idx
      <4>1. i \in 1 .. gc.idx - 1 /\ i <= root_count
        <5>1. root_count \in Nat /\ i \in 1 .. gc.idx
          BY <1>2, <1>8
        <5> QED BY <1>3, <3>3, <5>1
      <4>2. root(i) \in references(Marked)
        BY <1>1, <1>2, <4>1 DEF MarkingRoots
      <4> QED BY <1>10, <3>1, <4>2
    <3> QED BY <3>2, <3>3
  <2>6. gc'.idx \in 1 .. root_count'
    BY <1>1, <1>3, <1>8, RootsStay
  <2>7. \A a \in DOMAIN mem' : a < gc'.tail => TO_DATA(queued(a)') \in Visited'
    BY <1>10, <2>2
  <2>8. \A a, b \in DOMAIN mem' : a < gc'.tail /\ b < gc'.tail => a = b
    BY <2>2
  <2>9. Marked' \cap Enqueued' = {}
    BY <1>7
  <2> QED BY <2>1, <2>4, <2>5, <2>6, <2>7, <2>8, <2>9 DEF Queue
<1>12. Traced'
  <2>1. fields_in(Marked, references(Marked))'
    BY <1>1, <1>2, <1>6, <1>7, FieldsStay DEF MarkingRoots, Marked
  <2> QED BY <1>1, <1>7, <1>10, <2>1 DEF Traced, fields_in
<1>13. MarkingRoots'
  BY <1>1 DEF MarkingRoots
<1> QED BY <1>1, <1>9, <1>11, <1>12, <1>13, MarkingOnly

\* mark() takes the object at the head of its queue, marks it and turns to its
\* fields.
LEMMA MarkDequeueSound ==
  ASSUME Structure, Soundness, mark_dequeue, cur_id' = cur_id PROVE Soundness'
<1> PICK head : head = gc.head OBVIOUS
<1> PICK cur : cur = TO_DATA(queued(head)) OBVIOUS
<1>1. /\ pc = "mark_queue" /\ pc' = "mark_fields" /\ heap' = heap
      /\ same_roots /\ marking /\ marking' /\ gc.head # gc.tail
      /\ mem' = [mem EXCEPT ![cur] = dequeued(@)]
      /\ gc' = [gc EXCEPT !.head = next_obj(head), !.obj = cur,
                          !.fld = first_field(mem[cur].type, mem[cur].len)]
  BY DEF mark_dequeue, same_roots, marking, queued
<1>2. /\ Places /\ tiled_from(heap.begin)
      /\ objects(mem) /\ gc \in GcLocals /\ Typed /\ Clean /\ Queue
      /\ fields_in(Marked, references(Visited))
  BY <1>1, MarkingFacts DEF Traced
<1>3. /\ boundary(head) /\ boundary(gc.tail) /\ head <= gc.tail /\ head # gc.tail
      /\ head \in Nat /\ gc.tail \in Nat
  BY <1>1, <1>2 DEF Queue, GcLocals
<1>4. head \in DOMAIN mem /\ head < gc.tail
  BY <1>2, <1>3 DEF boundary, Places
<1>5. /\ cur \in DOMAIN mem /\ cur \in Enqueued /\ cur \notin Marked
      /\ mem[cur].enqueued /\ ~mem[cur].marked
  <2>1. head \in queue_slots
    BY <1>3, <1>4 DEF queue_slots
  <2>2. cur \in Enqueued /\ Marked \cap Enqueued = {}
    BY <1>1, <1>2, <2>1 DEF Queue
  <2> QED BY <2>2 DEF Enqueued, Marked
<1>6. /\ DOMAIN mem' = DOMAIN mem
      /\ \A a \in DOMAIN mem : a # cur => mem'[a] = mem[a]
      /\ mem'[cur] \in Object /\ mem'[cur].type = mem[cur].type /\ mem'[cur].len = mem[cur].len
      /\ mem'[cur].words = mem[cur].words /\ mem'[cur].forward = mem[cur].forward
      /\ mem'[cur].marked /\ ~mem'[cur].enqueued
  <2>1. mem[cur] \in Object
    BY <1>2, <1>5 DEF objects
  <2>2. mem'[cur] = dequeued(mem[cur])
    BY <1>1, <1>5
  <2>3. /\ mem'[cur] \in Object /\ mem'[cur].type = mem[cur].type /\ mem'[cur].len = mem[cur].len
        /\ mem'[cur].words = mem[cur].words /\ mem'[cur].forward = mem[cur].forward
        /\ mem'[cur].marked /\ ~mem'[cur].enqueued
    BY ONLY <2>1, <2>2 DEF dequeued, Object
  <2> QED BY <1>1, <2>3
<1>7. same_words(mem, mem') /\ \A a \in DOMAIN mem : mem'[a].forward = mem[a].forward
  BY <1>2, <1>6 DEF same_words, objects
<1>8. Marked' = Marked \cup {cur} /\ Enqueued' = Enqueued \ {cur} /\ Visited' = Visited
  BY <1>5, <1>6 DEF Marked, Enqueued, Visited
<1>9. /\ gc' \in GcLocals /\ gc'.idx = gc.idx /\ gc'.head = next_obj(head) /\ gc'.tail = gc.tail
      /\ gc'.obj = cur /\ gc'.fld = first_field(mem[cur].type, mem[cur].len)
  <2>1. cur \in Nat /\ next_obj(head) \in Nat
    BY <1>2, <1>4, <1>5 DEF Places
  <2>2. first_field(mem[cur].type, mem[cur].len) \in Nat
    BY <1>2, <1>5, FieldsAreWords DEF objects
  <2> QED BY ONLY <1>1, <1>2, <2>1, <2>2 DEF GcLocals
<1>10. Typed' /\ Clean'
  BY <1>1, <1>2, <1>7, <1>9, TypedStays, CleanStays
<1>11. /\ boundary(next_obj(head)) /\ next_obj(head) <= gc.tail
       /\ \A a \in DOMAIN mem : a >= next_obj(head) <=> a > head
  <2>1. boundary(next_obj(head)) /\ \A c \in DOMAIN mem : c < next_obj(head) <=> c <= head
    BY <1>2, <1>4, Boundaries
  <2>2. head \in Nat /\ next_obj(head) \in Nat /\ next_obj(head) <= heap.current
        /\ \A c \in DOMAIN mem : c \in Nat
    BY <1>2, <1>4 DEF Places
  <2>3. next_obj(head) <= gc.tail
    BY <1>3, <1>4, <2>1, <2>2 DEF boundary
  <2> QED BY <2>1, <2>2, <2>3
<1>12. Queue'
  <2>1. boundary(gc.head)' /\ boundary(gc.tail)' /\ gc'.head <= gc'.tail
    BY <1>1, <1>3, <1>6, <1>9, <1>11 DEF boundary
  <2>2. \A a \in DOMAIN mem : queued(a)' = queued(a)
    BY <1>7 DEF queued
  <2>3. \A a \in DOMAIN mem' : a < gc'.tail => TO_DATA(queued(a)') \in Visited'
    BY <1>1, <1>2, <1>6, <1>8, <1>9, <2>2 DEF Queue
  <2>4. \A a, b \in DOMAIN mem' : a < gc'.tail /\ b < gc'.tail /\ queued(a)' = queued(b)' => a = b
    BY <1>1, <1>2, <1>6, <1>9, <2>2 DEF Queue
  <2>5. queue_slots' = queue_slots \ {head} /\ head \in queue_slots
    <3>1. \A a \in DOMAIN mem : a \in Nat
      BY <1>2 DEF Places
    <3> QED BY <1>3, <1>4, <1>6, <1>9, <1>11, <3>1 DEF queue_slots
  <2>6. {TO_DATA(queued(a)) : a \in queue_slots}' = Enqueued'
    <3>1. {TO_DATA(queued(a)) : a \in queue_slots} = Enqueued
      BY <1>1, <1>2 DEF Queue
    <3>2. ASSUME NEW a \in queue_slots, TO_DATA(queued(a)) = cur PROVE a = head
      <4>1. a \in DOMAIN mem /\ a < gc.tail /\ queued(a) \in Nat /\ queued(head) \in Nat
        BY <1>2, <1>4 DEF queue_slots, queued, objects, Object
      <4>2. queued(a) = queued(head)
        BY <3>2, <4>1 DEF TO_DATA, DATA_HEADER_SZ
      <4> QED BY <1>1, <1>2, <1>4, <4>1, <4>2 DEF Queue
    <3>3. \A a \in queue_slots' : queued(a)' = queued(a)
      BY <1>6, <2>2 DEF queue_slots
    <3> QED BY <1>8, <2>5, <3>1, <3>2, <3>3
  <2>7. Marked' \cap Enqueued' = {} /\ gc'.idx \in 1 .. root_count'
        /\ \A i \in 1 .. gc'.idx : root(i)' \in references(Visited')
    BY <1>1, <1>2, <1>8, <1>9, RootsStay DEF Queue
  <2> QED BY <2>1, <2>3, <2>4, <2>6, <2>7 DEF Queue
<1>13. Traced'
  <2>1. fields_in(Marked \ {gc.obj}, references(Visited))'
    <3>1. fields_in(Marked' \ {cur}, references(Visited')) /\ Marked' \ {cur} \subseteq DOMAIN mem
      BY <1>2, <1>5, <1>8 DEF fields_in, Marked
    <3> QED BY <1>7, <1>9, <3>1, FieldsStay
  <2>2. /\ gc'.obj \in Marked' /\ gc'.fld = first_field(mem'[cur].type, mem'[cur].len)
        /\ gc'.fld \in Nat
    BY <1>6, <1>8, <1>9 DEF GcLocals
  <2>3. \A i \in fields(mem'[cur]) : ~(i < gc'.fld)
    BY <2>2 DEF fields
  <2> QED BY <1>1, <1>9, <2>1, <2>2, <2>3 DEF Traced
<1>14. MarkingRoots'
  BY <1>1 DEF MarkingRoots
<1> QED BY <1>1, <1>10, <1>12, <1>13, <1>14, MarkingOnly

\* The queue never runs out of slots: while an object has not been visited,
\* there are more objects than the slots in use.
LEMMA SlotLeft ==
  ASSUME Places, objects(mem), NEW tail \in Nat, NEW V, V \subseteq DOMAIN mem,
         NEW t \in DOMAIN mem, t \notin V,
         \A a \in DOMAIN mem : a < tail => TO_DATA(queued(a)) \in V,
         \A a, b \in DOMAIN mem : a < tail /\ b < tail /\ queued(a) = queued(b) => a = b
  PROVE  \E a \in DOMAIN mem : a >= tail
<1> SUFFICES ASSUME \A a \in DOMAIN mem : ~(a >= tail) PROVE FALSE
  OBVIOUS
<1>1. IsFiniteSet(DOMAIN mem)
  <2>1. DOMAIN mem \in SUBSET Nat /\ heap.current \in Nat /\ \A a \in DOMAIN mem : a <= heap.current
    BY DEF Places
  <2> QED BY ONLY <2>1, FS_BoundedSetOfNaturals
<1>2. /\ IsFiniteSet(V) /\ Cardinality(V) <= Cardinality(DOMAIN mem)
      /\ Cardinality(DOMAIN mem) = Cardinality(V) => DOMAIN mem = V
  <2>1. V \in SUBSET (DOMAIN mem)
    OBVIOUS
  <2> QED BY ONLY <1>1, <2>1, FS_Subset
<1>3. Cardinality(V) \in Nat /\ Cardinality(DOMAIN mem) \in Nat
  BY ONLY <1>1, <1>2, FS_CardinalityType
<1>4. Cardinality(V) < Cardinality(DOMAIN mem)
  BY <1>2, <1>3
<1> DEFINE f == [a \in DOMAIN mem |-> TO_DATA(queued(a))]
<1>5. \A a \in DOMAIN mem : a < tail
  BY DEF Places
<1>6. f \in [DOMAIN mem -> V]
  BY <1>5
<1>7. PICK x, y \in DOMAIN mem : x # y /\ f[x] = f[y]
  <2> HIDE DEF f
  <2> QED BY ONLY <1>1, <1>2, <1>4, <1>6, FS_PigeonHole
<1>8. queued(x) \in Nat /\ queued(y) \in Nat
  BY DEF objects, Object, queued
<1>9. queued(x) = queued(y)
  BY <1>7, <1>8 DEF TO_DATA, DATA_HEADER_SZ
<1> QED BY <1>5, <1>7, <1>9

\* One field of the object that mark() looks at: the object it points at is
\* enqueued in the next slot, or has been visited before.
LEMMA MarkFieldSound ==
  ASSUME Structure, Soundness, mark_field, cur_id' = cur_id PROVE Soundness'
<1> PICK obj : obj = gc.obj OBVIOUS
<1> PICK fld : fld = gc.fld OBVIOUS
<1> PICK tail : tail = gc.tail OBVIOUS
<1> PICK p : p = mem[obj].words[fld] OBVIOUS
<1> PICK t : t = TO_DATA(p) OBVIOUS
<1>1. /\ pc = "mark_fields" /\ pc' = "mark_fields" /\ heap' = heap
      /\ same_roots /\ marking /\ marking' /\ fld <= Len(mem[obj].words)
      /\ \/ /\ to_enqueue(p) /\ mem' = enqueue(tail, p)
            /\ gc' = [gc EXCEPT !.tail = next_obj(tail), !.fld = fld + 1]
         \/ /\ ~to_enqueue(p) /\ mem' = mem
            /\ gc' = [gc EXCEPT !.fld = fld + 1]
  BY DEF mark_field, same_roots, marking
<1>2. /\ Places /\ tiled_from(heap.begin) /\ heap.begin \in Bases
      /\ objects(mem) /\ gc \in GcLocals /\ Typed /\ Clean /\ Queue /\ Traced
      /\ fields_in(DOMAIN mem, references(DOMAIN mem))
  BY <1>1, MarkingFacts
<1>3. /\ obj \in Marked /\ obj \in DOMAIN mem /\ fld \in Nat /\ tail \in Nat
      /\ fields_in(Marked \ {obj}, references(Visited))
      /\ \A i \in fields(mem[obj]) : i < fld => mem[obj].words[i] \in references(Visited)
      /\ fld >= first_field(mem[obj].type, mem[obj].len)
  BY <1>1, <1>2 DEF Traced, Marked, GcLocals
<1>4. /\ fld \in fields(mem[obj]) /\ p \in references(DOMAIN mem) /\ p \in Nat
      /\ \A i \in fields(mem[obj]) : i \in Nat
  <2>1. /\ first_field(mem[obj].type, mem[obj].len) \in Nat /\ Len(mem[obj].words) \in Nat
    BY <1>2, <1>3, FieldsAreWords DEF objects
  <2>2. fld \in fields(mem[obj]) /\ \A i \in fields(mem[obj]) : i \in Nat
    BY <1>1, <1>3, <2>1 DEF fields
  <2> QED BY <1>2, <1>3, <2>2 DEF fields_in, references
<1>5. /\ is_valid_heap_pointer(p) => t \in DOMAIN mem
      /\ ~is_valid_heap_pointer(p) => outside(p)
  BY <1>2, <1>4, Pointers
<1>6. Visited \subseteq DOMAIN mem
  BY DEF Visited, Marked, Enqueued
<1>7. ASSUME gc'.fld = fld + 1, gc'.obj = obj, same_words(mem, mem'),
             Marked' = Marked, Visited \subseteq Visited', p \in references(Visited')
      PROVE  Traced'
  <2>1. references(Visited) \subseteq references(Visited')
    BY <1>7, ReferencesGrow
  <2>2. fields_in(Marked \ {gc.obj}, references(Visited))'
    <3>1. fields_in(Marked \ {obj}, references(Visited')) /\ Marked \ {obj} \subseteq DOMAIN mem
      BY <1>3, <2>1 DEF fields_in, Marked
    <3>2. Marked' \ {gc'.obj} = Marked \ {obj}
      BY <1>7
    <3> QED BY <1>7, <3>1, <3>2, FieldsStay
  <2>3. /\ fields(mem'[obj]) = fields(mem[obj]) /\ mem'[obj].words = mem[obj].words
        /\ mem'[obj].type = mem[obj].type /\ mem'[obj].len = mem[obj].len
    BY <1>3, <1>7, FieldsStay DEF same_words
  <2>4. ASSUME NEW i \in fields(mem[obj]), i < fld + 1
        PROVE  mem[obj].words[i] \in references(Visited')
    <3>1. CASE i = fld
      BY <1>7, <3>1
    <3>2. CASE i # fld
      <4>1. i < fld
        BY <1>3, <1>4, <2>4, <3>2
      <4> QED BY <1>3, <2>1, <4>1
    <3> QED BY <3>1, <3>2
  <2>5. first_field(mem[obj].type, mem[obj].len) \in Nat
    BY <1>2, <1>3, FieldsAreWords DEF objects
  <2>6. fld + 1 >= first_field(mem[obj].type, mem[obj].len)
    BY <1>3, <2>5
  <2> QED BY <1>1, <1>3, <1>7, <2>2, <2>3, <2>4, <2>6 DEF Traced
<1>8. MarkingRoots'
  BY <1>1 DEF MarkingRoots
<1>9. CASE ~to_enqueue(p)
  <2>1. mem' = mem /\ gc' = [gc EXCEPT !.fld = fld + 1] /\ same_words(mem, mem')
    BY <1>1, <1>2, <1>9, SameWordsRefl
  <2>2. /\ gc' \in GcLocals /\ gc'.idx = gc.idx /\ gc'.head = gc.head /\ gc'.tail = gc.tail
        /\ gc'.obj = obj /\ gc'.fld = fld + 1
    BY ONLY <1>2, <1>3, <2>1, obj = gc.obj DEF GcLocals
  <2>3. Marked' = Marked /\ Enqueued' = Enqueued /\ Visited' = Visited
    BY <2>1 DEF Marked, Enqueued, Visited
  <2>4. Typed' /\ Clean'
    BY <1>1, <1>2, <2>1, <2>2, TypedStays, CleanStays
  <2>5. p \in references(Visited)
    BY <1>4, <1>5, <1>9 DEF to_enqueue, references, Visited, Marked, Enqueued
  <2>6. Traced'
    BY <1>7, <2>1, <2>2, <2>3, <2>5
  <2>7. Queue'
    <3>1. Queue /\ pc = pc' /\ pc \in {"mark_queue", "mark_fields"}
      BY <1>1, <1>2
    <3> QED BY <1>1, <2>1, <2>2, <2>3, <3>1, RootsStay DEF Queue, boundary, queued, queue_slots
  <2> QED BY <1>1, <1>8, <2>4, <2>6, <2>7, MarkingOnly
<1>10. CASE to_enqueue(p)
  <2>1. /\ mem' = enqueue(tail, p) /\ t \in DOMAIN mem /\ t \notin Visited
        /\ ~mem[t].marked /\ ~mem[t].enqueued
        /\ gc' = [gc EXCEPT !.tail = next_obj(tail), !.fld = fld + 1]
    BY <1>1, <1>5, <1>10 DEF to_enqueue, Visited, Marked, Enqueued
  <2>2. /\ boundary(gc.head) /\ boundary(tail) /\ gc.head <= tail /\ gc.head \in Nat
        /\ \A a \in DOMAIN mem : a < tail => TO_DATA(queued(a)) \in Visited
        /\ \A a, b \in DOMAIN mem : a < tail /\ b < tail /\ queued(a) = queued(b) => a = b
        /\ {TO_DATA(queued(a)) : a \in queue_slots} = Enqueued
        /\ Marked \cap Enqueued = {}
        /\ gc.idx \in 1 .. root_count
        /\ \A i \in 1 .. gc.idx : root(i) \in references(Visited)
    BY <1>1, <1>2 DEF Queue, GcLocals
  <2>3. tail \in DOMAIN mem
    <3>1. \E a \in DOMAIN mem : a >= tail
      BY <1>2, <1>3, <1>6, <2>1, <2>2, SlotLeft
    <3> QED BY <1>2, <2>2, <3>1 DEF boundary, Places
  <2>4. /\ boundary(next_obj(tail)) /\ next_obj(tail) \in Nat /\ tail < next_obj(tail)
        /\ \A a \in DOMAIN mem : a \in Nat /\ (a < next_obj(tail) <=> a <= tail)
    BY <1>2, <2>3, Boundaries DEF Places
  <2>5. /\ same_words(mem, mem')
        /\ \A a \in DOMAIN mem : mem'[a].marked = mem[a].marked
        /\ \A a \in DOMAIN mem : mem'[a].forward = IF a = tail THEN p ELSE mem[a].forward
        /\ \A a \in DOMAIN mem : mem'[a].enqueued = (a = t \/ mem[a].enqueued)
    <3>1. objects(mem) /\ p \in Nat /\ TO_DATA(p) = t /\ t \in DOMAIN mem /\ mem' = enqueue(tail, p)
      BY <1>2, <1>4, <2>1
    <3> QED BY ONLY <2>3, <3>1, Enqueueing
  <2>6. /\ DOMAIN mem' = DOMAIN mem /\ Marked' = Marked /\ Enqueued' = Enqueued \cup {t}
        /\ Visited' = Visited \cup {t}
    <3>1. DOMAIN mem' = DOMAIN mem
      BY <2>5 DEF same_words
    <3>2. Marked' = Marked
      BY <2>5, <3>1 DEF Marked
    <3>3. Enqueued' = Enqueued \cup {t}
      <4>1. t \in DOMAIN mem /\ \A a \in DOMAIN mem : mem'[a].enqueued = (a = t \/ mem[a].enqueued)
        BY <2>1, <2>5
      <4> QED BY ONLY <3>1, <4>1 DEF Enqueued
    <3> QED BY <3>1, <3>2, <3>3 DEF Visited
  <2>7. /\ gc' \in GcLocals /\ gc'.idx = gc.idx /\ gc'.head = gc.head /\ gc'.tail = next_obj(tail)
        /\ gc'.obj = obj /\ gc'.fld = fld + 1
    <3> PICK next : next = next_obj(tail) OBVIOUS
    <3>1. /\ gc' = [gc EXCEPT !.tail = next, !.fld = fld + 1] /\ gc \in GcLocals
          /\ fld \in Nat /\ next \in Nat /\ obj = gc.obj
      BY <1>2, <1>3, <2>1, <2>4
    <3>2. /\ gc' \in GcLocals /\ gc'.idx = gc.idx /\ gc'.head = gc.head /\ gc'.tail = next
          /\ gc'.obj = obj /\ gc'.fld = fld + 1
      <4> PICK f : f = fld + 1 OBVIOUS
      <4>1. f \in Nat /\ gc' = [gc EXCEPT !.tail = next, !.fld = f] /\ gc \in GcLocals /\ next \in Nat
        BY <3>1
      <4>2. gc' \in GcLocals
        BY ONLY <4>1 DEF GcLocals
      <4>3. /\ gc'.idx = gc.idx /\ gc'.head = gc.head /\ gc'.tail = next
            /\ gc'.obj = gc.obj /\ gc'.fld = f
        BY ONLY <4>1 DEF GcLocals
      <4> QED BY <3>1, <4>2, <4>3
    <3> QED BY <3>2
  <2>8. Typed' /\ Clean'
    BY <1>1, <1>2, <2>5, <2>7, TypedStays, CleanStays
  <2>9. p \in references(Visited')
    BY <1>4, <2>6 DEF references
  <2>10. Traced'
    BY <1>7, <2>5, <2>6, <2>7, <2>9
  <2>11. Queue'
    <3>1. boundary(gc.head)' /\ boundary(gc.tail)' /\ gc'.head <= gc'.tail
      BY <1>1, <1>3, <2>2, <2>4, <2>6, <2>7 DEF boundary
    <3>2. /\ queued(tail)' = p
          /\ \A a \in DOMAIN mem : a # tail => queued(a)' = queued(a)
      BY <2>3, <2>5 DEF queued
    <3>3. \A a \in DOMAIN mem' : a < gc'.tail => a = tail \/ a < tail
      BY <1>3, <2>4, <2>6, <2>7
    <3>4. \A a \in DOMAIN mem' : a < gc'.tail => TO_DATA(queued(a)') \in Visited'
      BY <2>2, <2>6, <3>2, <3>3
    <3>5. ASSUME NEW a \in DOMAIN mem', a < tail PROVE queued(a)' # p /\ queued(a)' = queued(a)
      <4>1. queued(a)' = queued(a) /\ TO_DATA(queued(a)) \in Visited
        BY <1>3, <2>2, <2>6, <3>2, <3>5
      <4> QED BY <2>1, <4>1
    <3>6. ASSUME NEW a \in DOMAIN mem', NEW b \in DOMAIN mem', a < gc'.tail, b < gc'.tail,
                 queued(a)' = queued(b)'
          PROVE  a = b
      BY <2>2, <2>6, <3>2, <3>3, <3>5, <3>6
    <3>7. queue_slots' = queue_slots \cup {tail} /\ tail \notin queue_slots
      BY <1>3, <2>2, <2>3, <2>4, <2>6, <2>7, <3>3 DEF queue_slots
    <3>8. {TO_DATA(queued(a)) : a \in queue_slots}' = Enqueued'
      <4>1. \A a \in queue_slots : queued(a)' = queued(a)
        BY <3>2, <3>7 DEF queue_slots
      <4> QED BY <2>2, <2>6, <3>2, <3>7, <4>1
    <3>9. Marked' \cap Enqueued' = {}
      BY <2>1, <2>2, <2>6 DEF Visited
    <3>10. ASSUME NEW i \in 1 .. gc'.idx PROVE root(i)' \in references(Visited')
      <4>1. references(Visited) \subseteq references(Visited')
        BY <2>6, ReferencesGrow
      <4>2. root(i)' = root(i)
        BY <1>1, RootsStay
      <4> QED BY <2>2, <2>7, <4>1, <4>2
    <3>11. gc'.idx \in 1 .. root_count'
      BY <1>1, <2>2, <2>7, RootsStay
    <3> QED BY <3>1, <3>4, <3>6, <3>8, <3>9, <3>10, <3>11 DEF Queue
  <2> QED BY <1>1, <1>8, <2>8, <2>10, <2>11, MarkingOnly
<1> QED BY <1>9, <1>10

\* All fields looked at: back to the head of the queue.
LEMMA MarkFieldsDoneSound ==
  ASSUME Structure, Soundness, mark_fields_done, cur_id' = cur_id PROVE Soundness'
<1>1. /\ pc = "mark_fields" /\ pc' = "mark_queue" /\ heap' = heap /\ mem' = mem /\ gc' = gc
      /\ same_roots /\ marking /\ marking' /\ gc.fld > Len(mem[gc.obj].words)
  BY DEF mark_fields_done, same_roots, marking
<1>2. objects(mem) /\ gc \in GcLocals /\ Typed /\ Clean /\ Queue /\ Traced /\ same_words(mem, mem')
  BY <1>1, MarkingFacts, SameWordsRefl
<1>3. Marked' = Marked /\ Enqueued' = Enqueued /\ Visited' = Visited
  BY <1>1 DEF Marked, Enqueued, Visited
<1>4. Typed' /\ Clean'
  BY <1>1, <1>2, TypedStays, CleanStays
<1>5. Queue'
  <2>1. Queue /\ pc \in {"mark_queue", "mark_fields"} /\ pc' \in {"mark_queue", "mark_fields"}
    BY <1>1, <1>2
  <2> QED BY <1>1, <1>3, <2>1, RootsStay DEF Queue, boundary, queued, queue_slots
<1>6. fields_in(Marked, references(Visited)) /\ Marked \subseteq DOMAIN mem
  <2>1. \A i \in fields(mem[gc.obj]) : i < gc.fld
    <3>1. gc.obj \in DOMAIN mem /\ gc.fld \in Nat
      BY <1>1, <1>2 DEF Traced, Marked, GcLocals
    <3>2. fields(mem[gc.obj]) \subseteq 1 .. Len(mem[gc.obj].words) /\ Len(mem[gc.obj].words) \in Nat
      BY <1>2, <3>1, FieldsAreWords DEF objects
    <3> QED BY <1>1, <3>1, <3>2
  <2> QED BY <1>1, <1>2, <2>1 DEF Traced, fields_in, Marked
<1>7. Traced'
  <2>1. fields_in(Marked, references(Visited))'
    BY <1>2, <1>3, <1>6, FieldsStay
  <2> QED BY <1>1, <2>1 DEF Traced
<1>8. MarkingRoots'
  BY <1>1 DEF MarkingRoots
<1> QED BY <1>1, <1>4, <1>5, <1>7, <1>8, MarkingOnly

\* The queue is empty, so all that has been visited is marked: the next root.
LEMMA MarkDoneSound ==
  ASSUME Structure, Soundness, mark_done, cur_id' = cur_id PROVE Soundness'
<1>1. /\ pc = "mark_queue" /\ pc' = "mark_roots" /\ heap' = heap /\ mem' = mem
      /\ same_roots /\ marking /\ marking' /\ gc.head = gc.tail
      /\ gc' = [gc EXCEPT !.idx = @ + 1, !.head = 0, !.tail = 0, !.obj = 0, !.fld = 0]
  BY DEF mark_done, same_roots, marking
<1>2. /\ Places /\ objects(mem) /\ gc \in GcLocals /\ Typed /\ Clean /\ Queue /\ Traced
      /\ root_count \in Nat /\ same_words(mem, mem')
  BY <1>1, MarkingFacts, SameWordsRefl
<1>3. gc' \in GcLocals /\ gc'.idx = gc.idx + 1 /\ gc.idx \in Nat
  <2>1. gc.idx \in Nat
    BY <1>2 DEF GcLocals
  <2>2. gc' = [gc EXCEPT !.idx = gc.idx + 1, !.head = 0, !.tail = 0, !.obj = 0, !.fld = 0]
        /\ gc \in GcLocals /\ gc.idx + 1 \in Nat
    BY <1>1, <1>2, <2>1
  <2> QED BY ONLY ZenonT(30), <2>1, <2>2, NextRoot
<1>4. Enqueued = {} /\ Visited = Marked
  <2>1. queue_slots = {}
    <3>1. gc.head \in Nat /\ \A a \in DOMAIN mem : a \in Nat
      BY <1>2 DEF GcLocals, Places
    <3> QED BY <1>1, <3>1 DEF queue_slots
  <2>2. Enqueued = {}
    BY <1>1, <1>2, <2>1 DEF Queue
  <2> QED BY <2>2 DEF Visited
<1>5. Marked' = Marked /\ Enqueued' = {}
  BY <1>1, <1>4 DEF Marked, Enqueued
<1>6. Typed' /\ Clean'
  BY <1>1, <1>2, <1>3, <1>5, TypedStays, CleanStays
<1>7. MarkingRoots'
  <2>1. fields_in(Marked, references(Marked)) /\ Marked \subseteq DOMAIN mem
    BY <1>1, <1>2, <1>4 DEF Traced, Marked
  <2>2. fields_in(Marked, references(Marked))'
    BY <1>2, <1>5, <2>1, FieldsStay
  <2>3. ASSUME NEW i \in 1 .. gc'.idx - 1 PROVE root(i)' \in references(Marked')
    <3>1. i \in 1 .. gc.idx
      BY <1>3
    <3>2. root(i) \in references(Visited) /\ root(i)' = root(i)
      BY <1>1, <1>2, <3>1, RootsStay DEF Queue
    <3> QED BY <1>4, <1>5, <3>2
  <2> QED BY <1>1, <1>3, <2>2, <2>3 DEF MarkingRoots
<1>8. Queue' /\ Traced'
  BY <1>1 DEF Queue, Traced
<1> QED BY <1>1, <1>6, <1>7, <1>8, MarkingOnly

\* Every root has been scanned: what is followed is marked.
LEMMA MarkPhaseDoneSound ==
  ASSUME Structure, Soundness, mark_phase_done, cur_id' = cur_id PROVE Soundness'
<1>1. /\ pc = "mark_roots" /\ pc' = "compute_locations" /\ heap' = heap /\ mem' = mem
      /\ same_roots /\ marking /\ compacting' /\ gc.idx > root_count
      /\ gc' = [no_locals EXCEPT !.it = heap.begin, !.free = heap.begin]
  BY DEF mark_phase_done, same_roots, marking, compacting
<1>2. /\ Places /\ objects(mem) /\ gc \in GcLocals /\ Typed /\ MarkingRoots
      /\ root_count \in Nat /\ same_words(mem, mem') /\ extra \in Seq(Cell)
  BY <1>1, MarkingFacts, SameWordsRefl
<1>3. gc' \in GcLocals
  <2>1. heap.begin \in Nat
    BY <1>2 DEF Places
  <2> QED BY ONLY <1>1, <2>1 DEF GcLocals, no_locals
<1>4. Marked' = Marked /\ Enqueued' = {}
  BY <1>1, <1>2 DEF Marked, Enqueued, Typed
<1>5. Typed'
  BY <1>1, <1>2, <1>3, <1>4, TypedStays
<1>6. Closed'
  <2>1. roots_in(references(Marked))
    <3>1. ASSUME NEW i \in 1 .. root_count PROVE root(i) \in references(Marked)
      <4>1. i \in 1 .. gc.idx - 1 /\ i <= root_count
        BY <1>1, <1>2 DEF GcLocals
      <4> QED BY <1>1, <1>2, <4>1 DEF MarkingRoots
    <3>2. stack \in Seq(Nat) /\ statics \in Seq(Nat)
      BY <1>2 DEF Typed, ClientTypeOK, Word
    <3> QED BY <1>2, <3>1, <3>2, RootsAreAll
  <2>2. roots_in(references(Marked))'
    BY <1>1, <1>4, <2>1 DEF roots_in, cells_in, cell_word, same_roots
  <2>3. fields_in(Marked, references(Marked)) /\ Marked \subseteq DOMAIN mem
    BY <1>1, <1>2 DEF MarkingRoots, Marked
  <2>4. fields_in(Marked, references(Marked))'
    BY <1>2, <1>4, <2>3, FieldsStay
  <2> QED BY <2>2, <2>4 DEF Closed
<1>7. /\ Clean' /\ MarkingRoots' /\ Queue' /\ Traced' /\ Moved'
      /\ UpdatingObjects' /\ FixingRoots' /\ Relocated'
  BY <1>1 DEF Clean, MarkingRoots, Queue, Traced, Moved, UpdatingObjects, FixingRoots,
     Relocated, gc_idle, marking
<1> QED BY <1>5, <1>6, <1>7 DEF Soundness

-------------------------------------------------------------------------------
(* compute_locations and mremap *)

\* The forward_address is not a word that is followed.
LEMMA ForwardOnly ==
  ASSUME objects(mem), NEW x, NEW v \in Nat, mem' = [mem EXCEPT ![x].forward = v]
  PROVE  /\ same_words(mem, mem')
         /\ \A a \in DOMAIN mem : /\ mem'[a].marked = mem[a].marked
                                  /\ mem'[a].enqueued = mem[a].enqueued
BY DEF objects, Object, same_words

LEMMA ComputeLocationSound ==
  ASSUME Structure, Soundness, compute_location, cur_id' = cur_id PROVE Soundness'
<1> PICK it : it = gc.it OBVIOUS
<1> PICK n : n = WORDS_TO_BYTES(size_of(mem[it])) OBVIOUS
<1>1. /\ pc = "compute_locations" /\ pc' = "compute_locations" /\ heap' = heap
      /\ same_roots /\ compacting' /\ it < heap.current
      /\ \/ /\ mem' = [mem EXCEPT ![it].forward = gc.free]
            /\ gc' = [gc EXCEPT !.it = next_obj(it), !.free = gc.free + n]
         \/ /\ mem' = mem
            /\ gc' = [gc EXCEPT !.it = next_obj(it)]
  <2>1. /\ pc = "compute_locations" /\ pc' = "compute_locations" /\ heap' = heap
        /\ same_roots /\ compacting' /\ it < heap.current
    BY DEF compute_location, same_roots, compacting
  <2>2. CASE mem[it].marked
    <3>1. /\ mem' = [mem EXCEPT ![it].forward = gc.free]
          /\ gc' = [gc EXCEPT !.it = next_obj(it), !.free = gc.free + n]
      BY <2>2 DEF compute_location
    <3> QED BY <2>1, <3>1
  <2>3. CASE ~mem[it].marked
    <3>1. mem' = mem /\ gc' = [gc EXCEPT !.it = next_obj(it)]
      BY <2>3 DEF compute_location
    <3> QED BY <2>1, <3>1
  <2> QED BY <2>2, <2>3
<1>2. /\ Typed /\ Closed /\ objects(mem) /\ gc \in GcLocals /\ Places
      /\ Computing /\ Shapes
  BY PlacesOf DEF Soundness, Structure, Typed, ClientTypeOK, objects, GcLocals
<1>3. gc.free \in Nat /\ it \in DOMAIN mem /\ next_obj(it) \in Nat /\ n \in Nat
  <2>1. gc.free \in Nat /\ it \in DOMAIN mem
    BY <1>1, <1>2 DEF Computing, tiled_from, Places
  <2>2. size_of(mem[it]) \in Nat
    BY <1>2, <2>1, SizeOf DEF Shapes
  <2> QED BY <1>2, <2>1, <2>2 DEF Places, WORDS_TO_BYTES, WORD_BYTES
<1>4. gc' \in GcLocals
  <2> PICK next : next = next_obj(it) OBVIOUS
  <2> PICK free : free = gc.free + n OBVIOUS
  <2>1. /\ next \in Nat /\ free \in Nat /\ gc \in GcLocals
        /\ \/ gc' = [gc EXCEPT !.it = next, !.free = free]
           \/ gc' = [gc EXCEPT !.it = next]
    BY <1>1, <1>2, <1>3
  <2> QED BY ONLY <2>1 DEF GcLocals
<1>5. /\ same_words(mem, mem')
      /\ \A a \in DOMAIN mem : /\ mem'[a].marked = mem[a].marked
                               /\ mem'[a].enqueued = mem[a].enqueued
  <2>1. CASE mem' = mem
    BY <1>2, <2>1, SameWordsRefl
  <2>2. CASE mem' = [mem EXCEPT ![it].forward = gc.free]
    BY <1>2, <1>3, <2>2, ForwardOnly
  <2> QED BY <1>1, <2>1, <2>2
<1>6. Marked' = Marked /\ Enqueued' = {}
  BY <1>1, <1>2, <1>5 DEF Marked, Enqueued, Typed, same_words
<1>7. Typed'
  BY <1>1, <1>2, <1>4, <1>5, <1>6, TypedStays
<1>8. Closed'
  <2>1. roots_in(references(Marked)) /\ fields_in(Marked, references(Marked))
        /\ Marked \subseteq DOMAIN mem
    BY <1>1, <1>2 DEF Closed, Marked
  <2>2. roots_in(references(Marked))'
    BY <1>1, <1>6, <2>1 DEF roots_in, cells_in, cell_word, same_roots
  <2>3. fields_in(Marked, references(Marked))'
    BY <1>5, <1>6, <2>1, FieldsStay
  <2> QED BY <2>2, <2>3 DEF Closed
<1>9. /\ Clean' /\ MarkingRoots' /\ Queue' /\ Traced' /\ Moved'
      /\ UpdatingObjects' /\ FixingRoots' /\ Relocated'
  BY <1>1 DEF Clean, MarkingRoots, Queue, Traced, Moved, UpdatingObjects, FixingRoots,
     Relocated, gc_idle, marking
<1> QED BY <1>7, <1>8, <1>9 DEF Soundness

\* mremap moves the objects, and every word holds an address of the old heap.
LEMMA MremapSound ==
  ASSUME Structure, Soundness, mremap, cur_id' = cur_id PROVE Soundness'
<1> PICK begin : begin = heap.begin OBVIOUS
<1> PICK live : live = gc.free - heap.begin OBVIOUS
<1> PICK size2 : size2 = next_heap_size(req.size) OBVIOUS
<1>1. /\ pc = "compute_locations" /\ pc' = "update_references"
      /\ same_roots /\ compacting'
  BY DEF mremap, same_roots, compacting
<1>2. /\ Typed /\ Closed /\ objects(mem) /\ Places
      /\ Computing /\ tiled_from(heap.begin) /\ heap.begin \in Bases
  BY <1>1, PlacesOf DEF Soundness, Structure, Typed, ClientTypeOK, objects
<1>3. PICK b \in Bases :
        /\ heap' = [begin |-> b, size |-> size2, current |-> b + (heap.current - begin)]
        /\ mem' = [a \in {x + (b - begin) : x \in DOMAIN mem} |-> mem[a - (b - begin)]]
        /\ gc' = [no_locals EXCEPT !.it = b, !.live = live,
                     !.old = [begin |-> begin, current |-> heap.current]]
  <2>1. PICK b \in (IF size2 = heap.size THEN {begin} ELSE Bases) :
        /\ heap' = [begin |-> b, size |-> next_heap_size(req.size),
                    current |-> b + (heap.current - heap.begin)]
        /\ mem' = [a \in {x + (b - heap.begin) : x \in DOMAIN mem} |->
                     mem[a - (b - heap.begin)]]
        /\ gc' = [no_locals EXCEPT !.it = b, !.live = gc.free - heap.begin,
                     !.old = [begin |-> heap.begin, current |-> heap.current]]
    BY DEF mremap
  <2>2. b \in Bases
    BY <1>2, <2>1
  <2> QED BY <2>1, <2>2
<1> PICK d : d = b - begin OBVIOUS
<1>4. /\ begin \in Nat /\ heap.current \in Nat /\ begin <= heap.current /\ b \in Nat /\ d \in Int
      /\ heap'.begin = b /\ heap'.current = heap.current + d /\ heap'.current \in Nat
  BY <1>2, <1>3, BasesAssumption DEF Places
<1>5. live \in Nat /\ size2 \in Nat \ {0}
  <2>1. live \in Nat
    BY <1>1, <1>2, <1>4 DEF Computing, chain
  <2>2. size2 \in Nat /\ heap.size <= size2
    BY <1>1, SizeRoom
  <2>3. heap.size \in Nat \ {0}
    BY <1>2 DEF Typed, ClientTypeOK
  <2> QED BY <2>1, <2>2, <2>3
<1>6. /\ \A y \in DOMAIN mem' : y \in Nat /\ y - d \in DOMAIN mem /\ mem'[y] = mem[y - d]
                                /\ b <= y
      /\ \A x \in DOMAIN mem : x \in Nat /\ x + d \in DOMAIN mem' /\ mem'[x + d] = mem[x]
  BY <1>2, <1>3, <1>4 DEF Places
<1>7. /\ gc' \in GcLocals /\ gc'.it = b /\ gc'.old.begin = begin
      /\ gc'.old.current = heap.current
  BY ONLY <1>3, <1>4, <1>5 DEF GcLocals, no_locals
<1>8. Enqueued' = {} /\ Marked' = {y \in DOMAIN mem' : y - d \in Marked}
  BY <1>1, <1>2, <1>6 DEF Enqueued, Marked, Typed
<1>9. Typed'
  <2>1. heap' \in [begin: Nat, current: Nat, size: Nat \ {0}]
    BY <1>3, <1>4, <1>5
  <2>2. ClientTypeOK'
    <3>1. DOMAIN mem' \subseteq Nat /\ \A a \in DOMAIN mem' : mem'[a] \in Object
      BY <1>2, <1>6 DEF objects
    <3>2. ClientTypeOK
      BY <1>2 DEF Typed
    <3> QED BY <1>1, <1>7, <2>1, <3>1, <3>2 DEF ClientTypeOK, same_roots, Cell, GcLocals
  <2>3. ASSUME NEW a \in DOMAIN mem', mem'[a].type = "STRING"
        PROVE  Len(mem'[a].words) = mem'[a].len
    <3>1. a - d \in DOMAIN mem /\ mem'[a] = mem[a - d]
      BY <1>6
    <3>2. \A x \in DOMAIN mem : mem[x].type = "STRING" => Len(mem[x].words) = mem[x].len
      BY <1>2 DEF Typed
    <3> QED BY ONLY <2>3, <3>1, <3>2
  <2> QED BY <1>1, <1>2, <1>4, <1>8, <2>2, <2>3 DEF Typed, same_roots
<1>10. old_references' = references(Marked)
  <2>1. old_places' = {a - b + begin : a \in Marked'}
    BY <1>4, <1>7 DEF old_places
  <2>2. \A a \in Marked' : a \in Nat /\ a - b + begin = a - d /\ a - d \in Marked
    BY <1>4, <1>6, <1>8
  <2>3. \A x \in Marked : x \in Nat /\ x + d \in Marked' /\ (x + d) - b + begin = x
    <3> TAKE x \in Marked
    <3>1. x \in DOMAIN mem /\ x \in Nat /\ x + d \in DOMAIN mem' /\ (x + d) - d = x
      BY <1>4, <1>6 DEF Marked
    <3> QED BY <1>4, <1>8, <3>1
  <2>4. old_places' = Marked
    BY <2>1, <2>2, <2>3
  <2> QED BY <2>4 DEF old_references
<1>11. roots_in(references(Marked)) /\ fields_in(Marked, references(Marked))
  BY <1>1, <1>2 DEF Closed
<1>12. Moved'
  <2>1. statics' \in Seq(old_references')
    BY <1>1, <1>10, <1>11 DEF roots_in, same_roots
  <2>2. gc'.old.current = gc'.old.begin + (heap'.current - heap'.begin)
    BY <1>4, <1>7
  <2> QED BY <1>2, <1>7, <2>1, <2>2 DEF Moved
<1>13. UpdatingObjects'
  <2>1. boundary(b)'
    <3>1. heap.begin \in DOMAIN mem \/ heap.begin = heap.current
      BY <1>2 DEF tiled_from
    <3>2. begin + d = b
      BY <1>4
    <3> QED BY <1>4, <1>6, <3>1, <3>2 DEF boundary
  <2>2. stack' \in Seq(old_references') /\ cells_in(DOMAIN extra, old_references)'
    BY <1>1, <1>10, <1>11 DEF roots_in, cells_in, cell_word, same_roots
  <2>3. ASSUME NEW a \in Marked' PROVE ~(a < b) /\ \A i \in fields(mem[a])' : mem'[a].words[i] \in old_references'
    <3>1. a \in DOMAIN mem' /\ a - d \in Marked /\ mem'[a] = mem[a - d] /\ b <= a /\ a \in Nat
      BY <1>6, <1>8
    <3>2. fields(mem[a])' = fields(mem[a - d])
      BY <3>1 DEF fields
    <3> QED BY <1>4, <1>10, <1>11, <3>1, <3>2 DEF fields_in
  <2> QED BY <1>1, <1>7, <2>1, <2>2, <2>3 DEF UpdatingObjects, fields_in
<1>14. /\ Clean' /\ MarkingRoots' /\ Queue' /\ Traced' /\ Closed' /\ FixingRoots' /\ Relocated'
  BY <1>1 DEF Clean, MarkingRoots, Queue, Traced, Closed, FixingRoots, Relocated, gc_idle, marking
<1> QED BY <1>9, <1>12, <1>13, <1>14 DEF Soundness

-------------------------------------------------------------------------------
(* update_references *)

updating == pc \in {"update_references", "fix_extra_roots"}

\* What every step of update_references starts from.
LEMMA UpdatingFacts ==
  ASSUME Structure, Soundness, updating
  PROVE  /\ Places /\ objects(mem) /\ gc \in GcLocals /\ extra \in Seq(Cell) /\ Typed
         /\ Moved /\ UpdatingObjects /\ FixingRoots /\ tiled_from(heap.begin)
         /\ to_move = Marked /\ gc.old.begin \in Nat
         /\ \A a \in Marked : /\ a \in DOMAIN mem /\ a \in Nat
                              /\ moved_to(a) \in Nat /\ moved_to(a) <= a
                              /\ moved_to(a) = forwarded(mem[a])
<1>1. /\ Typed /\ Moved /\ UpdatingObjects /\ FixingRoots /\ Places /\ tiled_from(heap.begin)
      /\ Updating
  BY PlacesOf DEF Soundness, Structure, updating
<1>2. objects(mem) /\ gc \in GcLocals /\ extra \in Seq(Cell) /\ gc.old.begin \in Nat
  BY <1>1 DEF Typed, ClientTypeOK, objects, GcLocals
<1>3. to_move = Marked
  BY DEF to_move, Marked, updating
<1>4. ASSUME NEW a \in Marked
      PROVE  /\ a \in DOMAIN mem /\ a \in Nat /\ moved_to(a) \in Nat /\ moved_to(a) <= a
             /\ moved_to(a) = forwarded(mem[a])
  <2>1. a \in DOMAIN mem /\ a \in Nat /\ heap.begin \in Nat
    BY <1>1 DEF Marked, Places
  <2>2. moved_to(a) \in Int /\ heap.begin <= moved_to(a) /\ moved_to(a) <= a
    BY <1>1, <1>3 DEF Updating, updating, chain
  <2>3. moved_to(a) = forwarded(mem[a])
    BY DEF moved_to, updating
  <2> QED BY <2>1, <2>2, <2>3
<1> QED BY <1>1, <1>2, <1>3, <1>4

\* A word that holds an old address, or none, is given the new one.
LEMMA NewReference ==
  ASSUME Structure, Soundness, updating, NEW p \in old_references
  PROVE  new_reference(p) \in new_references
<1>1. /\ Places /\ gc.old.begin \in Nat /\ gc.old.begin \in Bases /\ Moved /\ to_move = Marked
      /\ gc.old.current = gc.old.begin + (heap.current - heap.begin)
      /\ \A a \in Marked : /\ a \in DOMAIN mem /\ a \in Nat
                           /\ moved_to(a) \in Nat /\ moved_to(a) = forwarded(mem[a])
  BY UpdatingFacts DEF Moved, updating
<1>2. p \in Nat /\ (outside(p) \/ TO_DATA(p) \in old_places)
  BY DEF old_references, references
<1>3. CASE outside(p)
  <2>1. ~in_old_heap(p)
    BY <1>1, <1>2, <1>3 DEF outside, in_old_heap
  <2> QED BY <1>2, <1>3, <2>1 DEF new_reference, new_references, references
<1>4. CASE ~outside(p)
  <2>1. PICK a \in Marked : p - 8 = a - heap.begin + gc.old.begin
    BY <1>2, <1>4 DEF old_places, TO_DATA, DATA_HEADER_SZ
  <2>2. /\ a \in DOMAIN mem /\ a \in Nat /\ moved_to(a) \in Nat /\ heap.begin \in Nat
        /\ heap.begin <= a /\ a + 8 <= heap.current /\ heap.current \in Nat
    BY <1>1 DEF Places
  <2>3. in_old_heap(p)
    BY <1>1, <1>2, <1>4, <2>1, <2>2 DEF outside, in_old_heap
  <2>4. TO_DATA(after_mremap(p)) = a
    BY <1>1, <1>2, <2>1, <2>2 DEF TO_DATA, DATA_HEADER_SZ, after_mremap
  <2>5. new_reference(p) = moved_to(a) + 8
    BY <1>1, <2>3, <2>4 DEF new_reference, get_object_content_ptr, DATA_HEADER_SZ
  <2>6. TO_DATA(new_reference(p)) = moved_to(a) /\ new_reference(p) \in Nat
    BY <2>2, <2>5 DEF TO_DATA, DATA_HEADER_SZ
  <2>7. moved_to(a) \in destinations
    BY <1>1 DEF destinations
  <2> QED BY <2>6, <2>7 DEF new_references, references
<1> QED BY <1>3, <1>4

LEMMA FunctionIsSeq ==
  ASSUME NEW n \in Nat, NEW R, NEW w, w = [i \in 1 .. n |-> w[i]], \A i \in 1 .. n : w[i] \in R
  PROVE  w \in Seq(R) /\ Len(w) = n
<1>1. [i \in 1 .. n |-> w[i]] \in Seq(R) /\ Len([i \in 1 .. n |-> w[i]]) = n
  OBVIOUS
<1> QED BY <1>1

LEMMA Pushing ==
  ASSUME NEW R, NEW s \in Seq(R), NEW v \in R
  PROVE  push(s, v) \in Seq(R) /\ Len(push(s, v)) = Len(s) + 1
BY DEF push

LEMMA Replacing ==
  ASSUME NEW R, NEW s \in Seq(R), NEW v \in R, NEW i
  PROVE  [s EXCEPT ![i] = v] \in Seq(R) /\ Len([s EXCEPT ![i] = v]) = Len(s)
<1> PICK n : n = Len(s) OBVIOUS
<1> PICK t : t = [s EXCEPT ![i] = v] OBVIOUS
<1>1. s \in [1 .. n -> R] /\ n \in Nat
  OBVIOUS
<1>2. t \in [1 .. n -> R]
  BY <1>1
<1>3. t \in Seq(R) /\ Len(t) = n
  BY ONLY <1>1, <1>2
<1> QED BY <1>3

LEMMA SameLength ==
  ASSUME NEW S, NEW T, NEW s \in Seq(S), NEW t \in Seq(T), DOMAIN s = DOMAIN t PROVE Len(s) = Len(t)
<1>1. Len(s) \in Nat /\ Len(t) \in Nat /\ 1 .. Len(s) = 1 .. Len(t)
  OBVIOUS
<1> PICK m \in Nat, n \in Nat : m = Len(s) /\ n = Len(t)
  BY <1>1
<1>2. m \in 1 .. m => m \in 1 .. n
  BY <1>1
<1>3. n \in 1 .. n => n \in 1 .. m
  BY <1>1
<1> QED BY <1>2, <1>3

LEMMA TwoElements ==
  ASSUME NEW S, NEW c \in S, NEW d \in S, c # d, NEW s, s = <<c, d>>
  PROVE  s \in Seq(S) /\ Len(s) = 2 /\ \A i, j \in DOMAIN s : s[i] = s[j] => i = j
OBVIOUS

\* Words behind a raw one.
LEMMA Prefixed ==
  ASSUME NEW R, R \subseteq Nat, NEW s \in Seq(R), NEW w \in Nat, NEW c, c = <<w>> \o s
  PROVE  c \in Seq(Nat) /\ Len(c) = 1 + Len(s) /\ \A i \in 2 .. Len(c) : c[i] \in R
<1>1. s \in Seq(Nat) /\ Len(s) \in Nat /\ \A i \in 1 .. Len(s) : s[i] \in R
  <2>1. s \in Seq(Nat)
    BY SeqGrows
  <2> QED BY <2>1
<1>2. <<w>> \in Seq(Nat) /\ Len(<<w>>) = 1
  OBVIOUS
<1>3. c \in Seq(Nat) /\ Len(c) = 1 + Len(s)
  BY <1>1, <1>2
<1>4. ASSUME NEW i \in 2 .. Len(c) PROVE c[i] \in R
  <2>1. i - 1 \in 1 .. Len(s) /\ i \in 1 .. 1 + Len(s) /\ i > 1
    BY <1>1, <1>3
  <2>2. c[i] = s[i - 1]
    BY <1>1, <1>2, <2>1
  <2> QED BY <1>1, <2>1, <2>2
<1> QED BY <1>3, <1>4

LEMMA Overwritten ==
  ASSUME NEW s \in Seq(Nat), NEW F, NEW R, R \subseteq Nat,
         NEW w, DOMAIN w = 1 .. Len(s), w = [i \in DOMAIN w |-> w[i]],
         \A i \in F : w[i] \in R, \A i \in 1 .. Len(s) : i \in F \/ w[i] = s[i]
  PROVE  w \in Seq(Nat) /\ Len(w) = Len(s)
<1>1. Len(s) \in Nat /\ \A i \in 1 .. Len(s) : s[i] \in Nat
  OBVIOUS
<1>2. w = [i \in 1 .. Len(s) |-> w[i]]
  BY <1>1
<1>3. ASSUME NEW i \in 1 .. Len(s) PROVE w[i] \in Nat
  BY <1>1
<1> QED BY <1>1, <1>2, <1>3, FunctionIsSeq

\* The words of an object are overwritten.
LEMMA WordsOnly ==
  ASSUME objects(mem), NEW x \in DOMAIN mem, NEW w \in Seq(Nat), Len(w) = Len(mem[x].words),
         mem' = [mem EXCEPT ![x].words = w]
  PROVE  /\ DOMAIN mem' = DOMAIN mem /\ objects(mem') /\ mem'[x].words = w
         /\ \A a \in DOMAIN mem : a # x => mem'[a] = mem[a]
         /\ \A a \in DOMAIN mem : /\ mem'[a].marked = mem[a].marked
                                  /\ mem'[a].enqueued = mem[a].enqueued
                                  /\ mem'[a].forward = mem[a].forward
                                  /\ mem'[a].type = mem[a].type /\ mem'[a].len = mem[a].len
                                  /\ fields(mem'[a]) = fields(mem[a])
                                  /\ Len(mem'[a].words) = Len(mem[a].words)
<1>1. /\ DOMAIN mem' = DOMAIN mem /\ \A a \in DOMAIN mem : a # x => mem'[a] = mem[a]
      /\ mem'[x] = [mem[x] EXCEPT !.words = w]
  OBVIOUS
<1>2. mem[x] \in Object
  BY DEF objects
<1>3. /\ mem'[x] \in Object /\ mem'[x].words = w
      /\ mem'[x].marked = mem[x].marked /\ mem'[x].enqueued = mem[x].enqueued
      /\ mem'[x].forward = mem[x].forward
      /\ mem'[x].type = mem[x].type /\ mem'[x].len = mem[x].len
  BY <1>1, <1>2 DEF Object, Word
<1>4. \A a \in DOMAIN mem : fields(mem'[a]) = fields(mem[a])
  BY <1>1, <1>3 DEF fields
<1> QED BY <1>1, <1>3, <1>4 DEF objects

\* The types stay when words are overwritten by as many words.
LEMMA TypedWords ==
  ASSUME Typed, heap' = heap, same_roots, gc' \in GcLocals, gc_idle' \/ marking' \/ compacting',
         DOMAIN mem' = DOMAIN mem, objects(mem'), Enqueued' = {},
         \A a \in DOMAIN mem : /\ mem'[a].type = mem[a].type /\ mem'[a].len = mem[a].len
                               /\ Len(mem'[a].words) = Len(mem[a].words)
  PROVE  Typed'
<1>1. ClientTypeOK'
  <2>1. ClientTypeOK
    BY DEF Typed
  <2> QED BY <2>1 DEF ClientTypeOK, same_roots, Cell, GcLocals, objects
<1> QED BY <1>1 DEF Typed, same_roots

LEMMA UpdateObjectSound ==
  ASSUME Structure, Soundness, update_object, cur_id' = cur_id PROVE Soundness'
<1> PICK it : it = gc.it OBVIOUS
<1> DEFINE w == [i \in DOMAIN mem[it].words |-> IF i \in fields(mem[it])
                                                THEN new_reference(mem[it].words[i])
                                                ELSE mem[it].words[i]]
<1>1. /\ pc = "update_references" /\ pc' = "update_references" /\ heap' = heap
      /\ same_roots /\ compacting' /\ updating /\ it < heap.current
      /\ gc' = [gc EXCEPT !.it = next_obj(it)]
  BY DEF update_object, same_roots, compacting, updating
<1>2. /\ Places /\ objects(mem) /\ gc \in GcLocals /\ Typed /\ tiled_from(heap.begin)
      /\ Moved /\ UpdatingObjects /\ to_move = Marked
  BY <1>1, UpdatingFacts
<1>3. /\ it \in DOMAIN mem /\ it \in Nat /\ next_obj(it) \in Nat
      /\ boundary(next_obj(it)) /\ \A c \in DOMAIN mem : c \in Nat /\ (c < next_obj(it) <=> c <= it)
  <2>1. it \in DOMAIN mem
    BY <1>1, <1>2 DEF UpdatingObjects, boundary, Places
  <2> QED BY <1>2, <2>1, Boundaries DEF Places
<1>4. /\ stack \in Seq(old_references) /\ statics \in Seq(old_references)
      /\ cells_in(DOMAIN extra, old_references)
      /\ fields_in({a \in Marked : a >= it}, old_references)
      /\ fields_in({a \in Marked : a < it}, new_references)
  BY <1>1, <1>2 DEF UpdatingObjects, Moved
<1>5. /\ gc' \in GcLocals /\ gc'.it = next_obj(it) /\ gc'.old = gc.old /\ gc'.live = gc.live
  BY ONLY <1>1, <1>2, <1>3 DEF GcLocals
<1>6. ASSUME mem[it].marked
      PROVE  /\ w \in Seq(Nat) /\ Len(w) = Len(mem[it].words)
             /\ \A i \in fields(mem[it]) : w[i] \in new_references
  <2>1. /\ mem[it].words \in Seq(Nat) /\ Len(mem[it].words) \in Nat
        /\ DOMAIN mem[it].words = 1 .. Len(mem[it].words)
        /\ fields(mem[it]) \subseteq 1 .. Len(mem[it].words)
    BY <1>2, <1>3, FieldsAreWords DEF objects
  <2>2. ASSUME NEW i \in fields(mem[it]) PROVE new_reference(mem[it].words[i]) \in new_references
    <3>1. mem[it].words[i] \in old_references
      BY <1>3, <1>4, <1>6 DEF fields_in, Marked
    <3> QED BY <1>1, <3>1, NewReference
  <2>3. new_references \subseteq Nat
    BY DEF new_references, references
  <2> PICK s : s = mem[it].words OBVIOUS
  <2> PICK F : F = fields(mem[it]) OBVIOUS
  <2> PICK R : R = new_references OBVIOUS
  <2> PICK u : u = w OBVIOUS
  <2>4. DOMAIN u = DOMAIN s /\ u = [i \in DOMAIN u |-> u[i]]
    OBVIOUS
  <2>5. s \in Seq(Nat) /\ DOMAIN s = 1 .. Len(s) /\ F \subseteq DOMAIN s
    BY <2>1
  <2>6. ASSUME NEW i \in F PROVE u[i] \in R
    <3>1. u[i] = new_reference(s[i])
      BY <2>5
    <3> QED BY <2>2, <3>1
  <2>7. \A i \in DOMAIN s : i \in F \/ u[i] = s[i]
    OBVIOUS
  <2>8. u \in Seq(Nat) /\ Len(u) = Len(s)
    BY ONLY <2>3, <2>4, <2>5, <2>6, <2>7, R = new_references, Overwritten
  <2> QED BY <2>6, <2>8
<1>7. mem' = IF mem[it].marked THEN [mem EXCEPT ![it].words = w] ELSE mem
  BY DEF update_object
<1> HIDE DEF w
<1>8. /\ DOMAIN mem' = DOMAIN mem /\ objects(mem')
      /\ \A a \in DOMAIN mem : a # it \/ ~mem[it].marked => mem'[a] = mem[a]
      /\ \A a \in DOMAIN mem : /\ mem'[a].marked = mem[a].marked
                               /\ mem'[a].enqueued = mem[a].enqueued
                               /\ mem'[a].forward = mem[a].forward
                               /\ mem'[a].type = mem[a].type /\ mem'[a].len = mem[a].len
                               /\ fields(mem'[a]) = fields(mem[a])
                               /\ Len(mem'[a].words) = Len(mem[a].words)
      /\ mem[it].marked => \A i \in fields(mem[it]) : mem'[it].words[i] \in new_references
  <2>1. CASE mem[it].marked
    <3>1. w \in Seq(Nat) /\ Len(w) = Len(mem[it].words) /\ mem' = [mem EXCEPT ![it].words = w]
      BY <1>6, <1>7, <2>1
    <3>2. /\ DOMAIN mem' = DOMAIN mem /\ objects(mem') /\ mem'[it].words = w
          /\ \A a \in DOMAIN mem : a # it => mem'[a] = mem[a]
          /\ \A a \in DOMAIN mem : /\ mem'[a].marked = mem[a].marked
                                   /\ mem'[a].enqueued = mem[a].enqueued
                                   /\ mem'[a].forward = mem[a].forward
                                   /\ mem'[a].type = mem[a].type /\ mem'[a].len = mem[a].len
                                   /\ fields(mem'[a]) = fields(mem[a])
                                   /\ Len(mem'[a].words) = Len(mem[a].words)
      BY <1>2, <1>3, <3>1, WordsOnly
    <3> QED BY <1>6, <2>1, <3>2
  <2>2. CASE ~mem[it].marked
    BY <1>2, <1>7, <2>2 DEF objects
  <2> QED BY <2>1, <2>2
<1>9. Marked' = Marked /\ Enqueued' = {}
  BY <1>1, <1>2, <1>8 DEF Marked, Enqueued, Typed
<1>10. old_references' = old_references /\ new_references' = new_references
  <2>1. old_places' = old_places
    BY <1>1, <1>5, <1>9 DEF old_places
  <2>2. to_move' = Marked
    BY <1>1, <1>9 DEF to_move, Marked
  <2>3. \A a \in Marked : moved_to(a)' = moved_to(a)
    BY <1>1, <1>5, <1>8 DEF moved_to, forwarded, after_mremap, Marked
  <2>4. destinations' = destinations
    BY <1>2, <2>2, <2>3 DEF destinations
  <2> QED BY <2>1, <2>4 DEF old_references, new_references
<1>11. Typed'
  BY <1>1, <1>2, <1>5, <1>8, <1>9, TypedWords
<1>12. Moved'
  BY <1>1, <1>2, <1>5, <1>10 DEF Moved, same_roots
<1>13. UpdatingObjects'
  <2>1. boundary(gc.it)'
    BY <1>1, <1>3, <1>5, <1>8 DEF boundary
  <2>2. stack' \in Seq(old_references') /\ cells_in(DOMAIN extra, old_references)'
    BY <1>1, <1>4, <1>10 DEF cells_in, cell_word, same_roots
  <2>3. ASSUME NEW a \in Marked', a >= gc'.it
        PROVE  \A i \in fields(mem[a])' : mem'[a].words[i] \in old_references'
    <3>1. a \in DOMAIN mem /\ a # it /\ a >= it /\ a \in Marked
      BY <1>3, <1>5, <1>9, <2>3 DEF Marked
    <3> QED BY <1>4, <1>8, <1>10, <3>1 DEF fields_in
  <2>4. ASSUME NEW a \in Marked', a < gc'.it
        PROVE  \A i \in fields(mem[a])' : mem'[a].words[i] \in new_references'
    <3>1. a \in DOMAIN mem /\ a <= it /\ a \in Marked /\ a \in Nat
      BY <1>3, <1>5, <1>9, <2>4 DEF Marked
    <3>2. CASE a = it
      BY <1>8, <1>10, <3>1, <3>2 DEF Marked
    <3>3. CASE a # it
      <4>1. a < it
        BY <1>3, <3>1, <3>3
      <4> QED BY <1>4, <1>8, <1>10, <3>1, <3>3, <4>1 DEF fields_in
    <3> QED BY <3>2, <3>3
  <2> QED BY <2>1, <2>2, <2>3, <2>4 DEF UpdatingObjects, fields_in
<1>14. /\ Clean' /\ MarkingRoots' /\ Queue' /\ Traced' /\ Closed' /\ FixingRoots' /\ Relocated'
  BY <1>1 DEF Clean, MarkingRoots, Queue, Traced, Closed, FixingRoots, Relocated, gc_idle, marking
<1> QED BY <1>11, <1>12, <1>13, <1>14 DEF Soundness

\* Where the objects lie and will lie does not depend on their words.
LEMMA DestinationsStay ==
  ASSUME updating, updating', heap' = heap, gc'.old = gc.old, mem' = mem
  PROVE  /\ Marked' = Marked /\ to_move' = to_move
         /\ old_references' = old_references /\ new_references' = new_references
<1>1. Marked' = Marked /\ to_move' = to_move
  BY DEF Marked, to_move, updating
<1>2. ASSUME NEW a PROVE moved_to(a)' = moved_to(a)
  <2>1. moved_to(a) = forwarded(mem[a]) /\ moved_to(a)' = forwarded(mem[a])'
    BY DEF moved_to, updating
  <2>2. forwarded(mem[a])' = forwarded(mem[a])
    BY DEF forwarded, after_mremap
  <2> QED BY <2>1, <2>2
<1>3. old_places' = old_places /\ destinations' = destinations
  BY <1>1, <1>2 DEF old_places, destinations
<1> QED BY <1>1, <1>3 DEF old_references, new_references

\* scan_and_fix_region rewrites as many words.
LEMMA FixedRegion ==
  ASSUME Structure, Soundness, updating, NEW s \in Seq(old_references),
         NEW t, t = [i \in DOMAIN s |-> new_reference(s[i])]
  PROVE  t \in Seq(new_references) /\ t \in Seq(Nat) /\ DOMAIN t = DOMAIN s
<1>1. Len(s) \in Nat /\ DOMAIN s = 1 .. Len(s) /\ \A i \in DOMAIN s : s[i] \in old_references
  OBVIOUS
<1>2. /\ DOMAIN t = 1 .. Len(s) /\ t = [i \in 1 .. Len(s) |-> t[i]]
      /\ \A i \in 1 .. Len(s) : t[i] \in new_references
  BY <1>1, NewReference
<1>3. t \in Seq(new_references)
  BY <1>1, <1>2, FunctionIsSeq
<1>4. new_references \subseteq Nat
  BY DEF new_references, references
<1> QED BY <1>1, <1>2, <1>3, <1>4, SeqGrows

LEMMA FixStackSound ==
  ASSUME Structure, Soundness, fix_stack, cur_id' = cur_id PROVE Soundness'
<1>1. /\ pc = "update_references" /\ pc' = "fix_extra_roots" /\ heap' = heap /\ mem' = mem
      /\ statics' = statics /\ locals' = locals /\ extra' = extra /\ req' = req
      /\ stack' = [i \in DOMAIN stack |-> new_reference(stack[i])]
      /\ compacting' /\ updating /\ updating' /\ gc.it >= heap.current
      /\ gc' = [gc EXCEPT !.idx = 1]
  BY DEF fix_stack, compacting, updating
<1>2. /\ Places /\ objects(mem) /\ gc \in GcLocals /\ Typed /\ extra \in Seq(Cell)
      /\ Moved /\ UpdatingObjects
  BY <1>1, UpdatingFacts
<1>3. gc' \in GcLocals /\ gc'.idx = 1 /\ gc'.old = gc.old
  BY ONLY <1>1, <1>2 DEF GcLocals
<1>4. /\ Marked' = Marked /\ to_move' = to_move
      /\ old_references' = old_references /\ new_references' = new_references
  BY <1>1, <1>3, DestinationsStay
<1>5. stack' \in Seq(new_references) /\ stack' \in Seq(Nat) /\ DOMAIN stack' = DOMAIN stack
  BY <1>1, <1>2, FixedRegion DEF UpdatingObjects
<1>6. Typed'
  <2>1. ClientTypeOK'
    <3>1. ClientTypeOK /\ Cell' = Cell
      BY <1>1, <1>2, <1>5 DEF Typed, Cell
    <3> QED BY <1>1, <1>3, <1>5, <3>1 DEF ClientTypeOK, GcLocals, Word
  <2>2. Enqueued' = {}
    BY <1>1, <1>2 DEF Enqueued, Typed
  <2> QED BY <1>1, <1>2, <2>1, <2>2 DEF Typed
<1>7. Moved'
  BY <1>1, <1>2, <1>3, <1>4 DEF Moved
<1>8. FixingRoots'
  <2>1. fields_in(Marked, new_references)'
    <3>1. ASSUME NEW a \in Marked PROVE a < gc.it
      BY SMTT(20), <1>1, <1>2 DEF Marked, Places, GcLocals
    <3>2. fields_in(Marked, new_references)
      BY <1>1, <1>2, <3>1 DEF UpdatingObjects, fields_in
    <3> QED BY <1>1, <1>4, <3>2 DEF fields_in
  <2>2. ASSUME NEW i \in DOMAIN extra, extra[i][1] = "local"
        PROVE  cell_word(extra[i])' \in old_references'
    <3>1. cell_word(extra[i]) \in old_references
      BY <1>1, <1>2 DEF UpdatingObjects, cells_in
    <3> QED BY <1>1, <1>4, <2>2, <3>1 DEF cell_word
  <2>3. cells_in({i \in DOMAIN extra : i >= gc.idx /\ extra[i][1] = "local"}, old_references)'
    BY <1>1, <2>2 DEF cells_in
  <2>4. cells_in({i \in DOMAIN extra : i < gc.idx}, new_references)'
    BY <1>1, <1>2, <1>3 DEF cells_in
  <2> QED BY <1>1, <1>3, <1>4, <1>5, <2>1, <2>3, <2>4 DEF FixingRoots
<1>9. /\ Clean' /\ MarkingRoots' /\ Queue' /\ Traced' /\ Closed' /\ UpdatingObjects' /\ Relocated'
  BY <1>1 DEF Clean, MarkingRoots, Queue, Traced, Closed, UpdatingObjects, Relocated, gc_idle, marking
<1> QED BY <1>6, <1>7, <1>8, <1>9 DEF Soundness

\* A registered cell of the stack is skipped, a registered local is fixed once.
LEMMA FixExtraRootSound ==
  ASSUME Structure, Soundness, fix_extra_root, cur_id' = cur_id PROVE Soundness'
<1> PICK k : k = gc.idx OBVIOUS
<1> PICK c : c = extra[k] OBVIOUS
<1>1. /\ pc = "fix_extra_roots" /\ pc' = "fix_extra_roots" /\ heap' = heap /\ mem' = mem
      /\ statics' = statics /\ extra' = extra /\ req' = req
      /\ compacting' /\ updating /\ updating' /\ k <= Len(extra)
      /\ gc' = [gc EXCEPT !.idx = k + 1]
  BY DEF fix_extra_root, compacting, updating
<1>2. /\ Places /\ objects(mem) /\ gc \in GcLocals /\ Typed /\ extra \in Seq(Cell)
      /\ Moved /\ FixingRoots
  BY <1>1, UpdatingFacts
<1>3. k \in DOMAIN extra /\ k \in Nat /\ c \in Cell
  <2>1. k \in Nat /\ k >= 1
    BY <1>1, <1>2 DEF FixingRoots, GcLocals
  <2> QED BY <1>1, <1>2, <2>1
<1>4. gc' \in GcLocals /\ gc'.idx = k + 1 /\ gc'.old = gc.old
  <2> PICK n \in Nat : n = k + 1
    BY <1>3
  <2>1. gc' = [gc EXCEPT !.idx = n] /\ gc \in GcLocals
    BY <1>1, <1>2
  <2>2. gc' \in GcLocals /\ gc'.idx = n /\ gc'.old = gc.old
    BY ONLY <2>1, n \in Nat DEF GcLocals
  <2> QED BY <2>2
<1>5. /\ Marked' = Marked /\ to_move' = to_move
      /\ old_references' = old_references /\ new_references' = new_references
  BY <1>1, <1>4, DestinationsStay
<1>6. /\ stack \in Seq(new_references) /\ stack \in Seq(Nat)
      /\ locals \in [DOMAIN locals -> Nat]
      /\ fields_in(Marked, new_references)
      /\ \A i \in DOMAIN extra : i < k => cell_word(extra[i]) \in new_references
      /\ \A i \in DOMAIN extra : i >= k /\ extra[i][1] = "local" => cell_word(extra[i]) \in old_references
      /\ \A i, j \in DOMAIN extra : extra[i] = extra[j] => i = j
  BY <1>1, <1>2 DEF FixingRoots, cells_in, Typed, ClientTypeOK, Word
<1>7. new_references \subseteq Nat
  BY DEF new_references, references
<1>8. /\ stack' = stack /\ locals' \in [DOMAIN locals -> Nat]
      /\ cell_word(c)' \in new_references
      /\ \A d \in Cell : d # c /\ d[1] = "local" => locals'[d[2]] = locals[d[2]]
  <2>1. CASE c[1] = "stack"
    <3>1. stack' = [stack EXCEPT ![c[2]] = stack[c[2]]] /\ locals' = locals
      BY <2>1 DEF fix_extra_root, skipped, cell_word
    <3>2. c[2] \in DOMAIN stack
      BY <1>3, <2>1 DEF Cell
    <3>3. stack' = stack
      BY <1>6, <3>1, <3>2
    <3>4. stack[c[2]] \in new_references
      BY <1>6, <3>2
    <3> QED BY <1>6, <2>1, <3>1, <3>3, <3>4 DEF cell_word
  <2>2. CASE c[1] # "stack"
    <3>1. stack' = stack /\ locals' = [locals EXCEPT ![c[2]] = new_reference(locals[c[2]])]
      BY <2>2 DEF fix_extra_root, skipped, cell_word
    <3>2. c[1] = "local" /\ c[2] \in DOMAIN locals /\ c = <<"local", c[2]>>
      BY <1>3, <2>2 DEF Cell
    <3>3. locals[c[2]] \in old_references
      BY <1>3, <1>6, <2>2, <3>2 DEF cell_word
    <3>4. new_reference(locals[c[2]]) \in new_references
      BY <1>1, <3>3, NewReference
    <3>5. locals' \in [DOMAIN locals -> Nat] /\ locals'[c[2]] \in new_references
      BY <1>6, <1>7, <3>1, <3>2, <3>4
    <3>6. cell_word(c)' \in new_references
      BY <2>2, <3>1, <3>5, <1>5 DEF cell_word
    <3>7. ASSUME NEW d \in Cell, d # c, d[1] = "local" PROVE locals'[d[2]] = locals[d[2]]
      <4>1. d = <<"local", d[2]>> /\ d[2] \in DOMAIN locals
        BY <3>7 DEF Cell
      <4>2. d[2] # c[2]
        BY <3>2, <3>7, <4>1
      <4> QED BY <1>6, <3>1, <4>1, <4>2
    <3> QED BY <3>1, <3>5, <3>6, <3>7
  <2> QED BY <2>1, <2>2
<1>9. Typed'
  <2>1. ClientTypeOK'
    <3>1. ClientTypeOK /\ Cell' = Cell /\ DOMAIN locals' = DOMAIN locals
      BY <1>1, <1>2, <1>8 DEF Typed, Cell
    <3> QED BY <1>1, <1>4, <1>8, <3>1 DEF ClientTypeOK, GcLocals, Word
  <2>2. Enqueued' = {}
    BY <1>1, <1>2 DEF Enqueued, Typed
  <2> QED BY <1>1, <1>2, <2>1, <2>2 DEF Typed
<1>10. Moved'
  BY <1>1, <1>2, <1>4, <1>5 DEF Moved
<1>11. FixingRoots'
  <2>1. ASSUME NEW i \in DOMAIN extra, i < k + 1 PROVE cell_word(extra[i])' \in new_references
    <3>1. CASE i = k
      BY <1>1, <1>8, <3>1 DEF cell_word
    <3>2. CASE i # k
      <4>1. i < k /\ extra[i] \in Cell /\ extra[i] # c /\ cell_word(extra[i]) \in new_references
        BY <1>2, <1>3, <1>6, <2>1, <3>2
      <4>2. CASE extra[i][1] = "stack"
        BY <1>1, <1>8, <4>1, <4>2 DEF cell_word
      <4>3. CASE extra[i][1] = "local"
        BY <1>1, <1>8, <4>1, <4>3 DEF cell_word
      <4>4. extra[i][1] \in {"stack", "local"}
        BY <4>1 DEF Cell
      <4> QED BY <4>2, <4>3, <4>4
    <3> QED BY <3>1, <3>2
  <2>2. ASSUME NEW i \in DOMAIN extra, i >= k + 1, extra[i][1] = "local"
        PROVE  cell_word(extra[i])' \in old_references
    <3>1. i > k /\ i >= k /\ extra[i] \in Cell
      BY <1>2, <1>3, <2>2
    <3>2. extra[i] # c
      BY <1>3, <1>6, <3>1
    <3>3. cell_word(extra[i]) \in old_references
      BY <1>6, <2>2, <3>1
    <3> QED BY <1>1, <1>8, <2>2, <3>1, <3>2, <3>3 DEF cell_word
  <2>3. fields_in(Marked, new_references)'
    BY <1>1, <1>5, <1>6 DEF fields_in
  <2>4. cells_in({i \in DOMAIN extra : i < gc.idx}, new_references)'
    BY <1>1, <1>4, <1>5, <2>1 DEF cells_in
  <2>5. cells_in({i \in DOMAIN extra : i >= gc.idx /\ extra[i][1] = "local"}, old_references)'
    BY <1>1, <1>4, <1>5, <2>2 DEF cells_in
  <2>6. gc'.idx >= 1
    BY <1>3, <1>4
  <2> QED BY <1>1, <1>5, <1>6, <1>8, <2>3, <2>4, <2>5, <2>6 DEF FixingRoots
<1>12. /\ Clean' /\ MarkingRoots' /\ Queue' /\ Traced' /\ Closed' /\ UpdatingObjects' /\ Relocated'
  BY <1>1 DEF Clean, MarkingRoots, Queue, Traced, Closed, UpdatingObjects, Relocated, gc_idle, marking
<1> QED BY <1>9, <1>10, <1>11, <1>12 DEF Soundness

\* The last words fixed are those of the static area; nothing has moved yet.
LEMMA FixStaticsSound ==
  ASSUME Structure, Soundness, fix_statics, cur_id' = cur_id PROVE Soundness'
<1>1. /\ pc = "fix_extra_roots" /\ pc' = "physically_relocate" /\ heap' = heap /\ mem' = mem
      /\ stack' = stack /\ locals' = locals /\ extra' = extra /\ req' = req
      /\ statics' = [i \in DOMAIN statics |-> new_reference(statics[i])]
      /\ compacting' /\ updating /\ gc.idx > Len(extra)
      /\ gc' = [gc EXCEPT !.idx = 0, !.it = heap.begin]
  BY DEF fix_statics, compacting, updating
<1>2. /\ Places /\ objects(mem) /\ gc \in GcLocals /\ Typed /\ extra \in Seq(Cell)
      /\ Moved /\ FixingRoots /\ to_move = Marked
  BY <1>1, UpdatingFacts
<1>3. /\ gc' \in GcLocals /\ gc'.it = heap.begin /\ gc'.live = gc.live /\ gc'.old = gc.old
  <2>1. heap.begin \in Nat
    BY <1>2 DEF Places
  <2> QED BY ONLY <1>1, <1>2, <2>1 DEF GcLocals
<1>4. Marked' = Marked /\ to_move' = Marked
  BY <1>1, <1>2, <1>3 DEF Marked, to_move, Places
<1>5. ASSUME NEW a PROVE moved_to(a)' = moved_to(a)
  <2>1. moved_to(a) = forwarded(mem[a]) /\ moved_to(a)' = forwarded(mem[a])'
    BY <1>1 DEF moved_to
  <2>2. forwarded(mem[a])' = forwarded(mem[a])
    BY <1>1, <1>3 DEF forwarded, after_mremap
  <2> QED BY <2>1, <2>2
<1>6. destinations' = destinations
  BY <1>2, <1>4, <1>5 DEF destinations
<1>7. landed' = {}
  <2>1. chain(to_move, heap.begin, heap.begin + gc.live)
    BY <1>1 DEF Structure, Updating
  <2>2. heap.begin = heap.begin + gc.live \/ \E b \in to_move : moved_to(b) = heap.begin
    BY <2>1 DEF chain
  <2>3. ASSUME NEW a \in DOMAIN mem PROVE heap.begin <= a /\ a \in Nat /\ heap.begin \in Nat
    BY <1>2 DEF Places
  <2>4. landed' = {a \in DOMAIN mem : /\ a < heap.begin + gc.live
                                      /\ \A b \in Marked : a < moved_to(b)}
    BY <1>1, <1>3, <1>4, <1>5 DEF landed
  <2> QED BY <1>2, <2>2, <2>3, <2>4
<1>8. statics' \in Seq(new_references) /\ statics' \in Seq(Nat) /\ DOMAIN statics' = DOMAIN statics
  BY <1>1, <1>2, FixedRegion DEF Moved
<1>9. Typed'
  <2>1. ClientTypeOK'
    <3>1. ClientTypeOK /\ Cell' = Cell
      BY <1>1, <1>2 DEF Typed, Cell
    <3> QED BY <1>1, <1>3, <1>8, <3>1 DEF ClientTypeOK, GcLocals, Word
  <2>2. Enqueued' = {}
    BY <1>1, <1>2 DEF Enqueued, Typed
  <2> QED BY <1>1, <1>2, <2>1, <2>2 DEF Typed
<1>10. Relocated'
  <2>1. landed' \cup destinations' = destinations /\ landed' \cup to_move' = Marked
    BY <1>4, <1>6, <1>7
  <2>2. references(landed \cup destinations)' = new_references
    BY <2>1 DEF new_references, references, outside
  <2>3. ASSUME NEW i \in DOMAIN extra PROVE cell_word(extra[i])' \in new_references
    <3>1. i < gc.idx
      BY <1>1, <1>2 DEF GcLocals
    <3>2. cell_word(extra[i]) \in new_references
      BY <1>1, <1>2, <3>1 DEF FixingRoots, cells_in
    <3> QED BY <1>1, <3>2 DEF cell_word
  <2>4. roots_in(references(landed \cup destinations))'
    BY <1>1, <1>2, <1>8, <2>2, <2>3 DEF roots_in, cells_in, FixingRoots
  <2>5. fields_in(Marked, new_references)
    BY <1>1, <1>2 DEF FixingRoots
  <2>6. fields_in(landed \cup to_move, references(landed \cup destinations))'
    BY <1>1, <2>1, <2>2, <2>5 DEF fields_in
  <2> QED BY <1>7, <2>4, <2>6 DEF Relocated
<1>11. /\ Clean' /\ MarkingRoots' /\ Queue' /\ Traced' /\ Closed' /\ Moved'
       /\ UpdatingObjects' /\ FixingRoots'
  BY <1>1 DEF Clean, MarkingRoots, Queue, Traced, Closed, Moved, UpdatingObjects,
     FixingRoots, gc_idle, marking
<1> QED BY <1>9, <1>10, <1>11 DEF Soundness

-------------------------------------------------------------------------------
(* physically_relocate *)

LEMMA Relocatee ==
  ASSUME NEW o \in Object, NEW q, q = relocated(o)
  PROVE  /\ q \in Object /\ q.type = o.type /\ q.len = o.len /\ q.words = o.words
         /\ ~q.marked /\ q.enqueued = o.enqueued
BY DEF Object, relocated

\* Moving an object makes it land where its references are.
LEMMA RelocateObjectSound ==
  ASSUME Structure, Soundness, relocate_object, cur_id' = cur_id PROVE Soundness'
<1> PICK it : it = gc.it OBVIOUS
<1> PICK T : T = landed \cup destinations OBVIOUS
<1>1. /\ pc = "physically_relocate" /\ pc' = "physically_relocate" /\ heap' = heap
      /\ same_roots /\ compacting' /\ it < heap.current
      /\ gc' = [gc EXCEPT !.it = next_obj(it)]
  BY DEF relocate_object, same_roots, compacting
<1>2. /\ Places /\ objects(mem) /\ gc \in GcLocals /\ Typed /\ Relocating
      /\ roots_in(references(T)) /\ fields_in(landed \cup to_move, references(T))
      /\ landed \cap Marked = {}
  BY <1>1, PlacesOf DEF Soundness, Structure, Typed, ClientTypeOK, objects, GcLocals, Relocated
<1>3. it \in DOMAIN mem /\ next_obj(it) \in Nat
      /\ \A c \in DOMAIN mem : c \in Nat /\ (c > it => next_obj(it) <= c)
  BY <1>1, <1>2 DEF Relocating, tiled_from, Places
<1>4. gc' \in GcLocals /\ gc'.it = next_obj(it) /\ gc'.old = gc.old /\ gc'.live = gc.live
  BY ONLY <1>1, <1>2, <1>3 DEF GcLocals
<1>5. roots_in(references(T))'
  BY <1>1, <1>2 DEF roots_in, cells_in, cell_word, same_roots, references, outside
<1>6. /\ DOMAIN mem' \subseteq Nat /\ objects(mem')
      /\ \A a \in DOMAIN mem' : mem'[a].type = "STRING" => Len(mem'[a].words) = mem'[a].len
      /\ Enqueued' = {}
      /\ landed' \cup destinations' = T
      /\ fields_in(landed \cup to_move, references(T))'
      /\ landed' \cap Marked' = {}
  <2>1. CASE ~mem[it].marked
    <3>1. mem' = mem
      BY <2>1 DEF relocate_object
    <3>2. to_move' = to_move
      BY <1>1, <1>2, <1>3, <1>4, <2>1, <3>1 DEF to_move, Places
    <3>3. ASSUME NEW a PROVE moved_to(a)' = moved_to(a)
      BY <1>1, <1>4, <3>1 DEF moved_to, forwarded, after_mremap
    <3>4. landed' = landed /\ destinations' = destinations
      BY <1>1, <1>4, <3>1, <3>2, <3>3 DEF landed, destinations
    <3>5. Marked' = Marked /\ Enqueued' = {}
      BY <1>1, <1>2, <3>1 DEF Marked, Enqueued, Typed
    <3>6. fields_in(landed \cup to_move, references(T))'
      BY <1>2, <3>1, <3>2, <3>4 DEF fields_in, references, outside
    <3> QED BY <1>2, <3>1, <3>4, <3>5, <3>6 DEF Places, Typed
  <2>2. CASE mem[it].marked
    <3> PICK f, g : slides(it, f, g)
      BY <2>2, RelocateMoves
    <3> PICK q : q = relocated(mem[it]) OBVIOUS
    <3> PICK top : top = heap.begin + gc.live OBVIOUS
    <3>1. /\ f \in Int /\ g \in Int /\ heap.begin <= f /\ f <= it /\ f < g /\ g <= top
          /\ moved_to(it) = f /\ it \in to_move /\ mem'[f] = q
          /\ DOMAIN mem' = {a \in DOMAIN mem : next_obj(a) <= f \/ a >= g} \cup {f}
          /\ \A a \in DOMAIN mem : next_obj(a) <= f \/ a >= g => a # f /\ mem'[a] = mem[a]
          /\ to_move' = to_move \ {it}
      BY DEF slides
    <3>2. \A a \in to_move \ {it} : a \in DOMAIN mem /\ a >= g /\ moved_to(a)' = moved_to(a)
      BY DEF slides
    <3>3. /\ \A a \in to_move \ {it} : moved_to(a) \in Int /\ g <= moved_to(a)
          /\ g = top \/ \E a \in to_move \ {it} : moved_to(a) = g
      BY DEF slides, chain
    <3>4. \A b \in DOMAIN mem : b \in Nat /\ (b < f => next_obj(b) <= f) /\ b + 8 <= next_obj(b)
                                /\ next_obj(b) \in Nat
      BY <1>2, <3>1 DEF slides, filled_up_to, Places
    <3>5. /\ q \in Object /\ q.type = mem[it].type /\ q.len = mem[it].len
          /\ q.words = mem[it].words /\ ~q.marked /\ q.enqueued = mem[it].enqueued
      BY <1>2, <1>3, Relocatee DEF objects
    <3>6. top \in Int /\ heap.begin \in Nat
      BY <1>2 DEF GcLocals, Places
    <3>7. landed = {a \in DOMAIN mem : a < f}
      BY <3>1, <3>3, <3>4, <3>6 DEF landed
    <3>8. landed' = {a \in DOMAIN mem' : a < g}
      <4>1. landed' = {a \in DOMAIN mem' : /\ a < top
                                           /\ \A b \in to_move \ {it} : a < moved_to(b)}
        BY <1>1, <1>4, <3>1, <3>2 DEF landed
      <4>2. \A a \in DOMAIN mem' : a \in Int
        BY <3>1, <3>4
      <4>3. ASSUME NEW a \in DOMAIN mem' PROVE (a < top /\ \A b \in to_move \ {it} : a < moved_to(b)) <=> a < g
        BY <3>1, <3>3, <3>6, <4>2
      <4> QED BY <4>1, <4>3
    <3>9. landed' = landed \cup {f}
      BY <3>1, <3>4, <3>7, <3>8
    <3>10. destinations = destinations' \cup {f}
      BY <3>1, <3>2 DEF destinations
    <3>11. landed' \cup destinations' = T
      BY <3>9, <3>10
    <3>12. /\ DOMAIN mem' \subseteq Nat /\ objects(mem') /\ Enqueued' = {}
           /\ \A a \in DOMAIN mem' : mem'[a].type = "STRING" => Len(mem'[a].words) = mem'[a].len
      <4>1. f \in Nat
        BY <3>1, <3>6
      <4>2. ASSUME NEW a \in DOMAIN mem'
            PROVE  /\ a \in Nat /\ mem'[a] \in Object /\ ~mem'[a].enqueued
                   /\ mem'[a].type = "STRING" => Len(mem'[a].words) = mem'[a].len
        <5>1. CASE a = f
          BY <1>1, <1>2, <1>3, <3>1, <3>5, <4>1, <5>1 DEF Typed, Enqueued
        <5>2. CASE a # f
          <6>1. a \in DOMAIN mem /\ mem'[a] = mem[a]
            BY <3>1, <5>2
          <6> QED BY <1>1, <1>2, <1>3, <6>1 DEF Typed, Enqueued, objects
        <5> QED BY <5>1, <5>2
      <4> QED BY <4>2 DEF objects, Enqueued
    <3>13. fields_in(landed \cup to_move, references(T))'
      <4>1. references(T)' = references(T)
        BY DEF references, outside
      <4>2. ASSUME NEW a \in landed' \cup to_move'
            PROVE  \A i \in fields(mem[a])' : mem'[a].words[i] \in references(T)
        <5>1. CASE a = f
          <6>1. fields(mem[a])' = fields(mem[it]) /\ mem'[a].words = mem[it].words
            BY <3>1, <3>5, <5>1 DEF fields
          <6> QED BY <1>2, <3>1, <6>1 DEF fields_in
        <5>2. CASE a # f
          <6>1. a \in landed \cup to_move /\ a \in DOMAIN mem /\ mem'[a] = mem[a]
            BY <3>1, <3>2, <3>4, <3>7, <3>9, <5>2
          <6> QED BY <1>2, <6>1 DEF fields_in, fields
        <5> QED BY <5>1, <5>2
      <4> QED BY <4>1, <4>2 DEF fields_in
    <3>14. landed' \cap Marked' = {}
      <4>1. ASSUME NEW a \in landed' PROVE ~mem'[a].marked
        <5>1. CASE a = f
          BY <3>1, <3>5, <5>1
        <5>2. CASE a # f
          BY <1>2, <3>1, <3>4, <3>7, <3>9, <5>2 DEF Marked
        <5> QED BY <5>1, <5>2
      <4> QED BY <4>1 DEF Marked
    <3> QED BY <3>11, <3>12, <3>13, <3>14
  <2> QED BY <2>1, <2>2
<1>7. Typed'
  <2>1. ClientTypeOK'
    <3>1. ClientTypeOK
      BY <1>2 DEF Typed
    <3> QED BY <1>1, <1>4, <1>6, <3>1 DEF ClientTypeOK, same_roots, Cell, GcLocals, objects
  <2> QED BY <1>1, <1>2, <1>6, <2>1 DEF Typed, same_roots
<1>8. Relocated'
  <2>1. references(landed \cup destinations)' = references(T)
    BY <1>6 DEF references, outside
  <2> QED BY <1>5, <1>6, <2>1 DEF Relocated, roots_in, cells_in, fields_in
<1>9. /\ Clean' /\ MarkingRoots' /\ Queue' /\ Traced' /\ Closed' /\ Moved'
      /\ UpdatingObjects' /\ FixingRoots'
  BY <1>1 DEF Clean, MarkingRoots, Queue, Traced, Closed, Moved, UpdatingObjects,
     FixingRoots, gc_idle, marking
<1> QED BY <1>7, <1>8, <1>9 DEF Soundness

\* When everything has moved, what has landed is the heap, and nothing is marked.
LEMMA CompactPhaseDoneSound ==
  ASSUME Structure, Soundness, compact_phase_done, cur_id' = cur_id PROVE Soundness'
<1> PICK top : top = heap.begin + gc.live OBVIOUS
<1>1. /\ pc = "physically_relocate" /\ pc' = "retry" /\ same_roots /\ gc_idle'
      /\ gc.it >= heap.current
      /\ heap' = [heap EXCEPT !.current = top] /\ gc' = no_locals
      /\ DOMAIN mem' = {x \in DOMAIN mem : x < top}
      /\ \A a \in DOMAIN mem' : mem'[a] = mem[a]
  BY DEF compact_phase_done, same_roots, gc_idle
<1>2. /\ Places /\ objects(mem) /\ Typed /\ ClientTypeOK /\ gc \in GcLocals
      /\ roots_in(references(landed \cup destinations))
      /\ fields_in(landed \cup to_move, references(landed \cup destinations))
      /\ landed \cap Marked = {}
  BY <1>1, PlacesOf DEF Soundness, Typed, ClientTypeOK, objects, GcLocals, Relocated
<1>3. to_move = {} /\ destinations = {} /\ landed = DOMAIN mem'
  <2>1. \A a \in DOMAIN mem : ~(a >= gc.it)
    BY <1>1, <1>2 DEF Places, GcLocals
  <2>2. to_move = {}
    BY <1>1, <2>1 DEF to_move
  <2> QED BY <1>1, <2>2 DEF destinations, landed
<1>4. roots_in(references(DOMAIN mem')) /\ fields_in(DOMAIN mem', references(DOMAIN mem'))
  BY <1>2, <1>3
<1>5. top \in Nat /\ heap'.begin = heap.begin /\ heap' \in [begin: Nat, current: Nat, size: Nat \ {0}]
  <2>1. top \in Nat
    <3>1. heap.begin \in Nat /\ gc.live \in Nat
      BY <1>2 DEF Places, GcLocals
    <3> QED BY <3>1
  <2> QED BY <1>1, <1>2, <2>1 DEF ClientTypeOK
<1>6. gc' \in GcLocals
  BY <1>1 DEF no_locals, GcLocals
<1>7. Marked' = {} /\ Enqueued' = {}
  BY <1>1, <1>2, <1>3 DEF Marked, Enqueued, Typed
<1>8. Typed'
  <2>1. ClientTypeOK'
    BY <1>1, <1>2, <1>5, <1>6 DEF ClientTypeOK, same_roots, Cell, GcLocals
  <2> QED BY <1>1, <1>2, <1>5, <1>7, <2>1 DEF Typed, same_roots
<1>9. Clean'
  <2>1. roots_in(references(DOMAIN mem))'
    BY <1>1, <1>4 DEF roots_in, cells_in, cell_word, same_roots, references, outside
  <2>2. fields_in(DOMAIN mem, references(DOMAIN mem))'
    BY <1>1, <1>4 DEF fields_in, fields, references, outside
  <2> QED BY <1>7, <2>1, <2>2 DEF Clean
<1>10. /\ MarkingRoots' /\ Queue' /\ Traced' /\ Closed' /\ Moved'
       /\ UpdatingObjects' /\ FixingRoots' /\ Relocated'
  BY <1>1 DEF MarkingRoots, Queue, Traced, Closed, Moved, UpdatingObjects, FixingRoots, Relocated
<1> QED BY <1>8, <1>9, <1>10 DEF Soundness

\* Every step of the collector preserves the invariant.
LEMMA CollectorSound == ASSUME Structure, Soundness, CollectStep PROVE Soundness'
<1>1. CASE gc_alloc_dump
  BY <1>1, GcAllocSound DEF gc_alloc_dump
<1>2. CASE Mark /\ cur_id' = cur_id
  BY <1>2, MarkSkipSound, MarkStartSound, MarkDequeueSound, MarkFieldSound,
     MarkFieldsDoneSound, MarkDoneSound, MarkPhaseDoneSound DEF Mark
<1>3. CASE Compact /\ cur_id' = cur_id
  BY <1>3, ComputeLocationSound, MremapSound, UpdateObjectSound, FixStackSound,
     FixExtraRootSound, FixStaticsSound, RelocateObjectSound, CompactPhaseDoneSound DEF Compact
<1> QED BY <1>1, <1>2, <1>3 DEF CollectStep

-------------------------------------------------------------------------------
(* Operands *)

\* What the instructions do with the operands.
LEMMA Operands ==
  ASSUME NEW R, stack \in Seq(R)
  PROVE  /\ Len(stack) \in Nat
         /\ \A i \in 1 .. Len(stack) : stack[i] \in R /\ operand(i) \in R
         /\ \A n \in 0 .. Len(stack) : popped(n) \in Seq(R) /\ Len(popped(n)) = Len(stack) - n
         /\ \A n \in 0 .. Len(stack) : last_operands(n) \in Seq(R) /\ Len(last_operands(n)) = n
<1>1. Len(stack) \in Nat /\ \A i \in 1 .. Len(stack) : stack[i] \in R
  OBVIOUS
<1>2. ASSUME NEW i \in 1 .. Len(stack) PROVE operand(i) \in R
  <2>1. Len(stack) + 1 - i \in 1 .. Len(stack)
    BY <1>1
  <2> QED BY <1>1, <2>1 DEF operand
<1> PICK k : k = Len(stack) OBVIOUS
<1>3. ASSUME NEW n \in 0 .. k PROVE popped(n) \in Seq(R) /\ Len(popped(n)) = k - n
  <2>1. PICK m \in Int : m = k - n
    BY <1>1
  <2>2. 0 <= m /\ m <= k
    BY <1>1, <2>1
  <2>3. SubSeq(stack, 1, m) \in Seq(R) /\ Len(SubSeq(stack, 1, m)) = m
    BY <1>1, <2>1, <2>2, SubSeqProperties
  <2> QED BY <2>1, <2>3 DEF popped
<1>4. ASSUME NEW n \in 0 .. k PROVE last_operands(n) \in Seq(R) /\ Len(last_operands(n)) = n
  <2>1. k \in Int /\ n \in Int /\ 0 <= n /\ n <= k
    BY <1>1
  <2> PICK m : m = k - n + 1 OBVIOUS
  <2>2. m \in Int /\ 1 <= m /\ m <= k + 1 /\ k - m + 1 = n
    BY <2>1
  <2>3. SubSeq(stack, m, k) \in Seq(R) /\ Len(SubSeq(stack, m, k)) = n
    BY <1>1, <2>1, <2>2, SubSeqProperties
  <2> QED BY <2>2, <2>3 DEF last_operands
<1> QED BY <1>1, <1>2, <1>3, <1>4

\* A smallest base exists.
LEMMA Smallest ==
  ASSUME NEW T, T \subseteq Nat, T # {} PROVE \E x \in T : \A y \in T : ~(y < x)
<1>1. PICK x \in T : \A y \in T : ~(<<y, x>> \in OpToRel(<, Nat))
  BY WFMin, NatLessThanWellFounded, Zenon
<1>2. \A y \in T : ~(y < x)
  BY <1>1, Zenon DEF OpToRel
<1> QED BY <1>2, Zenon

-------------------------------------------------------------------------------
(* alloc and its callers *)

\* Outside of the collector the invariant is that nothing dangles.
LEMMA IdleSound ==
  ASSUME gc_idle', Typed', Clean' PROVE Soundness'
BY DEF gc_idle, Soundness, MarkingRoots, Queue, Traced, Closed, Moved, UpdatingObjects,
   FixingRoots, Relocated

\* What a step of a caller leaves in the words that are followed.
CleanRoots ==
  /\ roots_in(references(DOMAIN mem))
  /\ locals \in [DOMAIN locals -> Nat]
  /\ extra \in Seq(Cell) /\ Len(extra) <= MAX_EXTRA_ROOTS_NUMBER
  /\ \A i, j \in DOMAIN extra : extra[i] = extra[j] => i = j

\* Their types, whatever the words point at.
TypedRoots ==
  /\ stack \in Seq(Nat) /\ statics \in Seq(Nat)
  /\ locals \in [DOMAIN locals -> Nat]
  /\ extra \in Seq(Cell) /\ Len(extra) <= MAX_EXTRA_ROOTS_NUMBER
  /\ \A i, j \in DOMAIN extra : extra[i] = extra[j] => i = j

LEMMA CleanRootsTyped == ASSUME CleanRoots' PROVE TypedRoots'
<1>1. references(DOMAIN mem)' \subseteq Nat
  BY DEF references
<1>2. stack' \in Seq(references(DOMAIN mem)') /\ statics' \in Seq(references(DOMAIN mem)')
  BY DEF CleanRoots, roots_in
<1>3. stack' \in Seq(Nat) /\ statics' \in Seq(Nat)
  BY <1>1, <1>2, SeqGrows
<1> QED BY <1>3 DEF CleanRoots, TypedRoots

\* The new object is outside of every old one; its bits are clear.
LEMMA PlacedTyped ==
  ASSUME Structure, Typed, NEW o \in Object, ~o.marked, ~o.enqueued, place_object(o),
         req' = req, cur_id' = cur_id,
         o.type = "STRING" => Len(o.words) = o.len,
         TypedRoots'
  PROVE  /\ Typed' /\ pc' = "run" /\ (Marked = {} => Marked' = {})
         /\ heap.current \in Nat /\ heap.current \notin DOMAIN mem
         /\ DOMAIN mem' = DOMAIN mem \cup {heap.current} /\ mem'[heap.current] = o
         /\ \A a \in DOMAIN mem : mem'[a] = mem[a]
<1> PICK at : at = heap.current OBVIOUS
<1> PICK n : n = at + WORDS_TO_BYTES(size_of(o)) OBVIOUS
<1>1. /\ gc_idle /\ gc_idle' /\ ClientTypeOK /\ Places /\ pc' = "run"
      /\ gc' = no_locals /\ heap' = [heap EXCEPT !.current = n]
      /\ mem' = [a \in DOMAIN mem \cup {at} |-> IF a = at THEN o ELSE mem[a]]
  BY PlacesOf DEF place_object, gc_idle, Typed
<1>2. o.words \in Seq(Nat)
  BY DEF Object, Word
<1>3. at \in Nat /\ at \notin DOMAIN mem
  BY <1>1 DEF Places
<1>4. n \in Nat
  <2>1. shaped(o)
    BY <1>2 DEF shaped, ObjectFields, Object
  <2>2. size_of(o) \in Nat
    BY <2>1, SizeOf
  <2> QED BY <1>3, <2>2 DEF WORDS_TO_BYTES, WORD_BYTES
<1>5. /\ DOMAIN mem' = DOMAIN mem \cup {at} /\ mem'[at] = o
      /\ \A a \in DOMAIN mem : mem'[a] = mem[a]
  BY <1>1, <1>3
<1>6. Enqueued' = {} /\ (Marked = {} => Marked' = {})
  BY <1>1, <1>2, <1>5 DEF Marked, Enqueued, Typed, gc_idle
<1>7. Typed'
  <2>1. heap' \in [begin: Nat, current: Nat, size: Nat \ {0}] /\ heap'.begin = heap.begin
    BY <1>1, <1>4 DEF ClientTypeOK
  <2>2. DOMAIN mem' \subseteq Nat /\ \A a \in DOMAIN mem' : mem'[a] \in Object
    BY <1>1, <1>2, <1>3, <1>5 DEF ClientTypeOK
  <2>3. gc' \in GcLocals
    BY <1>1 DEF no_locals, GcLocals
  <2>4. ClientTypeOK'
    BY <1>1, <2>1, <2>2, <2>3 DEF ClientTypeOK, TypedRoots, GcLocals, Word
  <2>5. \A a \in DOMAIN mem' : mem'[a].type = "STRING" => Len(mem'[a].words) = mem'[a].len
    BY <1>1, <1>2, <1>5 DEF Typed
  <2> QED BY <1>1, <1>6, <2>1, <2>4, <2>5 DEF Typed, TypedRoots
<1> QED BY <1>1, <1>3, <1>5, <1>6, <1>7

\* Its members are clean.
LEMMA PlacedSound ==
  ASSUME Structure, Soundness, NEW o \in Object, ~o.marked, ~o.enqueued, place_object(o),
         req' = req, cur_id' = cur_id,
         o.type = "STRING" => Len(o.words) = o.len,
         \A i \in fields(o) : o.words[i] \in references(DOMAIN mem'),
         CleanRoots'
  PROVE  Soundness'
<1> PICK at : at = heap.current OBVIOUS
<1>1. gc_idle /\ gc_idle' /\ Typed /\ Clean /\ Marked = {}
  BY DEF Soundness, place_object, gc_idle, Typed, Clean
<1>2. /\ Typed' /\ Marked' = {} /\ DOMAIN mem' = DOMAIN mem \cup {at} /\ mem'[at] = o
      /\ \A a \in DOMAIN mem : mem'[a] = mem[a]
  BY <1>1, CleanRootsTyped, PlacedTyped
<1>3. Clean'
  <2>1. fields_in(DOMAIN mem, references(DOMAIN mem))
    BY <1>1 DEF Clean
  <2>2. ASSUME NEW a \in DOMAIN mem' PROVE \A i \in fields(mem[a])' : mem'[a].words[i] \in references(DOMAIN mem')
    <3>1. CASE a = at
      BY <1>2, <3>1 DEF fields
    <3>2. CASE a # at
      <4>1. references(DOMAIN mem) \subseteq references(DOMAIN mem')
        BY <1>2, ReferencesGrow
      <4>2. a \in DOMAIN mem /\ mem'[a] = mem[a]
        BY <1>2, <3>2
      <4> QED BY <2>1, <4>1, <4>2 DEF fields_in, fields
    <3> QED BY <3>1, <3>2
  <2>3. fields_in(DOMAIN mem, references(DOMAIN mem))'
    BY <2>2 DEF fields_in, references, outside
  <2> QED BY <1>2, <2>3 DEF Clean, CleanRoots
<1> QED BY <1>1, <1>2, <1>3, IdleSound

LEMMA AllocatedSound ==
  ASSUME Structure, Soundness, NEW op, NEW contents \in Seq(Nat), allocated(op, contents),
         req' = req, cur_id' = cur_id,
         req.type = "STRING" => Len(contents) = req.len,
         \A i \in first_field(req.type, req.len) .. Len(contents) :
           contents[i] \in references(DOMAIN mem'),
         CleanRoots'
  PROVE  Soundness'
<1> PICK o : o = new_object(contents) OBVIOUS
<1>1. place_object(o) /\ ClientTypeOK
  BY DEF allocated, Soundness, Typed
<1>2. /\ o \in Object /\ o.type = req.type /\ o.len = req.len /\ o.words = contents
      /\ ~o.marked /\ ~o.enqueued
  BY <1>1 DEF new_object, Object, ClientTypeOK, Word
<1>3. \A i \in fields(o) : o.words[i] \in references(DOMAIN mem')
  BY <1>2 DEF fields
<1> QED BY <1>1, <1>2, <1>3, PlacedSound

\* A step of the program, or the request of an allocation, leaves the objects
\* where they are, as many words and the same bits in each of them.
LEMMA ProgramTyped ==
  ASSUME Typed, gc_idle, gc_idle', heap' = heap, gc' = gc,
         DOMAIN mem' = DOMAIN mem, objects(mem'),
         \A a \in DOMAIN mem : /\ mem'[a].marked = mem[a].marked
                               /\ mem'[a].enqueued = mem[a].enqueued
                               /\ mem'[a].type = mem[a].type /\ mem'[a].len = mem[a].len
                               /\ Len(mem'[a].words) = Len(mem[a].words),
         TypedRoots',
         req' \in [op: {req'.op}, type: lama_type, len: Nat, size: Nat], cur_id' \in Nat
  PROVE  Typed' /\ (Marked = {} => Marked' = {})
<1>1. Enqueued' = {} /\ (Marked = {} => Marked' = {})
  BY DEF Marked, Enqueued, Typed, gc_idle
<1>2. ClientTypeOK'
  BY DEF Typed, ClientTypeOK, TypedRoots, objects, Word
<1> QED BY <1>1, <1>2 DEF Typed, TypedRoots

\* It leaves their fields clean, too.
LEMMA ProgramSound ==
  ASSUME Soundness, gc_idle, gc_idle', heap' = heap, gc' = gc,
         DOMAIN mem' = DOMAIN mem, objects(mem'),
         \A a \in DOMAIN mem : /\ mem'[a].marked = mem[a].marked
                               /\ mem'[a].enqueued = mem[a].enqueued
                               /\ mem'[a].type = mem[a].type /\ mem'[a].len = mem[a].len
                               /\ Len(mem'[a].words) = Len(mem[a].words),
         fields_in(DOMAIN mem, references(DOMAIN mem))', CleanRoots',
         req' \in [op: {req'.op}, type: lama_type, len: Nat, size: Nat], cur_id' \in Nat
  PROVE  Soundness'
<1>1. Typed /\ Marked = {}
  BY DEF Soundness, Clean
<1>2. Typed' /\ Marked' = {}
  BY <1>1, CleanRootsTyped, ProgramTyped
<1>3. Clean'
  BY <1>2 DEF Clean, CleanRoots
<1> QED BY <1>2, <1>3, IdleSound

\* The empty heap.
LEMMA GcInitSound ==
  ASSUME GcInit, roots_in(references({})), cur_id \in Nat,
         req = [op |-> "none", type |-> "ARRAY", len |-> 0, size |-> 0]
  PROVE  Soundness
<1>1. PICK b \in Bases : heap = [begin |-> b, size |-> MINIMUM_HEAP_CAPACITY, current |-> b]
  BY DEF GcInit
<1>2. /\ mem = << >> /\ DOMAIN mem = {} /\ pc = "run" /\ locals = << >> /\ extra = << >>
      /\ gc = no_locals
  BY DEF GcInit
<1>3. heap \in [begin: Nat, current: Nat, size: Nat \ {0}] /\ heap.begin \in Bases
  BY <1>1, BasesAssumption, CapacityAssumption
<1>4. gc \in GcLocals
  BY <1>2 DEF no_locals, GcLocals
<1>5. req \in [op: {req.op}, type: lama_type, len: Nat, size: Nat]
  <2>1. "ARRAY" \in lama_type
    BY DEF lama_type
  <2> QED BY <2>1
<1>6. stack \in Seq(Word) /\ statics \in Seq(Word)
  <2>1. references({}) \subseteq Nat
    BY DEF references
  <2> QED BY <2>1, SeqGrows DEF roots_in, Word
<1>7. ClientTypeOK
  <2>1. locals \in [DOMAIN locals -> Word] /\ extra \in Seq(Cell) /\ Len(extra) <= MAX_EXTRA_ROOTS_NUMBER
    BY <1>2, PoolAssumption
  <2> QED BY <1>2, <1>3, <1>4, <1>5, <1>6, <2>1 DEF ClientTypeOK, gc_idle, GcLocals
<1>8. Typed
  BY <1>2, <1>3, <1>7 DEF Typed, Enqueued
<1>9. Clean
  BY <1>2 DEF Clean, fields_in, Marked
<1> QED BY <1>2, <1>8, <1>9 DEF Soundness, MarkingRoots, Queue, Traced, Closed, Moved,
        UpdatingObjects, FixingRoots, Relocated

\* A step that changes nothing.
LEMMA StutteringSound ==
  ASSUME Soundness, UNCHANGED gcVars, UNCHANGED cur_id PROVE Soundness'
<1>1. Typed' /\ Clean'
  BY DEF Soundness, gcVars, Typed, Clean, ClientTypeOK, Cell, gc_idle, marking, compacting,
     Enqueued, Marked, roots_in, cells_in, cell_word, fields_in, references, outside
<1>2. MarkingRoots' /\ Queue' /\ Traced' /\ Closed'
  <2>1. /\ UNCHANGED <<pc, gc, mem, heap, stack, statics, extra, locals>>
        /\ root_count' = root_count /\ \A i : root(i)' = root(i)
    BY RootsStay DEF gcVars, same_roots
  <2>2. Marked' = Marked /\ Enqueued' = Enqueued /\ Visited' = Visited
    BY <2>1 DEF Marked, Enqueued, Visited
  <2>3. MarkingRoots'
    BY <2>1, <2>2 DEF Soundness, MarkingRoots, fields_in, references, outside
  <2>4. Queue'
    BY <2>1, <2>2 DEF Soundness, Queue, boundary, queued, queue_slots, references, outside
  <2>5. Traced'
    BY <2>1, <2>2 DEF Soundness, Traced, fields_in, references, outside
  <2>6. Closed'
    BY <2>1, <2>2 DEF Soundness, Closed, roots_in, cells_in, cell_word, fields_in, references, outside
  <2> QED BY <2>3, <2>4, <2>5, <2>6
<1>3. /\ Marked' = Marked /\ old_references' = old_references /\ new_references' = new_references
      /\ to_move' = to_move /\ landed' = landed /\ destinations' = destinations
  <2>1. /\ \A a : moved_to(a)' = moved_to(a)
        /\ to_move' = to_move /\ Marked' = Marked
    BY DEF gcVars, moved_to, forwarded, after_mremap, to_move, Marked
  <2>2. destinations' = destinations /\ old_places' = old_places /\ landed' = landed
    BY <2>1 DEF gcVars, destinations, old_places, landed
  <2> QED BY <2>1, <2>2 DEF old_references, new_references
<1>4. \A S, R : /\ fields_in(S, R)' = fields_in(S, R) /\ cells_in(S, R)' = cells_in(S, R)
               /\ roots_in(R)' = roots_in(R)
  BY DEF gcVars, fields_in, fields, cells_in, cell_word, roots_in
<1>5. Moved' /\ UpdatingObjects' /\ FixingRoots' /\ Relocated'
  <2>1. Moved'
    BY <1>3 DEF Soundness, gcVars, Moved
  <2>2. UpdatingObjects'
    BY <1>3 DEF Soundness, gcVars, UpdatingObjects, boundary, fields_in, fields, cells_in, cell_word
  <2>3. FixingRoots'
    BY <1>3 DEF Soundness, gcVars, FixingRoots, fields_in, fields, cells_in, cell_word
  <2>4. Relocated'
    BY <1>3 DEF Soundness, gcVars, Relocated, fields_in, fields, cells_in, cell_word, roots_in,
       references, outside
  <2> QED BY <2>1, <2>2, <2>3, <2>4
<1> QED BY <1>1, <1>2, <1>5 DEF Soundness

\* The invariant is stronger than the properties it is for.
LEMMA SoundnessImplies ==
  ASSUME Structure, Soundness
  PROVE  NoDanglingPointers /\ QueueInvariant /\ BitsClearOutsideCollection /\ ClientTypeOK
<1>1. Typed /\ Clean /\ Queue /\ Places /\ extra \in Seq(Cell)
  BY PlacesOf DEF Soundness, Typed, ClientTypeOK
<1>2. NoDanglingPointers
  <2> SUFFICES ASSUME gc_idle
               PROVE  /\ \A i \in 1 .. root_count : sound(root(i))
                      /\ \A a \in DOMAIN mem : \A i \in fields(mem[a]) : sound(mem[a].words[i])
    BY DEF NoDanglingPointers
  <2>1. \A p \in references(DOMAIN mem) : sound(p)
    BY <1>1, Pointers DEF sound, is_object, Typed
  <2>2. roots_in(references(DOMAIN mem)) /\ fields_in(DOMAIN mem, references(DOMAIN mem))
    BY <1>1 DEF Clean
  <2> QED BY <1>1, <2>1, <2>2, RootsIn DEF fields_in
<1>3. QueueInvariant
  <2> SUFFICES ASSUME pc \in {"mark_queue", "mark_fields"}
               PROVE  /\ gc.tail <= heap.current
                      /\ \A a \in queue_slots : is_object(queued(a)) /\ ~object_at(queued(a)).marked
                      /\ \A a, b \in queue_slots : queued(a) = queued(b) => a = b
                      /\ {TO_DATA(queued(a)) : a \in queue_slots} = {a \in DOMAIN mem : mem[a].enqueued}
    BY DEF QueueInvariant
  <2>1. gc.tail <= heap.current
    BY <1>1 DEF Queue, boundary, Places
  <2>2. {TO_DATA(queued(a)) : a \in queue_slots} = Enqueued /\ Marked \cap Enqueued = {}
    BY <1>1 DEF Queue
  <2>3. \A a \in queue_slots : is_object(queued(a)) /\ ~object_at(queued(a)).marked
    BY <2>2 DEF is_object, object_at, Marked, Enqueued
  <2>4. \A a, b \in queue_slots : queued(a) = queued(b) => a = b
    BY <1>1 DEF Queue, queue_slots
  <2> QED BY <2>1, <2>2, <2>3, <2>4 DEF Enqueued
<1>4. BitsClearOutsideCollection
  BY <1>1 DEF BitsClearOutsideCollection, Clean, Typed, Marked, Enqueued, gc_idle
<1> QED BY <1>1, <1>2, <1>3, <1>4 DEF Typed

-------------------------------------------------------------------------------
(* Only what is reachable is visited *)

\* A step that leaves words, roots and the heap alone changes no target.
LEMMA TargetsStay ==
  ASSUME heap' = heap, same_roots, same_words(mem, mem'), objects(mem)
  PROVE  /\ root_targets' = root_targets
         /\ \A a \in DOMAIN mem : field_targets(a)' = field_targets(a)
         /\ \A C \in SUBSET DOMAIN mem : holds_reachable(C)' <=> holds_reachable(C)
<1>1. DOMAIN mem' = DOMAIN mem
      /\ \A a \in DOMAIN mem : fields(mem'[a]) = fields(mem[a]) /\ mem'[a].words = mem[a].words
  BY FieldsStay
<1>2. \A W : targets(W)' = targets(W)
  BY DEF targets, is_valid_heap_pointer
<1>3. root_targets' = root_targets
  <2>1. {root(i) : i \in 1 .. root_count}' = {root(i) : i \in 1 .. root_count}
    BY RootsStay
  <2> QED BY <1>2, <2>1 DEF root_targets
<1>4. ASSUME NEW a \in DOMAIN mem PROVE field_targets(a)' = field_targets(a)
  <2>1. {mem[a].words[i] : i \in fields(mem[a])}' = {mem[a].words[i] : i \in fields(mem[a])}
    BY <1>1
  <2> QED BY <1>2, <2>1 DEF field_targets
<1>5. ASSUME NEW C \in SUBSET DOMAIN mem PROVE holds_reachable(C)' <=> holds_reachable(C)
  BY <1>1, <1>3, <1>4 DEF holds_reachable
<1> QED BY <1>3, <1>4, <1>5

\* So if such a step visits nothing but a target of a root or of a visited
\* object, what is visited stays reachable.
LEMMA ReachedStays ==
  ASSUME Reached, objects(mem), marking, heap' = heap, same_roots, same_words(mem, mem'),
         \A C \in SUBSET DOMAIN mem : holds_reachable(C) /\ Visited \subseteq C => Visited' \subseteq C
  PROVE  Reached'
<1>1. DOMAIN mem' = DOMAIN mem
  BY DEF same_words
<1>2. \A C \in SUBSET DOMAIN mem : holds_reachable(C) => Visited \subseteq C
  BY DEF Reached
<1>3. ASSUME NEW C \in SUBSET DOMAIN mem, holds_reachable(C)' PROVE Visited' \subseteq C
  BY <1>2, <1>3, TargetsStay
<1> QED BY <1>1, <1>3 DEF Reached

\* Each step of the collector in and after mark_phase.
LEMMA MarkReached ==
  ASSUME Structure, Soundness, Reached, Mark, UNCHANGED <<cur_id, dump>>
  PROVE  Reached'
<1>1. marking /\ heap' = heap /\ same_roots
  BY DEF Mark, mark_skip, mark_start, mark_dequeue, mark_field, mark_fields_done, mark_done,
         mark_phase_done, marking, same_roots
<1>2. /\ Places /\ tiled_from(heap.begin) /\ heap.begin \in Bases
      /\ objects(mem) /\ gc \in GcLocals /\ Clean /\ Queue /\ Traced
      /\ \A i \in 1 .. root_count : root(i) \in references(DOMAIN mem)
      /\ fields_in(DOMAIN mem, references(DOMAIN mem))
  BY <1>1, MarkingFacts
<1>3. CASE mark_start
  <2> PICK p : p = root(gc.idx) OBVIOUS
  <2> PICK t : t = TO_DATA(p) OBVIOUS
  <2>1. /\ mem' = enqueue(heap.begin, p) /\ is_valid_heap_pointer(p) /\ gc.idx \in 1 .. root_count
    BY <1>1, <1>2, <1>3, MarkingFacts DEF mark_start, to_mark, MarkingRoots, GcLocals
  <2>2. p \in Nat /\ t \in DOMAIN mem /\ t \in root_targets
    <3>1. p \in references(DOMAIN mem)
      BY <1>2, <2>1
    <3>2. p \in Nat /\ t \in DOMAIN mem
      BY <1>2, <2>1, <3>1, Pointers DEF references
    <3> QED BY <2>1, <3>2 DEF root_targets, targets
  <2>3. heap.begin \in DOMAIN mem
    BY <1>2, <2>2 DEF tiled_from, Places
  <2>4. /\ same_words(mem, mem') /\ \A a \in DOMAIN mem : mem'[a].marked = mem[a].marked
        /\ \A a \in DOMAIN mem : mem'[a].enqueued = (a = t \/ mem[a].enqueued)
    BY <1>2, <2>1, <2>2, <2>3, Enqueueing
  <2>5. Visited' \subseteq Visited \cup {t}
    BY <2>4 DEF Visited, Marked, Enqueued, same_words
  <2>6. \A C \in SUBSET DOMAIN mem : holds_reachable(C) => t \in C
    BY <2>2 DEF holds_reachable
  <2> QED BY <1>1, <1>2, <2>4, <2>5, <2>6, ReachedStays
<1>4. CASE mark_dequeue
  <2> PICK cur : cur = TO_DATA(queued(gc.head)) OBVIOUS
  <2>1. /\ mem' = [mem EXCEPT ![cur] = dequeued(@)] /\ gc.head # gc.tail /\ pc = "mark_queue"
    BY <1>4 DEF mark_dequeue, queued
  <2>2. cur \in Enqueued
    <3>1. /\ boundary(gc.head) /\ boundary(gc.tail) /\ gc.head <= gc.tail
          /\ gc.head \in Nat /\ gc.tail \in Nat
      BY <1>2, <2>1 DEF Queue, GcLocals
    <3>2. gc.head \in DOMAIN mem /\ gc.head < gc.tail
      BY <1>2, <2>1, <3>1 DEF boundary, Places
    <3>3. gc.head \in queue_slots
      BY <3>1, <3>2 DEF queue_slots
    <3> QED BY <1>2, <2>1, <3>3 DEF Queue
  <2>3. /\ cur \in DOMAIN mem /\ mem[cur] \in Object
        /\ mem' = [mem EXCEPT ![cur] = dequeued(mem[cur])]
    BY <1>2, <2>1, <2>2 DEF Enqueued, objects
  <2>4. /\ dequeued(mem[cur]) \in Object /\ dequeued(mem[cur]).type = mem[cur].type
        /\ dequeued(mem[cur]).len = mem[cur].len /\ dequeued(mem[cur]).words = mem[cur].words
        /\ dequeued(mem[cur]).marked /\ ~dequeued(mem[cur]).enqueued
    BY ONLY <2>3 DEF dequeued, Object
  <2>5. same_words(mem, mem')
    BY <1>2, <2>3, <2>4 DEF same_words, objects
  <2>6. Visited' \subseteq Visited
    BY <2>2, <2>3, <2>4 DEF Visited, Marked, Enqueued
  <2> QED BY <1>1, <1>2, <2>5, <2>6, ReachedStays
<1>5. CASE mark_field
  <2> PICK p : p = mem[gc.obj].words[gc.fld] OBVIOUS
  <2> PICK t : t = TO_DATA(p) OBVIOUS
  <2>1. pc = "mark_fields" /\ gc.fld <= Len(mem[gc.obj].words)
    BY <1>5 DEF mark_field
  <2>2. gc.obj \in Marked /\ gc.obj \in DOMAIN mem /\ gc.fld \in fields(mem[gc.obj])
    <3>1. gc.obj \in Marked /\ gc.fld >= first_field(mem[gc.obj].type, mem[gc.obj].len)
      BY <1>2, <2>1 DEF Traced
    <3>2. gc.obj \in DOMAIN mem /\ gc.fld \in Nat
      BY <1>2, <3>1 DEF Marked, GcLocals
    <3>3. Len(mem[gc.obj].words) \in Nat /\ first_field(mem[gc.obj].type, mem[gc.obj].len) \in Nat
      BY <1>2, <3>2, FieldsAreWords DEF objects
    <3> QED BY <2>1, <3>1, <3>2, <3>3 DEF fields
  <2>3. CASE to_enqueue(p)
    <3>1. /\ mem' = enqueue(gc.tail, p) /\ is_valid_heap_pointer(p)
          /\ ~mem[t].marked /\ ~mem[t].enqueued
      BY <1>5, <2>3 DEF mark_field, to_enqueue
    <3>2. p \in Nat /\ t \in DOMAIN mem /\ t \in field_targets(gc.obj)
      <4>1. p \in references(DOMAIN mem)
        BY <1>2, <2>2 DEF fields_in
      <4>2. p \in Nat /\ t \in DOMAIN mem
        BY <1>2, <3>1, <4>1, Pointers DEF references
      <4>3. p \in {mem[gc.obj].words[i] : i \in fields(mem[gc.obj])}
        BY <2>2
      <4> QED BY <3>1, <4>2, <4>3 DEF field_targets, targets
    <3>3. gc.tail \in DOMAIN mem
      <4>1. /\ boundary(gc.tail) /\ gc.tail \in Nat
            /\ \A a \in DOMAIN mem : a < gc.tail => TO_DATA(queued(a)) \in Visited
            /\ \A a, b \in DOMAIN mem :
                 a < gc.tail /\ b < gc.tail /\ queued(a) = queued(b) => a = b
        BY <1>2, <2>1 DEF Queue, GcLocals
      <4>2. Visited \subseteq DOMAIN mem /\ t \notin Visited
        BY <3>1 DEF Visited, Marked, Enqueued
      <4>3. \E a \in DOMAIN mem : a >= gc.tail
        BY <1>2, <3>2, <4>1, <4>2, SlotLeft
      <4> QED BY <1>2, <4>1, <4>3 DEF boundary, Places
    <3>4. /\ same_words(mem, mem') /\ \A a \in DOMAIN mem : mem'[a].marked = mem[a].marked
          /\ \A a \in DOMAIN mem : mem'[a].enqueued = (a = t \/ mem[a].enqueued)
      <4>1. objects(mem) /\ TO_DATA(p) \in DOMAIN mem /\ t = TO_DATA(p)
        BY <1>2, <3>2
      <4> QED BY ONLY <3>1, <3>2, <3>3, <4>1, Enqueueing
    <3>5. Visited' \subseteq Visited \cup {t}
      BY <3>4 DEF Visited, Marked, Enqueued, same_words
    <3>6. \A C \in SUBSET DOMAIN mem : holds_reachable(C) /\ Visited \subseteq C => t \in C
      BY <2>2, <3>2 DEF holds_reachable, Visited
    <3> QED BY <1>1, <1>2, <3>4, <3>5, <3>6, ReachedStays
  <2>4. CASE ~to_enqueue(p)
    <3>1. mem' = mem
      BY <1>5, <2>4 DEF mark_field
    <3>2. Visited' \subseteq Visited
      BY <3>1 DEF Visited, Marked, Enqueued
    <3> QED BY <1>1, <1>2, <3>1, <3>2, SameWordsRefl, ReachedStays
  <2> QED BY <2>3, <2>4
<1>6. CASE mark_skip \/ mark_fields_done \/ mark_done \/ mark_phase_done
  <2>1. mem' = mem
    BY <1>6 DEF mark_skip, mark_fields_done, mark_done, mark_phase_done
  <2>2. Visited' \subseteq Visited
    BY <2>1 DEF Visited, Marked, Enqueued
  <2> QED BY <1>1, <1>2, <2>1, <2>2, SameWordsRefl, ReachedStays
<1> QED BY <1>3, <1>4, <1>5, <1>6 DEF Mark

\* compact_phase does not look at the fields again.
LEMMA ComputeReached ==
  ASSUME Typed, Reached, compute_location, UNCHANGED <<cur_id, dump>> PROVE Reached'
<1>1. /\ pc = "compute_locations" /\ heap' = heap /\ same_roots
      /\ \/ mem' = mem
         \/ mem' = [mem EXCEPT ![gc.it].forward = gc.free]
  BY DEF compute_location, same_roots
<1>2. objects(mem) /\ gc.free \in Nat
  BY DEF Typed, ClientTypeOK, objects
<1>3. ASSUME NEW a \in DOMAIN mem
      PROVE  LET o == mem[a] IN LET q == [o EXCEPT !.forward = gc.free] IN
             /\ q \in Object /\ q.type = o.type /\ q.len = o.len /\ q.words = o.words
             /\ q.marked = o.marked /\ q.enqueued = o.enqueued
  BY <1>2 DEF objects, Object
<1>4. /\ same_words(mem, mem')
      /\ \A a \in DOMAIN mem : mem'[a].marked = mem[a].marked /\ mem'[a].enqueued = mem[a].enqueued
  <2>1. CASE mem' = mem
    BY <1>2, <2>1, SameWordsRefl
  <2>2. CASE mem' = [mem EXCEPT ![gc.it].forward = gc.free]
    BY <1>2, <1>3, <2>2 DEF same_words, objects
  <2> QED BY <1>1, <2>1, <2>2
<1>5. DOMAIN mem' = DOMAIN mem /\ Visited' = Visited
  BY <1>4 DEF same_words, Visited, Marked, Enqueued
<1> QED BY <1>1, <1>2, <1>4, <1>5, TargetsStay DEF Reached

\* gc_alloc begins with nothing visited.
LEMMA GcAllocReached == ASSUME Soundness, gc_alloc PROVE Reached'
<1>1. pc = "alloc" /\ mem' = mem /\ pc' = "mark_roots"
  BY DEF gc_alloc
<1>2. Visited = {}
  BY <1>1 DEF Soundness, Typed, Clean, gc_idle, Visited
<1>3. Visited' = {}
  BY <1>1, <1>2 DEF Visited, Marked, Enqueued
<1> QED BY <1>3 DEF Reached

\* Every step of the collector keeps the invariant.
LEMMA CollectReached ==
  ASSUME Structure, Soundness, Reached, CollectStep PROVE Reached'
<1>1. CASE gc_alloc_dump
  BY <1>1, GcAllocReached DEF gc_alloc_dump
<1>2. CASE Mark /\ UNCHANGED <<cur_id, dump>>
  BY <1>2, MarkReached
<1>3. CASE compute_location /\ UNCHANGED <<cur_id, dump>>
  BY <1>3, ComputeReached DEF Soundness
<1>4. CASE \/ mremap \/ update_object \/ fix_stack \/ fix_extra_root \/ fix_statics
           \/ relocate_object \/ compact_phase_done
  <2>1. ~marking' /\ pc' # "compute_locations"
    BY <1>4 DEF mremap, update_object, fix_stack, fix_extra_root, fix_statics, relocate_object,
                compact_phase_done, marking
  <2> QED BY <2>1 DEF Reached
<1> QED BY <1>1, <1>2, <1>3, <1>4 DEF CollectStep, Compact

-------------------------------------------------------------------------------
(* What can be reached along a step function, by layers: as many layers as   *)
(* there are elements are enough, for every layer that is not the last one   *)
(* adds an element                                                           *)

layer(st, S) == UNION {{a} \cup st[a] : a \in S}
layers(st, B, f, n) ==
  /\ f \in [0 .. n -> SUBSET DOMAIN st]
  /\ \A i \in 0 .. n : f[i] = IF i = 0 THEN B ELSE layer(st, f[i - 1])
closed_under(st, B, C) == B \subseteq C /\ \A a \in C : st[a] \subseteq C
steps_in(X, B, st) == B \in SUBSET X /\ st \in [X -> SUBSET X]

\* A layer holds the layer before it and lies in the set.
LEMMA LayerGrows ==
  ASSUME NEW X, NEW B, NEW st \in [X -> SUBSET X], NEW S \in SUBSET X
  PROVE  /\ S \subseteq layer(st, S) /\ layer(st, S) \in SUBSET X
         /\ \A a \in S : st[a] \subseteq layer(st, S)
         /\ \A C \in SUBSET X : S \subseteq C /\ closed_under(st, B, C) => layer(st, S) \subseteq C
  BY DEF layer, closed_under

\* There are layers up to any number.
LEMMA LayersExist ==
  ASSUME NEW X, NEW B, NEW st, steps_in(X, B, st)
  PROVE  \A n \in Nat : \E f : layers(st, B, f, n)
<1> USE DEF steps_in
<1> DEFINE D == {n \in Nat : ~ \E f : layers(st, B, f, n)}
<1>1. SUFFICES ASSUME D # {} PROVE FALSE
  OBVIOUS
<1>2. PICK n \in D : \A m \in D : ~(m < n)
  <2>1. D \subseteq Nat
    OBVIOUS
  <2> QED BY <1>1, <2>1, Smallest
<1>3. n \in Nat /\ ~ \E f : layers(st, B, f, n)
  OBVIOUS
<1>4. CASE n = 0
  <2> DEFINE f == [i \in 0 .. 0 |-> B]
  <2>1. layers(st, B, f, 0)
    BY DEF layers
  <2> QED BY <1>3, <1>4, <2>1
<1>5. CASE n # 0
  <2>1. n - 1 \in Nat /\ n - 1 < n
    BY <1>3, <1>5
  <2>2. PICK f : layers(st, B, f, n - 1)
    BY <1>2, <2>1
  <2> DEFINE g == [i \in 0 .. n |-> IF i = n THEN layer(st, f[n - 1]) ELSE f[i]]
  <2>3. /\ f \in [0 .. n - 1 -> SUBSET X]
        /\ \A i \in 0 .. n - 1 : f[i] = IF i = 0 THEN B ELSE layer(st, f[i - 1])
    BY <2>2 DEF layers
  <2>4. \A i \in 0 .. n : i # n => i \in 0 .. n - 1
    BY <1>3
  <2>5. n - 1 \in 0 .. n - 1 /\ n - 1 \in 0 .. n /\ n - 1 # n
    BY <1>3, <2>1
  <2>6. f[n - 1] \in SUBSET X /\ layer(st, f[n - 1]) \in SUBSET X
    <3> PICK S : S = f[n - 1] OBVIOUS
    <3>1. S \in SUBSET X
      BY <2>3, <2>5
    <3>2. layer(st, S) \in SUBSET X
      BY <3>1 DEF layer
    <3> QED BY <3>1, <3>2
  <2>7. \A i \in 0 .. n : g[i] \in SUBSET X
    BY <2>3, <2>4, <2>6
  <2>8. ASSUME NEW i \in 0 .. n
        PROVE  g[i] = IF i = 0 THEN B ELSE layer(st, g[i - 1])
    <3>1. CASE i = n
      <4>1. g[n - 1] = f[n - 1]
        BY <2>5
      <4> QED BY <1>5, <3>1, <4>1
    <3>2. CASE i # n
      <4>1. i \in 0 .. n - 1 /\ g[i] = f[i]
        BY <2>4, <3>2
      <4>2. i # 0 => i - 1 \in 0 .. n /\ i - 1 # n
        BY <1>3, <3>2
      <4>3. i # 0 => g[i - 1] = f[i - 1]
        BY <4>2
      <4> QED BY <2>3, <4>1, <4>3
    <3> QED BY <3>1, <3>2
  <2>9. g \in [0 .. n -> SUBSET X]
    BY <2>7
  <2>10. layers(st, B, g, n)
    BY <2>8, <2>9 DEF layers
  <2> QED BY <1>3, <2>10
<1> QED BY <1>4, <1>5

\* They are the same wherever they stop.
LEMMA LayersUnique ==
  ASSUME NEW st, NEW B, NEW m \in Nat, NEW n \in Nat, NEW f, layers(st, B, f, m),
         NEW g, layers(st, B, g, n), NEW k \in Nat, k <= m, k <= n
  PROVE  f[k] = g[k]
<1> DEFINE D == {i \in Nat : i <= m /\ i <= n /\ f[i] # g[i]}
<1>1. SUFFICES ASSUME D # {} PROVE FALSE
  OBVIOUS
<1>2. PICK i \in D : \A j \in D : ~(j < i)
  <2>1. D \subseteq Nat
    OBVIOUS
  <2> QED BY <1>1, <2>1, Smallest
<1>3. i \in Nat /\ i <= m /\ i <= n /\ f[i] # g[i]
  OBVIOUS
<1>4. i \in 0 .. m /\ i \in 0 .. n
  BY <1>3
<1>5. /\ f[i] = IF i = 0 THEN B ELSE layer(st, f[i - 1])
      /\ g[i] = IF i = 0 THEN B ELSE layer(st, g[i - 1])
  BY <1>4 DEF layers
<1>6. i # 0 => i - 1 \in Nat /\ i - 1 <= m /\ i - 1 <= n /\ i - 1 < i
  BY <1>3
<1>7. i # 0 => f[i - 1] = g[i - 1]
  BY <1>2, <1>6
<1> QED BY <1>3, <1>5, <1>7

\* The recursive function of all layers.
LEMMA AllLayers ==
  ASSUME NEW X, NEW B, NEW st, steps_in(X, B, st)
  PROVE  \E F \in [Nat -> SUBSET X] :
           \A n \in Nat : F[n] = IF n = 0 THEN B ELSE layer(st, F[n - 1])
<1> DEFINE val(n) == (CHOOSE f : layers(st, B, f, n))[n]
           F == [n \in Nat |-> val(n)]
<1>1. ASSUME NEW n \in Nat PROVE layers(st, B, CHOOSE f : layers(st, B, f, n), n)
  BY LayersExist
<1> USE DEF steps_in
<1>2. ASSUME NEW n \in Nat
      PROVE  F[n] \in SUBSET X /\ F[n] = IF n = 0 THEN B ELSE layer(st, F[n - 1])
  <2>1. PICK f : f = CHOOSE g : layers(st, B, g, n)
    OBVIOUS
  <2>2. layers(st, B, f, n) /\ F[n] = f[n]
    BY <1>1, <2>1
  <2>3. n \in 0 .. n
    OBVIOUS
  <2>4. f[n] \in SUBSET X /\ f[n] = IF n = 0 THEN B ELSE layer(st, f[n - 1])
    BY <2>2, <2>3 DEF layers
  <2>5. ASSUME n # 0 PROVE F[n - 1] = f[n - 1]
    <3>1. n - 1 \in Nat /\ n - 1 <= n /\ n - 1 <= n - 1
      BY <2>5
    <3>2. PICK h : h = CHOOSE g : layers(st, B, g, n - 1)
      OBVIOUS
    <3>3. layers(st, B, h, n - 1) /\ F[n - 1] = h[n - 1]
      BY <1>1, <3>1, <3>2
    <3>4. h[n - 1] = f[n - 1]
      BY <2>2, <3>1, <3>3, LayersUnique
    <3> QED BY <3>3, <3>4
  <2> QED BY <2>2, <2>4, <2>5
<1> HIDE DEF F
<1>3. F = [n \in Nat |-> F[n]]
  BY DEF F
<1> QED BY <1>2, <1>3

\* A function that takes one layer after another, at the number of elements, is
\* the least set that holds B and is closed under st.
LEMMA LastLayer ==
  ASSUME NEW X, IsFiniteSet(X), NEW B, NEW st, steps_in(X, B, st), NEW f, f[0] = B,
         \A n \in Nat : f[n] \in SUBSET X => f[n + 1] = layer(st, f[n]),
         NEW c, c = Cardinality(X)
  PROVE  /\ f[c] \in SUBSET X /\ closed_under(st, B, f[c])
         /\ \A C \in SUBSET X : closed_under(st, B, C) => f[c] \subseteq C
<1> USE DEF steps_in
<1>1. c \in Nat
  BY FS_CardinalityType
<1> DEFINE closed(n) == layer(st, f[n]) \subseteq f[n]
           fine(n) == /\ f[n] \in SUBSET X /\ B \subseteq f[n]
                      /\ closed(n) \/ Cardinality(f[n]) > n
           least(n) == \A C \in SUBSET X : closed_under(st, B, C) => f[n] \subseteq C
           D == {n \in Nat : ~(fine(n) /\ least(n))}
<1>2. ASSUME NEW S \in SUBSET X
      PROVE  IsFiniteSet(S) /\ Cardinality(S) \in Nat /\ Cardinality(S) <= c
  <2>1. IsFiniteSet(S) /\ Cardinality(S) <= Cardinality(X)
    BY ONLY <1>2, IsFiniteSet(X), FS_Subset
  <2>2. Cardinality(S) \in Nat
    BY ONLY <2>1, FS_CardinalityType
  <2> QED BY <2>1, <2>2
<1>3. fine(0) /\ least(0)
  <2>1. least(0)
    BY DEF closed_under
  <2>2. CASE B = {}
    <3>1. closed(0)
      BY <2>2 DEF layer
    <3> QED BY <2>1, <3>1
  <2>3. CASE B # {}
    <3>1. IsFiniteSet(B) /\ Cardinality(B) \in Nat
      BY <1>2
    <3>2. Cardinality(B) # 0
      BY ONLY <2>3, <3>1, FS_EmptySet
    <3>3. Cardinality(f[0]) > 0
      BY <3>1, <3>2
    <3> QED BY <2>1, <3>3
  <2> QED BY <2>2, <2>3
<1>4. ASSUME NEW n \in Nat, n # 0, fine(n - 1), least(n - 1) PROVE fine(n) /\ least(n)
  <2>1. PICK m \in Nat : m = n - 1 /\ n = m + 1
    BY <1>4
  <2>2. PICK S, T : S = f[m] /\ T = f[n]
    OBVIOUS
  <2>3. S \in SUBSET X /\ T = layer(st, S) /\ B \subseteq S
    BY <1>4, <2>1, <2>2
  <2>4. /\ S \subseteq T /\ T \in SUBSET X
        /\ \A C \in SUBSET X : S \subseteq C /\ closed_under(st, B, C) => T \subseteq C
    <3>1. st \in [X -> SUBSET X] /\ S \in SUBSET X
      BY <2>3
    <3>2. /\ S \subseteq layer(st, S) /\ layer(st, S) \in SUBSET X
          /\ \A C \in SUBSET X : S \subseteq C /\ closed_under(st, B, C) => layer(st, S) \subseteq C
      BY ONLY <3>1, LayerGrows
    <3>3. T = layer(st, S)
      BY <2>3
    <3> QED BY ONLY <3>2, <3>3
  <2>5. f[n] \in SUBSET X /\ B \subseteq f[n] /\ least(n)
    BY <1>4, <2>1, <2>2, <2>3, <2>4
  <2>6. CASE closed(m)
    <3>1. T = S
      BY <2>2, <2>3, <2>4, <2>6
    <3> QED BY <2>2, <2>5, <2>6, <3>1
  <2>7. CASE ~closed(m)
    <3>1. S \in SUBSET T /\ S # T
      BY <2>2, <2>3, <2>4, <2>7
    <3>2. IsFiniteSet(T) /\ Cardinality(T) \in Nat /\ Cardinality(S) \in Nat
      BY <1>2, <2>3, <2>4
    <3>3. Cardinality(S) <= Cardinality(T) /\ (Cardinality(S) = Cardinality(T) => S = T)
      BY ONLY <3>1, <3>2, FS_Subset
    <3>4. Cardinality(S) > m
      BY <1>4, <2>1, <2>2, <2>7
    <3>5. Cardinality(T) > n
      BY <2>1, <3>1, <3>2, <3>3, <3>4
    <3> QED BY <2>2, <2>5, <3>5
  <2> QED BY <2>6, <2>7
<1> HIDE DEF fine, least
<1>5. D = {}
  <2>1. SUFFICES ASSUME D # {} PROVE FALSE
    OBVIOUS
  <2>2. PICK n \in D : \A m \in D : ~(m < n)
    <3>1. D \subseteq Nat
      OBVIOUS
    <3> QED BY <2>1, <3>1, Smallest
  <2>3. n \in Nat /\ ~(fine(n) /\ least(n))
    OBVIOUS
  <2>4. n # 0
    BY <1>3, <2>3
  <2>5. n - 1 \in Nat /\ n - 1 < n
    BY <2>3, <2>4
  <2>6. fine(n - 1) /\ least(n - 1)
    BY <2>2, <2>5
  <2> QED BY <1>4, <2>3, <2>4, <2>6
<1>6. fine(c) /\ least(c)
  BY <1>1, <1>5
<1> USE DEF fine, least
<1>7. f[c] \in SUBSET X /\ B \subseteq f[c]
  BY <1>6
<1>8. layer(st, f[c]) \subseteq f[c]
  <2>1. Cardinality(f[c]) \in Nat /\ Cardinality(f[c]) <= c
    BY <1>2, <1>7
  <2> QED BY <1>1, <1>6, <2>1
<1> QED BY <1>6, <1>7, <1>8, LayerGrows DEF closed_under

-------------------------------------------------------------------------------
(* live_objects *)

\* live_objects is the least set that holds what the roots point at and what
\* its own members point at.
LEMMA LiveIsLeast ==
  ASSUME IsFiniteSet(DOMAIN mem)
  PROVE  /\ live_objects \in SUBSET DOMAIN mem /\ holds_reachable(live_objects)
         /\ \A C \in SUBSET DOMAIN mem : holds_reachable(C) => live_objects \subseteq C
<1> PICK X : X = DOMAIN mem OBVIOUS
<1> PICK B : B = root_targets \cap DOMAIN mem OBVIOUS
<1> PICK c : c = Cardinality(X) OBVIOUS
<1> PICK st : st = [a \in X |-> field_targets(a) \cap DOMAIN mem] OBVIOUS
<1> DEFINE next(S) == UNION {{a} \cup (field_targets(a) \cap DOMAIN mem) : a \in S}
<1>1. IsFiniteSet(X) /\ steps_in(X, B, st)
  BY DEF steps_in
<1>2. \A S \in SUBSET X : next(S) = layer(st, S)
  BY DEF layer
<1> HIDE DEF next
<1>3. PICK F \in [Nat -> SUBSET X] :
        \A n \in Nat : F[n] = IF n = 0 THEN B ELSE layer(st, F[n - 1])
  BY ONLY <1>1, AllLayers
<1>4. F = [n \in Nat |-> IF n = 0 THEN root_targets \cap DOMAIN mem ELSE next(F[n - 1])]
  <2>1. F = [n \in Nat |-> F[n]]
    OBVIOUS
  <2>2. ASSUME NEW n \in Nat
        PROVE  F[n] = IF n = 0 THEN root_targets \cap DOMAIN mem ELSE next(F[n - 1])
    <3>1. n # 0 => n - 1 \in Nat
      OBVIOUS
    <3>2. n # 0 => next(F[n - 1]) = layer(st, F[n - 1])
      BY <1>2, <3>1
    <3> QED BY <1>3, <3>2
  <2> QED BY <2>1, <2>2
<1>5. PICK p : p = CHOOSE f : f = [n \in Nat |-> IF n = 0 THEN root_targets \cap DOMAIN mem
                                                ELSE next(f[n - 1])]
  OBVIOUS
<1>6. p = [n \in Nat |-> IF n = 0 THEN root_targets \cap DOMAIN mem ELSE next(p[n - 1])]
  BY <1>4, <1>5
<1>7. live_objects = p[c]
  BY <1>5 DEF live_objects, next
<1>8. p[0] = B /\ \A n \in Nat : p[n] \in SUBSET X => p[n + 1] = layer(st, p[n])
  <2>1. ASSUME NEW n \in Nat PROVE p[n + 1] = next(p[n])
    <3>1. n + 1 \in Nat /\ n + 1 # 0 /\ (n + 1) - 1 = n
      OBVIOUS
    <3> QED BY <1>6, <3>1
  <2> QED BY <1>2, <1>6, <2>1
<1>9. /\ p[c] \in SUBSET X /\ closed_under(st, B, p[c])
      /\ \A C \in SUBSET X : closed_under(st, B, C) => p[c] \subseteq C
  BY ONLY <1>1, <1>8, c = Cardinality(X), LastLayer
<1>10. \A C \in SUBSET X : closed_under(st, B, C) <=> holds_reachable(C)
  BY DEF closed_under, holds_reachable
<1> QED BY <1>7, <1>9, <1>10

\* When mark_phase is over, what is marked is what the roots reach.
LEMMA MarkedIsLive ==
  ASSUME Structure, Soundness, Reached PROVE MarkedAreReachable
<1> SUFFICES ASSUME pc = "compute_locations" PROVE Marked = live_objects
  BY DEF MarkedAreReachable, Marked
<1>1. /\ Typed /\ Closed /\ Places /\ objects(mem) /\ heap.begin \in Bases /\ extra \in Seq(Cell)
  BY PlacesOf DEF Soundness, Typed, ClientTypeOK, objects
<1>2. IsFiniteSet(DOMAIN mem)
  <2>1. DOMAIN mem \in SUBSET Nat /\ heap.current \in Nat /\ \A a \in DOMAIN mem : a <= heap.current
    BY <1>1 DEF Places
  <2> QED BY ONLY <2>1, FS_BoundedSetOfNaturals
<1>3. /\ roots_in(references(Marked)) /\ fields_in(Marked, references(Marked))
      /\ Marked \in SUBSET DOMAIN mem
  BY <1>1 DEF Closed, Marked
<1>4. Enqueued = {} /\ Visited = Marked
  BY <1>1 DEF Typed, Visited
<1>5. \A p \in references(Marked) : is_valid_heap_pointer(p) => TO_DATA(p) \in Marked
  BY <1>1, Pointers
<1>6. \A i \in 1 .. root_count : root(i) \in references(Marked)
  BY <1>1, <1>3, RootsIn
<1>7. holds_reachable(Marked)
  <2>1. root_targets \subseteq Marked
    BY <1>5, <1>6 DEF root_targets, targets
  <2>2. \A a \in Marked : field_targets(a) \subseteq Marked
    BY <1>3, <1>5 DEF field_targets, targets, fields_in
  <2> QED BY <2>1, <2>2 DEF holds_reachable
<1>8. \A C \in SUBSET DOMAIN mem : holds_reachable(C) => Marked \subseteq C
  BY <1>4 DEF Reached
<1> QED BY <1>2, <1>3, <1>7, <1>8, LiveIsLeast
===============================================================================
