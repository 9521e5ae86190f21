----------------------------- MODULE HeapStructure -----------------------------
(***************************************************************************)
(* The inductive invariant behind HeapParsable, SlidesDown and             *)
(* CollectionMakesRoom: where the objects of the heap lie in every phase   *)
(* of the collector, whatever their words point to.                        *)
(***************************************************************************)
EXTENDS HeapProperties

-------------------------------------------------------------------------------
(* Shapes: what the iterators need of a header *)

ObjectFields == {"id", "type", "len", "words", "marked", "enqueued", "forward"}
shaped(o) == /\ o = [f \in ObjectFields |-> o[f]]
             /\ o.type \in lama_type /\ o.len \in Nat /\ o.marked \in BOOLEAN

Shapes ==
  /\ heap = [begin |-> heap.begin, current |-> heap.current, size |-> heap.size]
  /\ heap.begin \in Nat /\ heap.current \in Nat /\ heap.size \in Nat
  /\ mem = [a \in DOMAIN mem |-> mem[a]]
  /\ DOMAIN mem \subseteq Nat
  /\ \A a \in DOMAIN mem : shaped(mem[a])

LocalFields == {"idx", "head", "tail", "obj", "fld", "it", "free", "live", "old"}

AllocShape ==
  /\ req.type \in lama_type /\ req.len \in Nat /\ req.size \in Nat
  /\ gc = [f \in LocalFields |-> gc[f]]
  /\ pc \in {"alloc", "retry"} \/ marking \/ compacting \/ pc \in {"run", "failed"}

-------------------------------------------------------------------------------
(* Places *)

Bounds ==
  /\ heap.begin <= heap.current /\ heap.current <= heap_end
  /\ \A a \in DOMAIN mem : heap.begin <= a /\ next_obj(a) <= heap.current

\* The destinations of the objects in S fill the bytes from f up to g without
\* a gap, in the order of the objects.
chain(S, f, g) ==
  /\ f <= g
  /\ \A a \in S : /\ moved_to(a) \in Int
                  /\ f <= moved_to(a) /\ moved_to(a) <= a /\ moved_to(a) + size(a) <= g
  /\ \A a, b \in S : a < b => moved_to(a) + size(a) <= moved_to(b)
  /\ f = g \/ \E a \in S : moved_to(a) = f
  /\ \A a \in S : moved_to(a) + size(a) = g \/ \E b \in S : moved_to(b) = moved_to(a) + size(a)

\* The objects below f fill the bytes from heap.begin up to f.
filled_up_to(f) ==
  /\ f = heap.begin \/ heap.begin \in DOMAIN mem
  /\ \A b \in DOMAIN mem : b < f =>
       /\ next_obj(b) = f \/ (next_obj(b) < f /\ next_obj(b) \in DOMAIN mem)
       /\ \A c \in DOMAIN mem : c > b => next_obj(b) <= c

Computing == pc = "compute_locations" =>
  /\ gc.it \in Nat /\ gc.it <= heap.current /\ tiled_from(gc.it)
  /\ gc.free \in Nat /\ gc.free <= gc.it /\ (gc.free - heap.begin) % WORD_BYTES = 0
  /\ chain(to_move, heap.begin, gc.free)

\* What mremap decided: where the live objects will end, and that the heap
\* holds them twice and the request.
Decided ==
  /\ gc.live \in Nat /\ gc.live % WORD_BYTES = 0
  /\ heap.begin + gc.live <= heap.current
  /\ 2 * (gc.live \div WORD_BYTES) + req.size <= heap.size
  /\ gc.old.begin \in Nat

Updating == pc \in {"update_references", "fix_extra_roots"} =>
  /\ Decided
  /\ chain(to_move, heap.begin, heap.begin + gc.live)

Relocating == pc = "physically_relocate" =>
  /\ Decided
  /\ gc.it \in Nat /\ gc.it <= heap.current /\ tiled_from(gc.it)
  /\ \E f \in heap.begin .. gc.it :
       /\ filled_up_to(f)
       /\ chain(to_move, f, heap.begin + gc.live)

Structure ==
  /\ Shapes /\ AllocShape /\ Bounds
  /\ pc # "physically_relocate" => tiled_from(heap.begin)
  /\ Computing /\ Updating /\ Relocating
  /\ CollectionMakesRoom
===============================================================================
