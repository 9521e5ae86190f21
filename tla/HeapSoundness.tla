----------------------------- MODULE HeapSoundness -----------------------------
(***************************************************************************)
(* The inductive invariant behind NoDanglingPointers, QueueInvariant and   *)
(* BitsClearOutsideCollection: in every phase of the collector, which      *)
(* objects the words that are still followed point at, by their address in *)
(* the old heap, in the new one, or at their destination.                  *)
(***************************************************************************)
EXTENDS HeapStructure

-------------------------------------------------------------------------------
(* Words *)

\* No collector takes the word for a pointer, wherever mremap puts the heap.
outside(p) == UNBOXED(p) \/ \A b \in Bases : p < b

\* The words that point at objects with the headers O, if at anything.
references(O) == {p \in Nat : outside(p) \/ TO_DATA(p) \in O}

fields_in(S, R) == \A a \in S : \A i \in fields(mem[a]) : mem[a].words[i] \in R
cells_in(I, R)  == \A i \in I : cell_word(extra[i]) \in R
roots_in(R)     == stack \in Seq(R) /\ statics \in Seq(R) /\ cells_in(DOMAIN extra, R)

Marked   == {a \in DOMAIN mem : mem[a].marked}
Enqueued == {a \in DOMAIN mem : mem[a].enqueued}
Visited  == Marked \cup Enqueued

-------------------------------------------------------------------------------
(* The heap and its registered cells *)

boundary(x) == x \in DOMAIN mem \/ x = heap.current

Typed ==
  /\ ClientTypeOK
  /\ heap.begin \in Bases
  /\ \A i, j \in DOMAIN extra : extra[i] = extra[j] => i = j
  /\ \A a \in DOMAIN mem : mem[a].type = "STRING" => Len(mem[a].words) = mem[a].len
  /\ pc \notin {"mark_queue", "mark_fields"} => Enqueued = {}

-------------------------------------------------------------------------------
(* The words in each phase *)

\* While the program runs and in mark_phase, nothing dangles.
Clean == gc_idle \/ marking =>
  /\ roots_in(references(DOMAIN mem))
  /\ fields_in(DOMAIN mem, references(DOMAIN mem))
  /\ gc_idle => Marked = {}

\* mark(): what has been scanned points at visited objects; the slots of the
\* queue so far hold each of the objects visited in this call at most once.
MarkingRoots == pc = "mark_roots" =>
  /\ gc.idx >= 1
  /\ \A i \in 1 .. gc.idx - 1 : i <= root_count => root(i) \in references(Marked)
  /\ fields_in(Marked, references(Marked))

Queue == pc \in {"mark_queue", "mark_fields"} =>
  /\ boundary(gc.head) /\ boundary(gc.tail) /\ gc.head <= gc.tail
  /\ \A a \in DOMAIN mem : a < gc.tail => TO_DATA(queued(a)) \in Visited
  /\ \A a, b \in DOMAIN mem : a < gc.tail /\ b < gc.tail /\ queued(a) = queued(b) => a = b
  /\ {TO_DATA(queued(a)) : a \in queue_slots} = Enqueued
  /\ Marked \cap Enqueued = {}
  /\ gc.idx \in 1 .. root_count
  /\ \A i \in 1 .. gc.idx : root(i) \in references(Visited)

Traced ==
  /\ pc = "mark_queue" => fields_in(Marked, references(Visited))
  /\ pc = "mark_fields" =>
       /\ gc.obj \in Marked
       /\ fields_in(Marked \ {gc.obj}, references(Visited))
       /\ gc.fld >= first_field(mem[gc.obj].type, mem[gc.obj].len)
       /\ \A i \in fields(mem[gc.obj]) :
            i < gc.fld => mem[gc.obj].words[i] \in references(Visited)

\* Nothing is visited but what the roots reach: it lies in every set of objects
\* that holds the targets of the roots and the targets of its own fields.
holds_reachable(C) == /\ root_targets \cap DOMAIN mem \subseteq C
                      /\ \A a \in C : field_targets(a) \cap DOMAIN mem \subseteq C
Reached == marking \/ pc = "compute_locations" =>
  \A C \in SUBSET DOMAIN mem : holds_reachable(C) => Visited \subseteq C

\* compute_locations: what is followed is marked.
Closed == pc = "compute_locations" =>
  /\ roots_in(references(Marked))
  /\ fields_in(Marked, references(Marked))

\* update_references: old addresses turn into destinations.
old_places   == {a - heap.begin + gc.old.begin : a \in Marked}
destinations == {moved_to(a) : a \in to_move}
old_references == references(old_places)
new_references == references(destinations)

Moved == pc \in {"update_references", "fix_extra_roots"} =>
  /\ gc.old.begin \in Bases
  /\ gc.old.current = gc.old.begin + (heap.current - heap.begin)
  /\ statics \in Seq(old_references)

UpdatingObjects == pc = "update_references" =>
  /\ boundary(gc.it)
  /\ stack \in Seq(old_references) /\ cells_in(DOMAIN extra, old_references)
  /\ fields_in({a \in Marked : a >= gc.it}, old_references)
  /\ fields_in({a \in Marked : a < gc.it}, new_references)

FixingRoots == pc = "fix_extra_roots" =>
  /\ gc.idx >= 1
  /\ fields_in(Marked, new_references)
  /\ stack \in Seq(new_references)
  /\ cells_in({i \in DOMAIN extra : i < gc.idx}, new_references)
  /\ cells_in({i \in DOMAIN extra : i >= gc.idx /\ extra[i][1] = "local"}, old_references)

\* physically_relocate: the objects that lie at their destinations already.
landed == {a \in DOMAIN mem : /\ a < heap.begin + gc.live
                              /\ \A b \in to_move : a < moved_to(b)}
Relocated == pc = "physically_relocate" =>
  /\ roots_in(references(landed \cup destinations))
  /\ fields_in(landed \cup to_move, references(landed \cup destinations))
  /\ landed \cap Marked = {}

Soundness ==
  /\ Typed /\ Clean
  /\ MarkingRoots /\ Queue /\ Traced /\ Closed
  /\ Moved /\ UpdatingObjects /\ FixingRoots /\ Relocated
===============================================================================
