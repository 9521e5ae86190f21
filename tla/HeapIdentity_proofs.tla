------------------------- MODULE HeapIdentity_proofs -------------------------
(***************************************************************************)
(* Every step of the collector preserves the inductive invariant Identity  *)
(* of module HeapIdentity: a collection keeps the objects that the roots   *)
(* reach, their contents and their order, wherever it moves them.          *)
(***************************************************************************)
EXTENDS HeapIdentity, HeapSoundness_proofs

-------------------------------------------------------------------------------
(* Order: the objects of a heap by their ranks *)

below(S, a)   == {b \in S : b <= a}
rank(S, a)    == Cardinality(below(S, a))
at_rank(S, n) == CHOOSE a \in S : rank(S, a) = n
order(m, S)   == [n \in 1 .. Cardinality(S) |-> m[at_rank(S, n)].id]

LEMMA OrderOf == ASSUME NEW S PROVE ids_in_order(S) = order(mem, S)
BY DEF ids_in_order, order, at_rank, rank, below

\* Each rank is that of one element.
LEMMA Ranks ==
  ASSUME NEW S \in SUBSET Nat, IsFiniteSet(S), NEW n \in 1 .. Cardinality(S)
  PROVE  \E a \in S : rank(S, a) = n /\ \A b \in S : rank(S, b) = n => b = a
<1> PICK c \in Nat : c = Cardinality(S)
  BY FS_CardinalityType
<1> DEFINE r == [a \in S |-> rank(S, a)]
<1>1. ASSUME NEW a \in S PROVE rank(S, a) \in 1 .. c
  <2>1. below(S, a) \in SUBSET S /\ a \in below(S, a)
    BY DEF below
  <2>2. IsFiniteSet(below(S, a)) /\ Cardinality(below(S, a)) <= c
    BY <2>1, FS_Subset
  <2>3. Cardinality(below(S, a)) \in Nat
    BY <2>2, FS_CardinalityType
  <2>4. Cardinality(below(S, a)) # 0
    BY <2>1, <2>2, FS_EmptySet
  <2> QED BY <2>2, <2>3, <2>4 DEF rank
<1>2. ASSUME NEW a \in S, NEW b \in S, a < b PROVE rank(S, a) # rank(S, b)
  <2>1. below(S, b) \in SUBSET S /\ below(S, a) \in SUBSET below(S, b)
        /\ b \in below(S, b) /\ b \notin below(S, a)
    <3>1. a \in Nat /\ b \in Nat /\ \A x \in S : x \in Nat
      OBVIOUS
    <3>2. \A x \in S : x <= a => x <= b
      BY <1>2, <3>1
    <3>3. ~(b <= a) /\ b <= b
      BY <1>2, <3>1
    <3> QED BY <3>2, <3>3 DEF below
  <2>2. IsFiniteSet(below(S, b))
    BY <2>1, FS_Subset
  <2>3. Cardinality(below(S, a)) = Cardinality(below(S, b)) => below(S, b) = below(S, a)
    BY <2>1, <2>2, FS_Subset
  <2> QED BY <2>1, <2>3 DEF rank
<1>3. ASSUME NEW a \in S, NEW b \in S, rank(S, a) = rank(S, b) PROVE a = b
  BY <1>2, <1>3
<1>4. r \in Injection(S, 1 .. c)
  BY <1>1, <1>3 DEF Injection, IsInjective
<1>5. IsFiniteSet(1 .. c) /\ Cardinality(1 .. c) = c
  BY FS_Interval
<1>6. r \in Surjection(S, 1 .. c)
  BY <1>4, <1>5, FS_Injection
<1>7. PICK a \in S : r[a] = n
  BY <1>6 DEF Surjection
<1> QED BY <1>3, <1>7

\* A monotonic renaming of the addresses that keeps the ids keeps their order.
LEMMA OrderKept ==
  ASSUME NEW S \in SUBSET Nat, IsFiniteSet(S), NEW T \in SUBSET Nat, NEW f \in [S -> T],
         \A a, b \in S : a < b => f[a] < f[b], \A t \in T : \E a \in S : f[a] = t,
         NEW m, NEW k, \A a \in S : k[f[a]].id = m[a].id
  PROVE  order(m, S) = order(k, T)
<1>1. \A a, b \in S : a \in Nat /\ b \in Nat /\ f[a] \in Nat /\ (f[a] <= f[b] <=> a <= b)
  <2> TAKE a, b \in S
  <2>1. a \in Nat /\ b \in Nat /\ f[a] \in Nat /\ f[b] \in Nat
    OBVIOUS
  <2>2. (a < b => f[a] < f[b]) /\ (b < a => f[b] < f[a])
    OBVIOUS
  <2> QED BY ONLY <2>1, <2>2
<1>2. f \in Bijection(S, T)
  <2>1. \A a, b \in S : f[a] = f[b] => a = b
    BY <1>1
  <2> QED BY <2>1 DEF Bijection, Injection, Surjection, IsInjective
<1>3. IsFiniteSet(T) /\ Cardinality(T) = Cardinality(S)
  BY <1>2, FS_Bijection DEF ExistsBijection
<1>4. ASSUME NEW a \in S PROVE rank(T, f[a]) = rank(S, a)
  <2> DEFINE g == [b \in below(S, a) |-> f[b]]
  <2>1. \A b \in below(S, a) : b \in S /\ f[b] \in below(T, f[a])
    BY <1>1 DEF below
  <2>2. ASSUME NEW t \in below(T, f[a]) PROVE \E b \in below(S, a) : f[b] = t
    BY <1>1 DEF below
  <2>3. \A b, c \in below(S, a) : f[b] = f[c] => b = c
    BY <1>2 DEF Bijection, Injection, IsInjective, below
  <2>5. g \in Bijection(below(S, a), below(T, f[a]))
    BY <2>1, <2>2, <2>3 DEF Bijection, Injection, Surjection, IsInjective
  <2>4. IsFiniteSet(below(S, a))
    BY FS_Subset DEF below
  <2> QED BY <2>4, <2>5, FS_Bijection DEF ExistsBijection, rank
<1>5. ASSUME NEW n \in 1 .. Cardinality(S) PROVE m[at_rank(S, n)].id = k[at_rank(T, n)].id
  <2>1. PICK a \in S : rank(S, a) = n /\ \A b \in S : rank(S, b) = n => b = a
    BY Ranks
  <2>2. at_rank(S, n) = a
    BY <2>1 DEF at_rank
  <2>3. rank(T, f[a]) = n /\ f[a] \in T /\ \A t \in T : rank(T, t) = n => t = f[a]
    BY <1>4, <2>1
  <2>4. at_rank(T, n) = f[a]
    BY <2>3 DEF at_rank
  <2> QED BY <2>2, <2>4
<1> QED BY <1>3, <1>5 DEF order

-------------------------------------------------------------------------------
(* The graph before anything moves *)

\* The abstract value of a word is its value under the names of the objects.
LEMMA NowValue ==
  ASSUME Places, heap.begin \in Bases, NEW p \in references(DOMAIN mem)
  PROVE  abs_word(p) = value(names_now, p)
<1>1. p \in Nat /\ (is_valid_heap_pointer(p) => TO_DATA(p) \in DOMAIN mem)
      /\ (~is_valid_heap_pointer(p) => outside(p))
  BY Pointers DEF references
<1>2. is_valid_heap_pointer(p) => ~outside(p)
  BY <1>1 DEF is_valid_heap_pointer, outside, Places
<1> QED BY <1>1, <1>2 DEF abs_word, value, names_now, is_object, object_at

\* An object by its id.
LEMMA ObjectOf ==
  ASSUME NEW S, distinct(S), NEW a \in S PROVE (CHOOSE b \in S : mem[b].id = mem[a].id) = a
BY DEF distinct

LEMMA NowGraph ==
  distinct(DOMAIN mem) /\ live_objects \subseteq DOMAIN mem =>
    /\ now_graph = [d \in {mem[a].id : a \in live_objects} |-> now_graph[d]]
    /\ \A a \in live_objects : now_graph[mem[a].id] = abs_object(mem[a])
<1> SUFFICES ASSUME distinct(DOMAIN mem), live_objects \subseteq DOMAIN mem
             PROVE  /\ now_graph = [d \in {mem[a].id : a \in live_objects} |-> now_graph[d]]
                    /\ \A a \in live_objects : now_graph[mem[a].id] = abs_object(mem[a])
  OBVIOUS
<1>1. now_graph = [d \in {mem[a].id : a \in live_objects} |-> now_graph[d]]
  BY DEF now_graph
<1>2. ASSUME NEW a \in live_objects PROVE now_graph[mem[a].id] = abs_object(mem[a])
  <2>1. now_graph[mem[a].id] = abs_object(mem[CHOOSE b \in DOMAIN mem : mem[b].id = mem[a].id])
    BY DEF now_graph
  <2> QED BY <2>1, ObjectOf
<1> QED BY <1>1, <1>2

same_ids(m, k) == \A a \in DOMAIN m : k[a].id = m[a].id

LEMMA LeastHolds ==
  IsFiniteSet(DOMAIN mem) =>
    /\ live_objects \in SUBSET DOMAIN mem /\ holds_reachable(live_objects)
    /\ \A C \in SUBSET DOMAIN mem : holds_reachable(C) => live_objects \subseteq C
BY LiveIsLeast

\* What marking and the computing of locations write is not in the dump.
LEMMA SameView ==
  ASSUME heap' = heap, same_roots, objects(mem), same_words(mem, mem'), same_ids(mem, mem'),
         distinct(DOMAIN mem), IsFiniteSet(DOMAIN mem), DOMAIN mem \subseteq Nat
  PROVE  /\ now_roots' = now_roots /\ now_graph' = now_graph /\ live_objects' = live_objects
         /\ ids_in_order(live_objects)' = ids_in_order(live_objects)
<1>1. DOMAIN mem' = DOMAIN mem /\ \A a \in DOMAIN mem : /\ mem'[a].type = mem[a].type
                                                        /\ mem'[a].len = mem[a].len
                                                        /\ mem'[a].words = mem[a].words
                                                        /\ mem'[a].id = mem[a].id
                                                        /\ fields(mem'[a]) = fields(mem[a])
  BY FieldsStay DEF same_words, same_ids
<1>2. ASSUME NEW p PROVE abs_word(p)' = abs_word(p)
  BY <1>1 DEF abs_word, is_valid_heap_pointer, is_object, object_at
<1>3. now_roots' = now_roots
  <2>1. \A c : cell_word(c)' = cell_word(c)
    BY DEF cell_word, same_roots
  <2>2. /\ [i \in DOMAIN statics |-> abs_word(statics[i])]' = [i \in DOMAIN statics |-> abs_word(statics[i])]
        /\ [i \in DOMAIN stack |-> abs_word(stack[i])]' = [i \in DOMAIN stack |-> abs_word(stack[i])]
        /\ [i \in DOMAIN extra |-> abs_word(cell_word(extra[i]))]'
             = [i \in DOMAIN extra |-> abs_word(cell_word(extra[i]))]
    BY <1>2, <2>1 DEF same_roots
  <2> QED BY <2>2 DEF now_roots
<1>4. live_objects' = live_objects /\ live_objects \subseteq DOMAIN mem
  <2>1. /\ live_objects \in SUBSET DOMAIN mem /\ holds_reachable(live_objects)
        /\ \A C \in SUBSET DOMAIN mem : holds_reachable(C) => live_objects \subseteq C
    BY LiveIsLeast
  <2>2. /\ live_objects' \in SUBSET DOMAIN mem' /\ holds_reachable(live_objects)'
        /\ \A C \in SUBSET DOMAIN mem' : holds_reachable(C)' => live_objects' \subseteq C
    <3>2. IsFiniteSet(DOMAIN mem)'
      BY <1>1
    <3>3. (/\ live_objects \in SUBSET DOMAIN mem /\ holds_reachable(live_objects)
           /\ \A C \in SUBSET DOMAIN mem : holds_reachable(C) => live_objects \subseteq C)'
      BY <3>2, LeastHolds, PTL
    <3> QED BY <3>3
  <2>3. \A C \in SUBSET DOMAIN mem : holds_reachable(C)' <=> holds_reachable(C)
    BY TargetsStay
  <2> QED BY <1>1, <2>1, <2>2, <2>3
<1>5. ASSUME NEW a PROVE abs_object(mem[a])' = abs_object(mem[a]) \/ a \notin DOMAIN mem
  <2> SUFFICES ASSUME a \in DOMAIN mem PROVE abs_object(mem[a])' = abs_object(mem[a])
    OBVIOUS
  <2>1. abs_words(mem[a])' = abs_words(mem[a])
    BY <1>1, <1>2 DEF abs_words
  <2> QED BY <1>1, <2>1 DEF abs_object
<1>6. now_graph' = now_graph
  <2>1. distinct(DOMAIN mem)' /\ (live_objects \subseteq DOMAIN mem)'
    BY <1>1, <1>4 DEF distinct
  <2>2. /\ now_graph = [d \in {mem[a].id : a \in live_objects} |-> now_graph[d]]
        /\ \A a \in live_objects : now_graph[mem[a].id] = abs_object(mem[a])
    BY <1>4, NowGraph
  <2>3. (/\ now_graph = [d \in {mem[a].id : a \in live_objects} |-> now_graph[d]]
         /\ \A a \in live_objects : now_graph[mem[a].id] = abs_object(mem[a]))'
    BY <2>1, NowGraph, PTL
  <2>4. {mem[a].id : a \in live_objects}' = {mem[a].id : a \in live_objects}
    BY <1>1, <1>4
  <2>5. \A a \in live_objects : now_graph'[mem[a].id] = now_graph[mem[a].id]
    BY <1>1, <1>4, <1>5, <2>2, <2>3
  <2>6. now_graph' = [d \in {mem[a].id : a \in live_objects} |-> now_graph'[d]]
    BY <2>3, <2>4
  <2> QED BY <2>2, <2>5, <2>6
<1>7. order(mem', live_objects) = order(mem, live_objects)
  <2> DEFINE f == [a \in live_objects |-> a]
  <2>1. live_objects \in SUBSET Nat /\ IsFiniteSet(live_objects)
    BY <1>4, FS_Subset
  <2>2. /\ f \in [live_objects -> live_objects]
        /\ \A a, b \in live_objects : a < b => f[a] < f[b]
        /\ \A t \in live_objects : \E a \in live_objects : f[a] = t
        /\ \A a \in live_objects : mem'[f[a]].id = mem[a].id
    BY <1>1, <1>4
  <2> HIDE DEF f
  <2> QED BY <2>1, <2>2, OrderKept
<1>8. ids_in_order(live_objects)' = order(mem', live_objects)
  BY <1>4 DEF ids_in_order, order, at_rank, rank, below
<1> QED BY <1>3, <1>4, <1>6, <1>7, <1>8, OrderOf

LEMMA FiniteHeap == ASSUME Places PROVE IsFiniteSet(DOMAIN mem) /\ DOMAIN mem \subseteq Nat
<1>1. DOMAIN mem \in SUBSET Nat /\ heap.current \in Nat /\ \A a \in DOMAIN mem : a <= heap.current
  BY DEF Places
<1> QED BY ONLY <1>1, FS_BoundedSetOfNaturals

-------------------------------------------------------------------------------
(* mark_phase and compute_locations change no word, no id and no root *)

\* What the collector writes into headers.
same_contents(o, q) == q.id = o.id /\ q.type = o.type /\ q.len = o.len /\ q.words = o.words

LEMMA HeaderOnly ==
  ASSUME NEW o \in Object, NEW v
  PROVE  /\ same_contents(o, o) /\ same_contents(o, dequeued(o))
         /\ same_contents(o, [o EXCEPT !.forward = v])
         /\ same_contents(o, [o EXCEPT !.enqueued = TRUE])
         /\ same_contents(o, [[o EXCEPT !.forward = v] EXCEPT !.enqueued = TRUE])
BY DEF same_contents, dequeued, Object

LEMMA EnqueueKeeps ==
  ASSUME objects(mem), NEW slot, NEW p, mem' = enqueue(slot, p)
  PROVE  DOMAIN mem' = DOMAIN mem /\ \A a \in DOMAIN mem : same_contents(mem[a], mem'[a])
<1> PICK t : t = TO_DATA(p) OBVIOUS
<1> PICK m : m = [mem EXCEPT ![slot].forward = p] OBVIOUS
<1>1. DOMAIN m = DOMAIN mem
      /\ \A a \in DOMAIN mem : m[a] = IF a = slot THEN [mem[a] EXCEPT !.forward = p] ELSE mem[a]
  OBVIOUS
<1>2. mem' = [m EXCEPT ![t].enqueued = TRUE]
  BY DEF enqueue
<1>3. DOMAIN mem' = DOMAIN m
      /\ \A a \in DOMAIN m : mem'[a] = IF a = t THEN [m[a] EXCEPT !.enqueued = TRUE] ELSE m[a]
  BY <1>2
<1>4. ASSUME NEW a \in DOMAIN mem PROVE same_contents(mem[a], mem'[a])
  <2>1. mem[a] \in Object
    BY DEF objects
  <2>2. mem'[a] \in {mem[a], [mem[a] EXCEPT !.forward = p], [mem[a] EXCEPT !.enqueued = TRUE],
                     [[mem[a] EXCEPT !.forward = p] EXCEPT !.enqueued = TRUE]}
    BY <1>1, <1>3
  <2>3. /\ same_contents(mem[a], mem[a]) /\ same_contents(mem[a], [mem[a] EXCEPT !.forward = p])
        /\ same_contents(mem[a], [mem[a] EXCEPT !.enqueued = TRUE])
        /\ same_contents(mem[a], [[mem[a] EXCEPT !.forward = p] EXCEPT !.enqueued = TRUE])
    BY <2>1, HeaderOnly
  <2> QED BY ONLY <2>2, <2>3
<1> QED BY <1>1, <1>3, <1>4

LEMMA MarkView ==
  ASSUME Structure, Soundness, Mark \/ compute_location, UNCHANGED <<cur_id, dump>>
  PROVE  /\ heap' = heap /\ same_roots /\ dump' = dump /\ cur_id' = cur_id /\ Places
         /\ same_words(mem, mem') /\ same_ids(mem, mem') /\ objects(mem)
         /\ (marking \/ pc = "compute_locations") /\ (marking \/ pc = "compute_locations")'
<1>1. /\ heap' = heap /\ same_roots /\ (marking \/ pc = "compute_locations")
      /\ (marking \/ pc = "compute_locations")'
  <2>1. CASE Mark
    BY <2>1 DEF Mark, mark_skip, mark_start, mark_dequeue, mark_field, mark_fields_done, mark_done,
       mark_phase_done, marking, same_roots
  <2>2. CASE compute_location
    BY <2>2 DEF compute_location, same_roots
  <2> QED BY <2>1, <2>2
<1>2. objects(mem) /\ Places /\ objects(mem')
  <2>1. Soundness'
    BY CollectorSound DEF CollectStep, Compact
  <2> QED BY <2>1, PlacesOf DEF Soundness, Typed, ClientTypeOK, objects
<1>3. DOMAIN mem' = DOMAIN mem /\ \A a \in DOMAIN mem : same_contents(mem[a], mem'[a])
  <2>1. CASE mem' = mem
    BY <1>2, <2>1, HeaderOnly DEF objects
  <2>2. CASE \E slot, p : mem' = enqueue(slot, p)
    BY <1>2, <2>2, EnqueueKeeps
  <2>3. CASE \E x : mem' = [mem EXCEPT ![x] = dequeued(mem[x])]
    <3> PICK x : mem' = [mem EXCEPT ![x] = dequeued(mem[x])]
      BY <2>3
    <3>1. DOMAIN mem' = DOMAIN mem
          /\ \A a \in DOMAIN mem : mem'[a] \in {mem[a], dequeued(mem[a])}
      OBVIOUS
    <3> QED BY <1>2, <3>1, HeaderOnly DEF objects
  <2>4. CASE \E x, v : mem' = [mem EXCEPT ![x].forward = v]
    <3> PICK x, v : mem' = [mem EXCEPT ![x].forward = v]
      BY <2>4
    <3>1. DOMAIN mem' = DOMAIN mem
          /\ \A a \in DOMAIN mem : mem'[a] \in {mem[a], [mem[a] EXCEPT !.forward = v]}
      OBVIOUS
    <3> QED BY <1>2, <3>1, HeaderOnly DEF objects
  <2>5. CASE mark_skip \/ mark_fields_done \/ mark_done \/ mark_phase_done
    BY <2>1, <2>5 DEF mark_skip, mark_fields_done, mark_done, mark_phase_done
  <2>6. CASE mark_start
    BY <2>2, <2>6 DEF mark_start
  <2>7. CASE mark_dequeue
    BY <2>3, <2>7 DEF mark_dequeue
  <2>8. CASE mark_field
    <3> PICK p : p = mem[gc.obj].words[gc.fld] OBVIOUS
    <3>1. mem' = mem \/ mem' = enqueue(gc.tail, p)
      BY <2>8 DEF mark_field
    <3> QED BY <2>1, <2>2, <3>1
  <2>9. CASE compute_location
    <3>1. mem' = mem \/ mem' = [mem EXCEPT ![gc.it].forward = gc.free]
      BY <2>9 DEF compute_location
    <3> QED BY <2>1, <2>4, <3>1
  <2> QED BY <2>5, <2>6, <2>7, <2>8, <2>9 DEF Mark
<1> QED BY <1>1, <1>2, <1>3 DEF same_words, same_ids, same_contents, objects, same_roots

LEMMA MarkIdentity ==
  ASSUME Structure, Soundness, Identity, Mark \/ compute_location, UNCHANGED <<cur_id, dump>>
  PROVE  Identity'
<1>1. /\ heap' = heap /\ same_roots /\ dump' = dump /\ cur_id' = cur_id /\ Places
      /\ same_words(mem, mem') /\ same_ids(mem, mem') /\ objects(mem) /\ DOMAIN mem' = DOMAIN mem
      /\ (marking \/ pc = "compute_locations") /\ (marking \/ pc = "compute_locations")'
  BY MarkView DEF same_words
<1>2. /\ pc \notin {"run", "failed", "alloc", "retry", "physically_relocate"}
      /\ pc' \notin {"run", "failed", "alloc", "retry", "update_references", "fix_extra_roots",
                     "physically_relocate"}
  BY <1>1 DEF marking
<1>3. distinct(DOMAIN mem) /\ \A a \in DOMAIN mem : mem[a].id <= cur_id /\ mem[a].id < cur_id
  BY <1>2 DEF Identity, Numbered, allocating
<1>4. Numbered'
  BY <1>1, <1>2, <1>3 DEF Numbered, allocating, distinct, same_ids
<1>5. Rooted'
  BY <1>1, <1>2 DEF Identity, Rooted, gc_idle, holds_refs
<1>6. Unchanged'
  <2>1. /\ now_roots' = now_roots /\ now_graph' = now_graph
        /\ ids_in_order(live_objects)' = ids_in_order(live_objects)
    BY <1>1, <1>3, FiniteHeap, SameView
  <2> QED BY <1>1, <2>1 DEF Identity, Unchanged
<1> QED BY <1>2, <1>4, <1>5, <1>6 DEF Identity, Kept, DumpsAgree, GarbageReclaimedInOrder

-------------------------------------------------------------------------------
(* The dump that gc_alloc writes *)

joined(A, B, C) == A \o B \o C

LEMMA ThreeParts ==
  ASSUME NEW V, NEW A \in Seq(V), NEW B \in Seq(V), NEW C \in Seq(V), NEW s, s = joined(A, B, C)
  PROVE  /\ \A i \in DOMAIN A : \E j \in DOMAIN s : s[j] = A[i]
         /\ \A i \in DOMAIN B : \E j \in DOMAIN s : s[j] = B[i]
         /\ \A i \in DOMAIN C : \E j \in DOMAIN s : s[j] = C[i]
<1> PICK x \in Nat, y \in Nat, z \in Nat : x = Len(A) /\ y = Len(B) /\ z = Len(C)
  OBVIOUS
<1> PICK t : t = A \o B OBVIOUS
<1> USE DEF joined
<1>1. t \in Seq(V) /\ Len(t) = x + y /\ s = t \o C
      /\ \A i \in 1 .. x + y : t[i] = IF i <= x THEN A[i] ELSE B[i - x]
  OBVIOUS
<1>2. Len(s) = x + y + z /\ s \in Seq(V) /\ DOMAIN s = 1 .. x + y + z
      /\ \A i \in 1 .. x + y + z : s[i] = IF i <= x + y THEN t[i] ELSE C[i - (x + y)]
  BY <1>1
<1>3. ASSUME NEW i \in DOMAIN A PROVE \E j \in DOMAIN s : s[j] = A[i]
  <2>1. i \in 1 .. x
    OBVIOUS
  <2>2. i \in 1 .. x + y + z /\ i <= x + y /\ i \in 1 .. x + y /\ i <= x
    BY <2>1
  <2> QED BY <1>1, <1>2, <2>2
<1>4. ASSUME NEW i \in DOMAIN B PROVE \E j \in DOMAIN s : s[j] = B[i]
  <2>1. i \in 1 .. y
    OBVIOUS
  <2> PICK j \in Int : j = x + i
    BY <2>1
  <2>2. j \in 1 .. x + y + z /\ j <= x + y /\ j \in 1 .. x + y /\ ~(j <= x) /\ j - x = i
    BY <2>1
  <2> QED BY <1>1, <1>2, <2>2
<1>5. ASSUME NEW i \in DOMAIN C PROVE \E j \in DOMAIN s : s[j] = C[i]
  <2>1. i \in 1 .. z
    OBVIOUS
  <2> PICK j \in Int : j = x + y + i
    BY <2>1
  <2>2. j \in 1 .. x + y + z /\ ~(j <= x + y) /\ j - (x + y) = i
    BY <2>1
  <2> QED BY <1>2, <2>2
<1> QED BY <1>3, <1>4, <1>5

\* The value of every root is in the dump of the roots.
LEMMA RootValues ==
  ASSUME stack \in Seq(Nat), statics \in Seq(Nat), extra \in Seq(Cell),
         \A i \in DOMAIN extra : cell_word(extra[i]) \in Nat, NEW i \in 1 .. root_count
  PROVE  root(i) \in Nat /\ \E j \in DOMAIN now_roots : now_roots[j] = abs_word(root(i))
<1> PICK V : V = {abs_word(p) : p \in Nat} OBVIOUS
<1> PICK A : A = [k \in DOMAIN statics |-> abs_word(statics[k])] OBVIOUS
<1> PICK B : B = [k \in DOMAIN stack |-> abs_word(stack[k])] OBVIOUS
<1> PICK C : C = [k \in DOMAIN extra |-> abs_word(cell_word(extra[k]))] OBVIOUS
<1> DEFINE R == {p \in Nat : \E j \in DOMAIN now_roots : now_roots[j] = abs_word(p)}
<1>1. /\ Len(statics) \in Nat /\ DOMAIN statics = 1 .. Len(statics)
      /\ Len(stack) \in Nat /\ DOMAIN stack = 1 .. Len(stack)
      /\ Len(extra) \in Nat /\ DOMAIN extra = 1 .. Len(extra)
      /\ \A k \in DOMAIN statics : statics[k] \in Nat
      /\ \A k \in DOMAIN stack : stack[k] \in Nat
  OBVIOUS
<1>2. A \in Seq(V) /\ B \in Seq(V) /\ C \in Seq(V)
  <2>1. /\ \A k \in 1 .. Len(statics) : A[k] \in V
        /\ \A k \in 1 .. Len(stack) : B[k] \in V
        /\ \A k \in 1 .. Len(extra) : C[k] \in V
    BY <1>1
  <2>2. /\ A = [k \in 1 .. Len(statics) |-> A[k]] /\ B = [k \in 1 .. Len(stack) |-> B[k]]
        /\ C = [k \in 1 .. Len(extra) |-> C[k]]
    BY <1>1
  <2> QED BY ONLY <1>1, <2>1, <2>2, FunctionIsSeq
<1>3. now_roots = joined(A, B, C)
  BY DEF now_roots, joined
<1>4. /\ \A k \in DOMAIN A : \E j \in DOMAIN now_roots : now_roots[j] = A[k]
      /\ \A k \in DOMAIN B : \E j \in DOMAIN now_roots : now_roots[j] = B[k]
      /\ \A k \in DOMAIN C : \E j \in DOMAIN now_roots : now_roots[j] = C[k]
  <2> PICK s : s = now_roots OBVIOUS
  <2>1. s = joined(A, B, C)
    BY <1>3
  <2>2. /\ \A k \in DOMAIN A : \E j \in DOMAIN s : s[j] = A[k]
        /\ \A k \in DOMAIN B : \E j \in DOMAIN s : s[j] = B[k]
        /\ \A k \in DOMAIN C : \E j \in DOMAIN s : s[j] = C[k]
    BY ONLY <1>2, <2>1, ThreeParts
  <2> QED BY <2>2
<1>5. /\ \A k \in DOMAIN statics : statics[k] \in R
      /\ \A k \in DOMAIN stack : stack[k] \in R
      /\ \A k \in DOMAIN extra : cell_word(extra[k]) \in R
  BY <1>1, <1>4
<1>6. roots_in(R)
  <2> HIDE DEF R
  <2>1. stack \in Seq(R) /\ statics \in Seq(R)
    BY <1>1, <1>5, SeqOf
  <2> QED BY <1>5, <2>1 DEF roots_in, cells_in
<1>7. root(i) \in R
  <2> HIDE DEF R
  <2> QED BY <1>6, RootsIn
<1> QED BY <1>7

\* The ids that the values vs refer to are those of the objects they point at.
LEMMA RefsOf ==
  ASSUME NEW vs, NEW j \in DOMAIN vs, NEW d, vs[j] = <<"ref", d>> PROVE d \in refs_of(vs)
<1>1. j \in {k \in DOMAIN vs : vs[k][1] = "ref"} /\ vs[j][2] = d
  OBVIOUS
<1> QED BY <1>1 DEF refs_of

\* The dump is rooted, as live_objects is the least set that holds what the
\* roots reach.
LEMMA LiveIsRooted ==
  ASSUME Places, Typed, Clean, gc_idle, distinct(DOMAIN mem),
         NEW D \in SUBSET DOMAIN now_graph,
         refs_of(now_roots) \cap DOMAIN now_graph \subseteq D,
         \A d \in D : refs_of(now_graph[d].words) \cap DOMAIN now_graph \subseteq D
  PROVE  D = DOMAIN now_graph
<1> PICK L : L = live_objects OBVIOUS
<1> PICK C : C = {a \in L : mem[a].id \in D} OBVIOUS
<1>1. /\ objects(mem) /\ heap.begin \in Bases /\ stack \in Seq(Nat) /\ statics \in Seq(Nat)
      /\ extra \in Seq(Cell) /\ roots_in(references(DOMAIN mem))
      /\ fields_in(DOMAIN mem, references(DOMAIN mem))
  BY DEF Typed, ClientTypeOK, objects, Word, Clean
<1>2. /\ L \subseteq DOMAIN mem /\ holds_reachable(L)
      /\ \A S \in SUBSET DOMAIN mem : holds_reachable(S) => L \subseteq S
  BY FiniteHeap, LiveIsLeast
<1>3. /\ DOMAIN now_graph = {mem[a].id : a \in L}
      /\ \A a \in L : now_graph[mem[a].id] = abs_object(mem[a])
  <2>1. /\ now_graph = [d \in {mem[a].id : a \in L} |-> now_graph[d]]
        /\ \A a \in L : now_graph[mem[a].id] = abs_object(mem[a])
    BY <1>2, NowGraph
  <2> QED BY <2>1
<1>4. \A p : is_valid_heap_pointer(p) /\ TO_DATA(p) \in DOMAIN mem
               => abs_word(p) = <<"ref", mem[TO_DATA(p)].id>>
  BY DEF abs_word, is_object, object_at
<1>5. ASSUME NEW t \in root_targets \cap DOMAIN mem PROVE t \in C
  <2>1. PICK i \in 1 .. root_count : is_valid_heap_pointer(root(i)) /\ TO_DATA(root(i)) = t
    BY DEF root_targets, targets
  <2>2. \A k \in DOMAIN extra : cell_word(extra[k]) \in Nat
    BY <1>1 DEF roots_in, cells_in, references
  <2>3. PICK j \in DOMAIN now_roots : now_roots[j] = <<"ref", mem[t].id>>
    BY <1>1, <1>4, <2>1, <2>2, RootValues
  <2>4. mem[t].id \in refs_of(now_roots)
    BY <2>3, RefsOf
  <2>5. t \in L
    BY <1>2 DEF holds_reachable
  <2> QED BY <1>3, <2>4, <2>5
<1>6. ASSUME NEW a \in C, NEW t \in field_targets(a) \cap DOMAIN mem PROVE t \in C
  <2>1. a \in L /\ a \in DOMAIN mem /\ mem[a].id \in D /\ mem[a] \in Object
    BY <1>1, <1>2 DEF objects
  <2>2. PICK i \in fields(mem[a]) :
          is_valid_heap_pointer(mem[a].words[i]) /\ TO_DATA(mem[a].words[i]) = t
    BY DEF field_targets, targets
  <2>3. i \in DOMAIN mem[a].words
    BY <2>1, FieldsAreWords
  <2>4. now_graph[mem[a].id].words = abs_words(mem[a])
    <3>1. now_graph[mem[a].id] = abs_object(mem[a])
      BY <1>3, <2>1
    <3>2. abs_object(mem[a]).words = abs_words(mem[a])
      BY DEF abs_object
    <3> QED BY <3>1, <3>2
  <2>5. i \in DOMAIN abs_words(mem[a]) /\ abs_words(mem[a])[i] = <<"ref", mem[t].id>>
    BY <1>4, <2>2, <2>3 DEF abs_words
  <2>6. mem[t].id \in refs_of(now_graph[mem[a].id].words)
    BY <2>4, <2>5, RefsOf
  <2>7. t \in L
    BY <1>2, <2>1 DEF holds_reachable
  <2> QED BY <1>3, <2>1, <2>6, <2>7
<1>7. L \subseteq C
  <2>1. C \in SUBSET DOMAIN mem /\ holds_reachable(C)
    BY <1>2, <1>5, <1>6 DEF holds_reachable
  <2> QED BY <1>2, <2>1
<1> QED BY <1>3, <1>7

LEMMA GcAllocIdentity ==
  ASSUME Structure, Soundness, Identity, gc_alloc_dump PROVE Identity'
<1>1. /\ pc = "alloc" /\ pc' = "mark_roots" /\ heap' = heap /\ mem' = mem /\ same_roots /\ gc_idle
      /\ dump' = [roots |-> now_roots, graph |-> now_graph, order |-> ids_in_order(live_objects)]
  BY DEF gc_alloc_dump, gc_alloc, same_roots, gc_idle
<1>2. Places /\ Typed /\ Clean /\ objects(mem)
  BY PlacesOf DEF Soundness, Typed, ClientTypeOK, objects
<1>3. distinct(DOMAIN mem) /\ \A a \in DOMAIN mem : mem[a].id < cur_id /\ mem[a].id <= cur_id
  BY <1>1 DEF Identity, Numbered, allocating
<1>4. /\ dump'.roots = now_roots /\ dump'.graph = now_graph
      /\ dump'.order = ids_in_order(live_objects)
  BY <1>1
<1>5. Numbered'
  BY <1>1, <1>3 DEF Numbered, distinct, same_roots
<1>6. Rooted'
  <2> SUFFICES ASSUME NEW D \in SUBSET DOMAIN now_graph,
                      refs_of(now_roots) \cap DOMAIN now_graph \subseteq D,
                      \A d \in D : refs_of(now_graph[d].words) \cap DOMAIN now_graph \subseteq D
               PROVE  D = DOMAIN now_graph
    BY <1>4 DEF Rooted, holds_refs
  <2> QED BY <1>1, <1>2, <1>3, LiveIsRooted
<1>7. Unchanged'
  <2>1. same_words(mem, mem') /\ same_ids(mem, mem')
    BY <1>1, <1>2, SameWordsRefl DEF same_ids
  <2>2. /\ now_roots' = now_roots /\ now_graph' = now_graph
        /\ ids_in_order(live_objects)' = ids_in_order(live_objects)
    BY <1>1, <1>2, <1>3, <2>1, FiniteHeap, SameView
  <2> QED BY <1>4, <2>2 DEF Unchanged
<1> QED BY <1>1, <1>5, <1>6, <1>7 DEF Identity, Kept, DumpsAgree, GarbageReclaimedInOrder

-------------------------------------------------------------------------------
(* mremap *)

\* Where an object lies after mremap.
LEMMA MremapShift ==
  ASSUME Structure, Soundness, mremap
  PROVE  \E d \in Int :
           /\ heap'.begin = heap.begin + d /\ heap'.begin \in Bases
           /\ gc'.it = heap'.begin /\ gc'.old.begin = heap.begin
           /\ \A y \in DOMAIN mem' : y \in Nat /\ y - d \in DOMAIN mem /\ mem'[y] = mem[y - d]
                                     /\ heap'.begin <= y
           /\ \A x \in DOMAIN mem : x \in Nat /\ x + d \in DOMAIN mem' /\ mem'[x + d] = mem[x]
<1> PICK begin : begin = heap.begin OBVIOUS
<1> PICK live : live = gc.free - heap.begin OBVIOUS
<1> PICK size2 : size2 = next_heap_size(req.size) OBVIOUS
<1>1. Places /\ heap.begin \in Bases
  BY PlacesOf DEF Soundness, Typed
<1>2. PICK b \in Bases :
        /\ heap' = [begin |-> b, size |-> size2, current |-> b + (heap.current - begin)]
        /\ mem' = [a \in {x + (b - begin) : x \in DOMAIN mem} |-> mem[a - (b - begin)]]
        /\ gc' = [no_locals EXCEPT !.it = b, !.live = live,
                     !.old = [begin |-> begin, current |-> heap.current]]
  <2>1. PICK b \in (IF size2 = heap.size THEN {begin} ELSE Bases) :
        /\ heap' = [begin |-> b, size |-> next_heap_size(req.size),
                    current |-> b + (heap.current - heap.begin)]
        /\ mem' = [a \in {x + (b - heap.begin) : x \in DOMAIN mem} |->
                     mem[a - (b - heap.begin)]]
        /\ gc' = [no_locals EXCEPT !.it = b, !.live = gc.free - heap.begin,
                     !.old = [begin |-> heap.begin, current |-> heap.current]]
    BY DEF mremap
  <2>2. b \in Bases
    BY <1>1, <2>1
  <2> QED BY <2>1, <2>2
<1> PICK d : d = b - begin OBVIOUS
<1>3. begin \in Nat /\ b \in Nat /\ d \in Int /\ heap'.begin = b /\ b = begin + d
  BY <1>1, <1>2, BasesAssumption DEF Places
<1>4. gc'.it = b /\ gc'.old.begin = begin
  BY ONLY <1>2 DEF no_locals
<1>5. /\ \A y \in DOMAIN mem' : y \in Nat /\ y - d \in DOMAIN mem /\ mem'[y] = mem[y - d]
                                /\ b <= y
      /\ \A x \in DOMAIN mem : x \in Nat /\ x + d \in DOMAIN mem' /\ mem'[x + d] = mem[x]
  BY <1>1, <1>2, <1>3 DEF Places
<1> QED BY <1>2, <1>3, <1>4, <1>5

LEMMA SameDescription ==
  ASSUME NEW o \in Object, NEW N, \A i \in fields(o) : abs_word(o.words[i]) = value(N, o.words[i])
  PROVE  abs_object(o) = described(N, o)
<1>1. abs_words(o) = [i \in DOMAIN o.words |-> IF i \in fields(o) THEN value(N, o.words[i])
                                                                 ELSE <<"word", o.words[i]>>]
  BY DEF abs_words
<1> QED BY <1>1 DEF abs_object, described

LEMMA MremapIdentity ==
  ASSUME Structure, Soundness, Identity, Reached, mremap, UNCHANGED <<cur_id, dump>>
  PROVE  Identity'
<1> PICK begin : begin = heap.begin OBVIOUS
<1>1. /\ pc = "compute_locations" /\ pc' = "update_references" /\ same_roots /\ dump' = dump
  BY DEF mremap, same_roots
<1>2. PICK d \in Int :
        /\ heap'.begin = begin + d /\ gc'.it = heap'.begin /\ gc'.old.begin = begin
        /\ \A y \in DOMAIN mem' : y \in Nat /\ y - d \in DOMAIN mem /\ mem'[y] = mem[y - d]
                                  /\ heap'.begin <= y
        /\ \A x \in DOMAIN mem : x \in Nat /\ x + d \in DOMAIN mem' /\ mem'[x + d] = mem[x]
  BY MremapShift
<1>3. /\ Places /\ objects(mem) /\ heap.begin \in Bases /\ begin \in Nat
      /\ roots_in(references(Marked)) /\ fields_in(Marked, references(Marked))
      /\ Marked \subseteq DOMAIN mem /\ Marked \subseteq Nat
  BY <1>1, PlacesOf DEF Soundness, Typed, ClientTypeOK, objects, Closed, Marked, Places
<1>4. Marked = live_objects
  BY <1>1, MarkedIsLive DEF MarkedAreReachable, Marked
<1>5. distinct(DOMAIN mem) /\ \A a \in DOMAIN mem : mem[a].id <= cur_id /\ mem[a].id < cur_id
  BY <1>1 DEF Identity, Numbered, allocating
<1>6. /\ dump.graph = [i \in {mem[a].id : a \in Marked} |-> dump.graph[i]]
      /\ \A a \in Marked : dump.graph[mem[a].id] = abs_object(mem[a])
      /\ now_roots = dump.roots /\ order(mem, Marked) = dump.order
  <2>1. now_graph = dump.graph /\ now_roots = dump.roots /\ ids_in_order(live_objects) = dump.order
    BY <1>1 DEF Identity, Unchanged
  <2> QED BY <1>3, <1>4, <1>5, <2>1, NowGraph, OrderOf
<1>7. /\ Marked' = {y \in DOMAIN mem' : y - d \in Marked} /\ survivors' = Marked'
  <2>1. Marked' = {y \in DOMAIN mem' : y - d \in Marked}
    BY <1>2 DEF Marked
  <2>2. to_move' = Marked'
    BY <1>1 DEF to_move, Marked
  <2> QED BY <1>1, <2>1, <2>2 DEF survivors, arrived
<1>8. /\ \A y \in Marked' : y \in Nat /\ y - d \in Marked /\ mem'[y] = mem[y - d]
      /\ \A x \in Marked : x \in Nat /\ x + d \in Marked' /\ mem'[x + d] = mem[x]
  <2>1. \A x \in Marked : x \in Nat /\ x + d \in DOMAIN mem' /\ (x + d) - d = x /\ mem'[x + d] = mem[x]
    BY <1>2, <1>3
  <2> QED BY <1>2, <1>7, <2>1
<1> PICK N : N = [x \in Marked |-> mem[x].id] OBVIOUS
<1>9. old_names' = N
  <2>1. \A x : after_mremap(x)' = begin + d + (x - begin)
    BY <1>2 DEF after_mremap
  <2>2. old_places' = {a - (begin + d) + begin : a \in Marked'}
    BY <1>2 DEF old_places
  <2>3. \A a \in Marked' : a - (begin + d) + begin = a - d
    BY <1>3, <1>8
  <2>4. \A x \in Marked : (x + d) - d = x
    BY <1>8
  <2>5. old_places' = Marked
    BY <1>8, <2>2, <2>3, <2>4
  <2>6. \A x \in Marked : after_mremap(x)' = x + d
    BY <1>3, <1>8, <2>1
  <2>7. old_names' = [x \in old_places' |-> mem'[after_mremap(x)'].id]
    BY DEF old_names
  <2> QED BY <1>8, <2>5, <2>6, <2>7
<1>10. ASSUME NEW p \in references(Marked) PROVE value(N, p)' = abs_word(p)
  <2>1. p \in references(DOMAIN mem)
    BY <1>3, ReferencesGrow
  <2>2. abs_word(p) = value(names_now, p)
    BY <1>3, <2>1, NowValue
  <2>3. outside(p) \/ TO_DATA(p) \in Marked
    BY DEF references
  <2> QED BY <1>3, <2>2, <2>3 DEF value, names_now, outside
<1>11. Numbered'
  <2>1. distinct(DOMAIN mem)'
    <3>1. ASSUME NEW a \in DOMAIN mem', NEW b \in DOMAIN mem', mem'[a].id = mem'[b].id PROVE a = b
      <4>1. a - d = b - d
        BY <1>2, <1>5, <3>1 DEF distinct
      <4> QED BY <1>2, <4>1
    <3> QED BY <3>1 DEF distinct
  <2>2. \A a \in DOMAIN mem' : mem'[a].id <= cur_id /\ mem'[a].id < cur_id
    BY <1>2, <1>5
  <2> QED BY <2>1, <2>2, <1>1 DEF Numbered, same_roots
<1>12. Rooted'
  BY <1>1 DEF Identity, Rooted, gc_idle, holds_refs
<1>13. same_objects(survivors)'
  <2>1. distinct(Marked)'
    BY <1>7, <1>1, <1>11 DEF Numbered, distinct
  <2>2. {mem[a].id : a \in Marked}' = {mem[a].id : a \in Marked}
    BY <1>8
  <2>3. order(mem', Marked') = order(mem, Marked)
    <3> DEFINE f == [x \in Marked |-> x + d]
    <3>1. f \in [Marked -> Marked'] /\ \A x \in Marked : mem'[f[x]].id = mem[x].id
      BY <1>8
    <3>2. \A a, b \in Marked : a < b => f[a] < f[b]
      BY <1>8
    <3>3. ASSUME NEW t \in Marked' PROVE \E a \in Marked : f[a] = t
      <4>1. t \in Nat /\ t - d \in Marked /\ (t - d) + d = t
        BY <1>8
      <4> QED BY <4>1
    <3>4. Marked \in SUBSET Nat /\ IsFiniteSet(Marked) /\ Marked' \in SUBSET Nat
      BY <1>3, <1>8, FiniteHeap, FS_Subset
    <3> HIDE DEF f
    <3> QED BY <3>1, <3>2, <3>3, <3>4, OrderKept
  <2>4. ids_in_order(survivors)' = order(mem', Marked')
    BY <1>7 DEF ids_in_order, order, at_rank, rank, below
  <2> QED BY <1>1, <1>6, <1>7, <2>1, <2>2, <2>3, <2>4 DEF same_objects
<1>14. \A a : ~object_fixed(a)' \/ a \notin survivors'
  <2> SUFFICES ASSUME NEW a \in survivors' PROVE ~object_fixed(a)'
    OBVIOUS
  <2>1. a \in Nat /\ begin + d \in Int /\ begin + d <= a /\ gc'.it = begin + d
    BY <1>2, <1>3, <1>7
  <2>2. ~(a < gc'.it)
    BY ONLY <2>1
  <2> QED BY <1>1, <2>2 DEF object_fixed
<1>15. ASSUME NEW a \in survivors'
       PROVE  dump.graph[mem'[a].id] = described(names(object_fixed(a)), mem[a])'
  <2> PICK x \in Marked : x = a - d
    BY <1>7, <1>8
  <2>1. mem'[a] = mem[x] /\ mem[x] \in Object
    BY <1>3, <1>7, <1>8 DEF objects
  <2>2. \A i \in fields(mem[x]) : abs_word(mem[x].words[i]) = value(N, mem[x].words[i])
    <3>1. \A p : value(N, p)' = value(N, p)
      BY DEF value, outside
    <3> QED BY <1>3, <1>10, <3>1 DEF fields_in
  <2>3. abs_object(mem[x]) = described(N, mem[x])
    BY <2>1, <2>2, SameDescription
  <2>4. names(object_fixed(a))' = N
    BY <1>9, <1>14 DEF names
  <2>5. described(names(object_fixed(a)), mem[a])' = described(N, mem[x])
    BY <2>1, <2>4 DEF described, value, fields, outside
  <2> QED BY <1>6, <2>1, <2>3, <2>5
<1>16. dump.roots = (values(names(statics_fixed), statics)
                       \o values(names(stack_fixed), stack)
                       \o [i \in DOMAIN extra |-> value(names(cell_fixed(i)), cell_word(extra[i]))])'
  <2>1. /\ names(statics_fixed)' = N /\ names(stack_fixed)' = N
        /\ \A i : names(cell_fixed(i))' = N
    BY <1>1, <1>9 DEF names, statics_fixed, stack_fixed, cell_fixed
  <2>2. \A p \in references(Marked) : value(N, p) = abs_word(p)
    BY <1>10 DEF value, outside
  <2>3. values(names(statics_fixed), statics)' = [i \in DOMAIN statics |-> abs_word(statics[i])]
    BY <1>1, <1>3, <2>1, <2>2 DEF values, value, outside, same_roots, roots_in
  <2>4. values(names(stack_fixed), stack)' = [i \in DOMAIN stack |-> abs_word(stack[i])]
    BY <1>1, <1>3, <2>1, <2>2 DEF values, value, outside, same_roots, roots_in
  <2>5. [i \in DOMAIN extra |-> value(names(cell_fixed(i)), cell_word(extra[i]))]'
          = [i \in DOMAIN extra |-> abs_word(cell_word(extra[i]))]
    <3>1. \A c : cell_word(c)' = cell_word(c)
      BY <1>1 DEF cell_word, same_roots
    <3> QED BY <1>1, <1>3, <2>1, <2>2, <3>1 DEF value, outside, same_roots, roots_in, cells_in
  <2> QED BY <1>6, <2>3, <2>4, <2>5 DEF now_roots
<1>17. Kept'
  BY <1>1, <1>13, <1>15, <1>16 DEF Kept
<1> QED BY <1>1, <1>11, <1>12, <1>17 DEF Identity, Unchanged, marking, DumpsAgree,
       GarbageReclaimedInOrder

-------------------------------------------------------------------------------
(* update_references: the destinations as names *)

\* The destinations of the marked objects, in one chain of whole words.
LEMMA Chained ==
  ASSUME Structure, Soundness, updating
  PROVE  /\ heap.begin \in Nat /\ heap.begin \in Bases /\ heap.current \in Nat
         /\ (heap.begin + gc.live) % 4 = 0
         /\ \A a \in Marked : /\ a \in Nat /\ a <= heap.current
                              /\ moved_to(a) \in Nat /\ heap.begin <= moved_to(a)
                              /\ size_of(mem[a]) \in Nat /\ size_of(mem[a]) > 0
                              /\ size(a) = 4 * size_of(mem[a])
         /\ \A a, b \in Marked : a < b => moved_to(a) + size(a) <= moved_to(b)
         /\ \A a \in Marked : \/ moved_to(a) + size(a) = heap.begin + gc.live
                              \/ \E b \in Marked : moved_to(b) = moved_to(a) + size(a)
<1>1. /\ Places /\ to_move = Marked /\ heap.begin \in Bases /\ Shapes
      /\ \A a \in Marked : a \in DOMAIN mem /\ a \in Nat /\ moved_to(a) \in Nat
      /\ Decided /\ chain(to_move, heap.begin, heap.begin + gc.live)
  BY UpdatingFacts DEF Typed, Structure, Updating, updating
<1>2. (heap.begin + gc.live) % 4 = 0
  <2>1. heap.begin \in Nat /\ heap.begin % 4 = 0 /\ gc.live \in Nat /\ gc.live % 4 = 0
    BY <1>1, BasesAssumption DEF Decided, WORD_BYTES
  <2> QED BY ONLY <2>1
<1>3. \A a \in Marked : size_of(mem[a]) \in Nat /\ size_of(mem[a]) > 0 /\ size(a) = 4 * size_of(mem[a])
  BY <1>1, SizeOf DEF Shapes, size, WORDS_TO_BYTES, WORD_BYTES
<1> QED BY <1>1, <1>2, <1>3 DEF chain, Places

LEMMA Aligned ==
  ASSUME Structure, Soundness, updating PROVE \A a \in Marked : moved_to(a) % 4 = 0
<1> DEFINE T == {n \in Nat : \E a \in Marked : n = heap.current - a /\ moved_to(a) % 4 # 0}
<1>1. heap.current \in Nat /\ \A a \in Marked : a \in Nat /\ a <= heap.current
  BY Chained
<1> SUFFICES ASSUME T # {} PROVE FALSE
  <2> SUFFICES ASSUME NEW a \in Marked, moved_to(a) % 4 # 0 PROVE FALSE
    OBVIOUS
  <2>1. heap.current - a \in T
    BY <1>1
  <2> QED BY <2>1
<1>2. PICK n \in T : \A m \in T : ~(m < n)
  BY Smallest
<1>3. PICK a \in Marked : n = heap.current - a /\ moved_to(a) % 4 # 0
  OBVIOUS
<1>4. ASSUME NEW b \in Marked, a < b PROVE moved_to(b) % 4 = 0
  <2> SUFFICES ASSUME moved_to(b) % 4 # 0 PROVE FALSE
    OBVIOUS
  <2>1. heap.current - b \in T /\ heap.current - b < n
    BY <1>1, <1>3, <1>4
  <2> QED BY <1>2, <2>1
<1> PICK k, v, top : k = size_of(mem[a]) /\ v = moved_to(a) /\ top = heap.begin + gc.live
  OBVIOUS
<1>5. k \in Nat /\ v \in Nat /\ top % 4 = 0 /\ size(a) = 4 * k /\ k > 0
  BY Chained
<1>6. v + 4 * k = top \/ \E b \in Marked : moved_to(b) = v + 4 * k
  BY <1>5, Chained
<1>7. CASE v + 4 * k = top
  BY ONLY <1>3, <1>5, <1>7, v = moved_to(a)
<1>8. CASE \E b \in Marked : moved_to(b) = v + 4 * k
  <2> PICK b \in Marked : moved_to(b) = v + 4 * k
    BY <1>8
  <2>1. ~(b < a) /\ b # a
    <3>1. b < a => moved_to(b) + size(b) <= moved_to(a)
      BY Chained
    <3>2. size(b) \in Nat
      BY Chained
    <3> QED BY <1>5, <3>1, <3>2
  <2>2. a < b
    BY <1>1, <2>1
  <2>3. (v + 4 * k) % 4 = 0
    BY <1>4, <2>2
  <2> QED BY ONLY <1>3, <1>5, <2>3, v = moved_to(a)
<1> QED BY <1>6, <1>7, <1>8

LEMMA OwnDestinations ==
  ASSUME Structure, Soundness, updating, NEW a \in Marked, NEW b \in Marked,
         moved_to(a) = moved_to(b)
  PROVE  a = b
<1>1. ASSUME NEW c \in Marked, NEW d \in Marked, c < d PROVE moved_to(c) # moved_to(d)
  BY <1>1, Chained
<1> QED BY <1>1, Chained

\* An object by its destination.
LEMMA NewNames ==
  Structure /\ Soundness /\ updating =>
    /\ survivors = Marked /\ DOMAIN new_names = destinations
    /\ new_names = [x \in destinations |-> new_names[x]]
    /\ \A a \in Marked : new_names[moved_to(a)] = mem[a].id
<1> SUFFICES ASSUME Structure, Soundness, updating
             PROVE  /\ survivors = Marked /\ DOMAIN new_names = destinations
                    /\ new_names = [x \in destinations |-> new_names[x]]
                    /\ \A a \in Marked : new_names[moved_to(a)] = mem[a].id
  OBVIOUS
<1>1. to_move = Marked /\ arrived = {} /\ survivors = Marked /\ \A a : place(a) = moved_to(a)
  BY UpdatingFacts DEF arrived, survivors, place, updating
<1>2. destinations = {place(a) : a \in survivors}
  BY <1>1 DEF destinations
<1>3. ASSUME NEW a \in Marked, NEW b \in Marked, moved_to(a) = moved_to(b) PROVE a = b
  BY <1>3, OwnDestinations
<1>4. ASSUME NEW a \in Marked PROVE new_names[moved_to(a)] = mem[a].id
  <2>1. (CHOOSE b \in survivors : place(b) = moved_to(a)) = a
    BY <1>1, <1>3
  <2>2. moved_to(a) \in {place(b) : b \in survivors}
    BY <1>1
  <2> QED BY <2>1, <2>2 DEF new_names
<1> QED BY <1>1, <1>2, <1>4 DEF new_names

\* A reference is given the destination of the object that it means.
LEMMA NewValue ==
  ASSUME Structure, Soundness, updating, NEW p \in old_references
  PROVE  value(new_names, new_reference(p)) = value(old_names, p)
<1>1. /\ Places /\ gc.old.begin \in Nat /\ gc.old.begin \in Bases /\ heap.begin \in Bases
      /\ gc.old.current = gc.old.begin + (heap.current - heap.begin)
      /\ \A a \in Marked : /\ a \in DOMAIN mem /\ a \in Nat
                           /\ moved_to(a) \in Nat /\ moved_to(a) = forwarded(mem[a])
                           /\ heap.begin <= moved_to(a) /\ moved_to(a) % 4 = 0
  BY UpdatingFacts, Chained, Aligned DEF Moved, updating
<1>2. p \in Nat /\ (outside(p) \/ TO_DATA(p) \in old_places)
  BY DEF old_references, references
<1>3. CASE outside(p)
  <2>1. ~in_old_heap(p)
    BY <1>1, <1>2, <1>3 DEF outside, in_old_heap
  <2> QED BY <1>3, <2>1 DEF new_reference, value
<1>4. CASE ~outside(p)
  <2>1. PICK a \in Marked : p - 8 = a - heap.begin + gc.old.begin
    BY <1>2, <1>4 DEF old_places, TO_DATA, DATA_HEADER_SZ
  <2>2. /\ a \in DOMAIN mem /\ a \in Nat /\ moved_to(a) \in Nat /\ heap.begin \in Nat
        /\ heap.begin <= a /\ a + 8 <= heap.current /\ heap.current \in Nat
        /\ heap.begin <= moved_to(a) /\ moved_to(a) % 4 = 0
    BY <1>1 DEF Places
  <2>3. in_old_heap(p)
    BY <1>1, <1>2, <1>4, <2>1, <2>2 DEF outside, in_old_heap
  <2>4. TO_DATA(after_mremap(p)) = a
    BY <1>1, <1>2, <2>1, <2>2 DEF TO_DATA, DATA_HEADER_SZ, after_mremap
  <2>5. new_reference(p) = moved_to(a) + 8
    BY <1>1, <2>3, <2>4 DEF new_reference, get_object_content_ptr, DATA_HEADER_SZ
  <2> PICK v \in Nat : v = moved_to(a)
    BY <2>2
  <2> PICK q \in Nat : q = v + 8
    OBVIOUS
  <2>6. q % 2 # 1 /\ ~(q < heap.begin) /\ q - 8 = v
    BY ONLY <2>2, v = moved_to(a), q = v + 8, v \in Nat
  <2>7. ~outside(q) /\ TO_DATA(q) = moved_to(a)
    BY <1>1, <2>6 DEF outside, UNBOXED, TO_DATA, DATA_HEADER_SZ
  <2>8. value(new_names, q) = <<"ref", mem[a].id>>
    <3>1. moved_to(a) \in DOMAIN new_names /\ new_names[moved_to(a)] = mem[a].id
      BY NewNames, UpdatingFacts DEF destinations
    <3> QED BY <2>7, <3>1 DEF value
  <2>9. value(old_names, p) = <<"ref", mem[a].id>>
    <3> PICK x : x = TO_DATA(p) OBVIOUS
    <3>1. x \in old_places
      BY <1>2, <1>4
    <3>2. after_mremap(x) = a
      BY <1>1, <1>2, <2>1, <2>2 DEF TO_DATA, DATA_HEADER_SZ, after_mremap
    <3>3. x \in DOMAIN old_names /\ old_names[x] = mem[a].id
      BY <3>1, <3>2 DEF old_names
    <3> QED BY <1>4, <3>3 DEF value
  <2> QED BY <2>5, <2>8, <2>9
<1> QED BY <1>3, <1>4

LEMMA SameOrder ==
  ASSUME NEW S \in SUBSET Nat, IsFiniteSet(S), NEW m, NEW k, \A a \in S : k[a].id = m[a].id
  PROVE  order(k, S) = order(m, S)
<1> DEFINE f == [a \in S |-> a]
<1>1. /\ f \in [S -> S] /\ \A a, b \in S : a < b => f[a] < f[b]
      /\ \A t \in S : \E a \in S : f[a] = t
      /\ \A a \in S : k[f[a]].id = m[a].id
  OBVIOUS
<1> HIDE DEF f
<1> QED BY <1>1, OrderKept

\* Fixing words changes neither the names nor the objects that are kept.
LEMMA UpdatingKeeps ==
  ASSUME Structure, Soundness, Identity, updating, heap' = heap, gc'.old = gc.old,
         dump' = dump, cur_id' = cur_id, DOMAIN mem' = DOMAIN mem,
         \A a \in DOMAIN mem : /\ mem'[a].id = mem[a].id /\ mem'[a].marked = mem[a].marked
                               /\ mem'[a].forward = mem[a].forward,
         pc' \in {"update_references", "fix_extra_roots", "physically_relocate"},
         arrived' = {}, to_move' = Marked
  PROVE  /\ Kept /\ survivors = Marked /\ survivors' = Marked /\ Marked \subseteq DOMAIN mem
         /\ old_names' = old_names /\ new_names' = new_names
         /\ same_objects(survivors)' /\ Numbered' /\ Rooted'
<1>1. Places /\ survivors = Marked /\ survivors' = Marked /\ Marked \subseteq DOMAIN mem
  BY UpdatingFacts, NewNames DEF survivors, Marked
<1>2. Marked' = Marked
  BY DEF Marked
<1>3. \A x : after_mremap(x)' = after_mremap(x)
  BY DEF after_mremap
<1>4. old_names' = old_names
  <2>1. old_places' = old_places
    BY <1>2 DEF old_places
  <2>2. ASSUME NEW x \in old_places PROVE after_mremap(x) \in DOMAIN mem
    <3>1. PICK a \in Marked : x = a - heap.begin + gc.old.begin
      BY <2>2 DEF old_places
    <3>2. a \in DOMAIN mem /\ a \in Nat /\ heap.begin \in Nat /\ gc.old.begin \in Nat
      BY UpdatingFacts DEF Places
    <3> QED BY <3>1, <3>2 DEF after_mremap
  <2> QED BY <1>3, <2>1, <2>2 DEF old_names
<1>5. new_names' = new_names
  <2>1. \A a \in Marked : moved_to(a)' = moved_to(a)
    BY <1>1, <1>3 DEF moved_to, forwarded, updating
  <2>2. \A a \in Marked : place(a)' = moved_to(a) /\ place(a) = moved_to(a)
    BY <2>1 DEF place, arrived, updating
  <2>3. ASSUME NEW a \in Marked PROVE new_names'[moved_to(a)] = mem[a].id
    <3>1. \A b \in Marked : moved_to(b) = moved_to(a) => b = a
      BY OwnDestinations
    <3>2. (CHOOSE b \in survivors' : place(b)' = moved_to(a)) = a
      BY <1>1, <2>2, <3>1
    <3>3. moved_to(a) \in {place(b) : b \in survivors}'
      BY <1>1, <2>2
    <3> QED BY <1>1, <3>2, <3>3 DEF new_names
  <2>4. DOMAIN new_names' = destinations /\ new_names' = [x \in DOMAIN new_names' |-> new_names'[x]]
    <3>1. {place(b) : b \in survivors}' = {moved_to(b) : b \in Marked}
      BY <1>1, <2>2
    <3>2. destinations = {moved_to(b) : b \in Marked}
      BY UpdatingFacts DEF destinations
    <3> QED BY <3>1, <3>2 DEF new_names
  <2>5. /\ DOMAIN new_names = destinations /\ new_names = [x \in destinations |-> new_names[x]]
        /\ \A a \in Marked : new_names[moved_to(a)] = mem[a].id
    BY NewNames
  <2>6. \A x \in destinations : \E a \in Marked : x = moved_to(a)
    BY UpdatingFacts DEF destinations
  <2>7. ASSUME NEW x \in destinations PROVE new_names'[x] = new_names[x]
    BY <2>3, <2>5, <2>6
  <2>8. new_names' = [x \in destinations |-> new_names'[x]]
    BY <2>4
  <2>9. [x \in destinations |-> new_names'[x]] = [x \in destinations |-> new_names[x]]
    BY <2>7
  <2> QED BY <2>5, <2>8, <2>9
<1>6. Kept /\ same_objects(Marked)
  BY <1>1 DEF Identity, Kept, updating
<1>7. same_objects(survivors)'
  <2>1. distinct(Marked)'
    BY <1>1, <1>2, <1>6 DEF same_objects, distinct
  <2>2. {mem[a].id : a \in Marked}' = {mem[a].id : a \in Marked}
    BY <1>1, <1>2
  <2>3. ids_in_order(Marked)' = order(mem', Marked)
    BY <1>2 DEF ids_in_order, order, at_rank, rank, below
  <2>4. order(mem', Marked) = order(mem, Marked)
    <3>1. Marked \in SUBSET Nat /\ IsFiniteSet(Marked)
      BY <1>1, FiniteHeap, FS_Subset
    <3> QED BY <1>1, <3>1, SameOrder
  <2>5. ids_in_order(Marked) = order(mem, Marked)
    BY OrderOf
  <2>6. /\ distinct(Marked)
        /\ dump.graph = [d \in {mem[a].id : a \in Marked} |-> dump.graph[d]]
        /\ dump.order = ids_in_order(Marked)
    BY <1>6 DEF same_objects
  <2>7. same_objects(Marked)'
    BY <1>2, <2>1, <2>2, <2>3, <2>4, <2>5, <2>6 DEF same_objects
  <2> QED BY <1>1, <1>2, <2>7
<1>8. Numbered'
  BY DEF Identity, Numbered, distinct, allocating, updating
<1>9. Rooted'
  BY DEF Identity, Rooted, holds_refs, updating, gc_idle
<1> QED BY <1>1, <1>4, <1>5, <1>6, <1>7, <1>8, <1>9

\* The words of one object are given their new references.
LEMMA UpdatedObject ==
  ASSUME objects(mem), NEW it \in DOMAIN mem, it = gc.it, update_object
  PROVE  /\ DOMAIN mem' = DOMAIN mem
         /\ \A a \in DOMAIN mem : /\ mem'[a].id = mem[a].id /\ mem'[a].marked = mem[a].marked
                                  /\ mem'[a].forward = mem[a].forward
                                  /\ mem'[a].type = mem[a].type /\ mem'[a].len = mem[a].len
                                  /\ a # it \/ ~mem[it].marked => mem'[a] = mem[a]
         /\ mem[it].marked => mem'[it].words = [i \in DOMAIN mem[it].words |->
                                                 IF i \in fields(mem[it])
                                                 THEN new_reference(mem[it].words[i])
                                                 ELSE mem[it].words[i]]
<1> PICK w : w = [i \in DOMAIN mem[it].words |-> IF i \in fields(mem[it])
                                                 THEN new_reference(mem[it].words[i])
                                                 ELSE mem[it].words[i]]
  OBVIOUS
<1>1. mem' = IF mem[it].marked THEN [mem EXCEPT ![it].words = w] ELSE mem
  BY DEF update_object
<1>2. CASE ~mem[it].marked
  BY <1>1, <1>2
<1>3. CASE mem[it].marked
  <2>1. /\ DOMAIN mem' = DOMAIN mem /\ \A a \in DOMAIN mem : a # it => mem'[a] = mem[a]
        /\ mem'[it] = [mem[it] EXCEPT !.words = w]
    BY <1>1, <1>3
  <2>2. mem[it] \in Object
    BY DEF objects
  <2>3. /\ mem'[it].words = w /\ mem'[it].id = mem[it].id /\ mem'[it].marked = mem[it].marked
        /\ mem'[it].forward = mem[it].forward
        /\ mem'[it].type = mem[it].type /\ mem'[it].len = mem[it].len
    BY <2>1, <2>2 DEF Object
  <2> QED BY <1>3, <2>1, <2>3
<1> QED BY <1>2, <1>3

\* What follows from Kept while the words are being fixed.
LEMMA UpdatingIdentity ==
  ASSUME Numbered', Rooted', Kept',
         pc' \in {"update_references", "fix_extra_roots", "physically_relocate"}
  PROVE  Identity'
BY DEF Identity, Unchanged, marking, DumpsAgree, GarbageReclaimedInOrder

LEMMA UpdateObjectIdentity ==
  ASSUME Structure, Soundness, Identity, update_object, UNCHANGED <<cur_id, dump>> PROVE Identity'
<1> PICK it : it = gc.it OBVIOUS
<1>1. /\ pc = "update_references" /\ pc' = "update_references" /\ heap' = heap
      /\ same_roots /\ updating /\ updating' /\ it < heap.current
      /\ gc' = [gc EXCEPT !.it = next_obj(it)]
  BY DEF update_object, same_roots, updating
<1>2. /\ Places /\ objects(mem) /\ gc \in GcLocals /\ tiled_from(heap.begin)
      /\ UpdatingObjects /\ to_move = Marked
  BY <1>1, UpdatingFacts
<1>3. /\ it \in DOMAIN mem /\ it \in Nat /\ next_obj(it) \in Nat
      /\ \A c \in DOMAIN mem : c \in Nat /\ (c < next_obj(it) <=> c <= it)
  <2>1. it \in DOMAIN mem
    BY <1>1, <1>2 DEF UpdatingObjects, boundary, Places
  <2> QED BY <1>2, <2>1, Boundaries DEF Places
<1>4. gc'.it = next_obj(it) /\ gc'.old = gc.old
  BY ONLY <1>1, <1>2, <1>3 DEF GcLocals
<1>5. /\ DOMAIN mem' = DOMAIN mem
      /\ \A a \in DOMAIN mem : /\ mem'[a].id = mem[a].id /\ mem'[a].marked = mem[a].marked
                               /\ mem'[a].forward = mem[a].forward
                               /\ mem'[a].type = mem[a].type /\ mem'[a].len = mem[a].len
                               /\ a # it \/ ~mem[it].marked => mem'[a] = mem[a]
      /\ mem[it].marked => mem'[it].words = [i \in DOMAIN mem[it].words |->
                                               IF i \in fields(mem[it])
                                               THEN new_reference(mem[it].words[i])
                                               ELSE mem[it].words[i]]
  BY <1>2, <1>3, UpdatedObject
<1>6. arrived' = {} /\ to_move' = Marked
  BY <1>1, <1>5 DEF arrived, to_move, Marked
<1>7. /\ Kept /\ survivors = Marked /\ survivors' = Marked /\ Marked \subseteq DOMAIN mem
      /\ old_names' = old_names /\ new_names' = new_names
      /\ same_objects(survivors)' /\ Numbered' /\ Rooted'
  BY <1>1, <1>4, <1>5, <1>6, UpdatingKeeps
<1>8. /\ \A a \in Marked : dump.graph[mem[a].id] = described(names(object_fixed(a)), mem[a])
      /\ dump.roots = values(names(statics_fixed), statics)
                        \o values(names(stack_fixed), stack)
                        \o [i \in DOMAIN extra |-> value(names(cell_fixed(i)), cell_word(extra[i]))]
  BY <1>1, <1>7 DEF Kept
<1>9. ASSUME NEW a \in Marked
      PROVE  dump.graph[mem'[a].id] = described(names(object_fixed(a)), mem[a])'
  <2>1. a \in DOMAIN mem /\ a \in Nat /\ mem'[a].id = mem[a].id
    BY <1>3, <1>5, <1>7
  <2>2. object_fixed(a)' <=> a <= it
    BY <1>1, <1>3, <1>4, <2>1 DEF object_fixed
  <2>3. object_fixed(a) <=> a < it
    BY <1>1 DEF object_fixed
  <2>4. CASE a # it
    <3>1. mem'[a] = mem[a] /\ (object_fixed(a)' <=> object_fixed(a))
      BY <1>3, <1>5, <2>1, <2>2, <2>3, <2>4
    <3>2. names(object_fixed(a))' = names(object_fixed(a))
      BY <1>7, <3>1 DEF names
    <3>3. described(names(object_fixed(a)), mem[a])' = described(names(object_fixed(a)), mem[a])
      BY <3>1, <3>2 DEF described, value, fields, outside
    <3> QED BY <1>8, <2>1, <3>3
  <2>5. CASE a = it
    <3>1. names(object_fixed(a)) = old_names /\ names(object_fixed(a))' = new_names
      BY <1>3, <1>7, <2>2, <2>3, <2>5 DEF names
    <3> PICK o, q, F : o = mem[a] /\ q = mem'[a] /\ F = fields(mem[a]) OBVIOUS
    <3>2. mem[it].marked
      BY <2>5 DEF Marked
    <3>3. q.type = o.type /\ q.len = o.len
          /\ q.words = [i \in DOMAIN o.words |-> IF i \in F THEN new_reference(o.words[i]) ELSE o.words[i]]
      BY <1>5, <2>1, <2>5, <3>2
    <3>4. ASSUME NEW i \in F \cap DOMAIN o.words
          PROVE  value(new_names, new_reference(o.words[i])) = value(old_names, o.words[i])
      <4>1. o.words[i] \in old_references
        BY <1>1, <1>2, <1>3, <2>5 DEF UpdatingObjects, fields_in
      <4> QED BY <1>1, <4>1, NewValue
    <3>5. fields(q) = F /\ DOMAIN q.words = DOMAIN o.words
      <4>1. DOMAIN q.words = DOMAIN o.words
        BY <3>3
      <4>2. o.words \in Seq(Nat)
        BY <1>2, <2>1 DEF objects, Object, Word
      <4>3. Len(q.words) = Len(o.words)
        BY <3>3, <4>2
      <4> QED BY <3>3, <4>1, <4>3 DEF fields
    <3>6. described(new_names, q) = described(old_names, o)
      <4>1. [i \in DOMAIN q.words |-> IF i \in F THEN value(new_names, q.words[i]) ELSE <<"word", q.words[i]>>]
              = [i \in DOMAIN o.words |-> IF i \in F THEN value(old_names, o.words[i]) ELSE <<"word", o.words[i]>>]
        BY <3>3, <3>4
      <4> QED BY <3>3, <3>5, <4>1 DEF described
    <3>7. described(names(object_fixed(a)), mem[a])' = described(new_names, q)
      BY <3>1 DEF described, value, fields, outside
    <3> QED BY <1>8, <2>1, <3>1, <3>6, <3>7
  <2> QED BY <2>4, <2>5
<1>10. dump.roots = (values(names(statics_fixed), statics)
                       \o values(names(stack_fixed), stack)
                       \o [i \in DOMAIN extra |-> value(names(cell_fixed(i)), cell_word(extra[i]))])'
  <2>1. /\ names(statics_fixed)' = names(statics_fixed) /\ names(stack_fixed)' = names(stack_fixed)
        /\ \A i : names(cell_fixed(i))' = names(cell_fixed(i))
    BY <1>1, <1>7 DEF names, statics_fixed, stack_fixed, cell_fixed
  <2>2. \A c : cell_word(c)' = cell_word(c)
    BY <1>1 DEF cell_word, same_roots
  <2> QED BY <1>1, <1>8, <2>1, <2>2 DEF values, value, outside, same_roots
<1>11. Kept'
  BY <1>1, <1>7, <1>9, <1>10 DEF Kept
<1> QED BY <1>1, <1>7, <1>11, UpdatingIdentity

\* A region that scan_and_fix_region rewrites stands for the same values.
LEMMA FixedValues ==
  ASSUME Structure, Soundness, updating, NEW s \in Seq(old_references),
         NEW t, t = [i \in DOMAIN s |-> new_reference(s[i])]
  PROVE  values(new_names, t) = values(old_names, s)
<1>1. \A i \in DOMAIN s : s[i] \in old_references
  OBVIOUS
<1>2. \A i \in DOMAIN s : value(new_names, t[i]) = value(old_names, s[i])
  BY <1>1, NewValue
<1> QED BY <1>2 DEF values

\* What Kept says of the objects stays when their words and names do.
LEMMA ObjectsKept ==
  ASSUME mem' = mem, survivors' = survivors, dump' = dump, old_names' = old_names,
         new_names' = new_names, \A a \in survivors : object_fixed(a)' = object_fixed(a),
         \A a \in survivors : dump.graph[mem[a].id] = described(names(object_fixed(a)), mem[a])
  PROVE  (\A a \in survivors : dump.graph[mem[a].id] = described(names(object_fixed(a)), mem[a]))'
<1>1. ASSUME NEW a \in survivors
      PROVE  described(names(object_fixed(a)), mem[a])' = described(names(object_fixed(a)), mem[a])
  <2>1. names(object_fixed(a))' = names(object_fixed(a))
    BY DEF names
  <2> QED BY <2>1 DEF described, value, fields, outside
<1> QED BY <1>1

LEMMA FixStackIdentity ==
  ASSUME Structure, Soundness, Identity, fix_stack, UNCHANGED <<cur_id, dump>> PROVE Identity'
<1>1. /\ pc = "update_references" /\ pc' = "fix_extra_roots" /\ heap' = heap /\ mem' = mem
      /\ statics' = statics /\ locals' = locals /\ extra' = extra /\ gc.it >= heap.current
      /\ stack' = [i \in DOMAIN stack |-> new_reference(stack[i])]
      /\ updating /\ gc' = [gc EXCEPT !.idx = 1]
  BY DEF fix_stack, updating
<1>2. /\ Places /\ gc \in GcLocals /\ extra \in Seq(Cell) /\ UpdatingObjects
      /\ stack \in Seq(old_references) /\ statics \in Seq(old_references)
  BY <1>1, UpdatingFacts DEF UpdatingObjects, Moved, updating
<1>3. gc'.idx = 1 /\ gc'.old = gc.old
  BY ONLY <1>1, <1>2 DEF GcLocals
<1>4. arrived' = {} /\ to_move' = Marked
  BY <1>1 DEF arrived, to_move, Marked
<1>5. /\ Kept /\ survivors = Marked /\ survivors' = Marked /\ Marked \subseteq DOMAIN mem
      /\ old_names' = old_names /\ new_names' = new_names
      /\ same_objects(survivors)' /\ Numbered' /\ Rooted'
  BY <1>1, <1>3, <1>4, UpdatingKeeps
<1>6. (\A a \in survivors : dump.graph[mem[a].id] = described(names(object_fixed(a)), mem[a]))'
  <2>1. ASSUME NEW a \in survivors PROVE object_fixed(a)' = object_fixed(a)
    <3>1. a \in DOMAIN mem /\ a + 8 <= heap.current /\ a \in Nat /\ heap.current \in Nat /\ gc.it \in Nat
      <4>1. a \in DOMAIN mem /\ gc.it \in Nat /\ heap.current \in Nat
        BY <1>2, <1>5 DEF Places, GcLocals
      <4>2. a \in Nat /\ next_obj(a) \in Nat /\ a + 8 <= next_obj(a) /\ next_obj(a) <= heap.current
        BY <1>2, <4>1 DEF Places
      <4> QED BY ONLY <4>1, <4>2
    <3>2. a < gc.it
      BY ONLY <1>1, <3>1
    <3> QED BY <1>1, <3>2 DEF object_fixed
  <2>2. \A a \in survivors : dump.graph[mem[a].id] = described(names(object_fixed(a)), mem[a])
    BY <1>1, <1>5 DEF Kept
  <2> QED BY <1>1, <1>5, <2>1, <2>2, ObjectsKept
<1>7. dump.roots = values(old_names, statics) \o values(old_names, stack)
                     \o [i \in DOMAIN extra |-> value(old_names, cell_word(extra[i]))]
  <2>1. /\ names(statics_fixed) = old_names /\ names(stack_fixed) = old_names
        /\ \A i : names(cell_fixed(i)) = old_names
    BY <1>1 DEF names, statics_fixed, stack_fixed, cell_fixed
  <2> QED BY <1>1, <1>5, <2>1 DEF Kept
<1>8. values(names(statics_fixed), statics)' = values(old_names, statics)
  BY <1>1, <1>5 DEF names, statics_fixed, values, value, outside
<1>9. values(names(stack_fixed), stack)' = values(old_names, stack)
  <2>1. values(new_names, stack') = values(old_names, stack)
    BY <1>1, <1>2, FixedValues
  <2> QED BY <1>1, <1>5, <2>1 DEF names, stack_fixed, values, value, outside
<1>10. [i \in DOMAIN extra |-> value(names(cell_fixed(i)), cell_word(extra[i]))]'
         = [i \in DOMAIN extra |-> value(old_names, cell_word(extra[i]))]
  <2>1. ASSUME NEW i \in DOMAIN extra
        PROVE  value(names(cell_fixed(i)), cell_word(extra[i]))' = value(old_names, cell_word(extra[i]))
    <3>1. extra[i] \in Cell /\ ~(i < 1)
      BY <1>2
    <3>2. CASE extra[i][1] = "stack"
      <4>1. names(cell_fixed(i))' = new_names
        BY <1>1, <1>5, <3>2 DEF names, cell_fixed
      <4>2. extra[i][2] \in DOMAIN stack
        BY <3>1, <3>2 DEF Cell
      <4>3. cell_word(extra[i]) \in old_references /\ cell_word(extra[i])' = new_reference(cell_word(extra[i]))
        BY <1>1, <1>2, <3>2, <4>2 DEF cell_word
      <4>4. value(new_names, cell_word(extra[i])') = value(old_names, cell_word(extra[i]))
        BY <1>1, <4>3, NewValue
      <4> QED BY <4>1, <4>4 DEF value, outside
    <3>3. CASE extra[i][1] # "stack"
      <4>1. names(cell_fixed(i))' = old_names
        BY <1>1, <1>3, <1>5, <3>1, <3>3 DEF names, cell_fixed
      <4>2. cell_word(extra[i])' = cell_word(extra[i])
        BY <1>1, <3>3 DEF cell_word
      <4> QED BY <4>1, <4>2 DEF value, outside
    <3> QED BY <3>2, <3>3
  <2> QED BY <1>1, <2>1
<1>11. Kept'
  BY <1>1, <1>5, <1>6, <1>7, <1>8, <1>9, <1>10 DEF Kept
<1> QED BY <1>1, <1>5, <1>11, UpdatingIdentity

LEMMA FixExtraRootIdentity ==
  ASSUME Structure, Soundness, Identity, fix_extra_root, UNCHANGED <<cur_id, dump>> PROVE Identity'
<1> PICK k : k = gc.idx OBVIOUS
<1> PICK c : c = extra[k] OBVIOUS
<1>1. /\ pc = "fix_extra_roots" /\ pc' = "fix_extra_roots" /\ heap' = heap /\ mem' = mem
      /\ statics' = statics /\ extra' = extra /\ updating /\ k <= Len(extra)
      /\ gc' = [gc EXCEPT !.idx = k + 1]
  BY DEF fix_extra_root, updating
<1>2. /\ Places /\ gc \in GcLocals /\ extra \in Seq(Cell) /\ FixingRoots /\ Typed
      /\ stack \in Seq(new_references) /\ locals \in [DOMAIN locals -> Nat]
      /\ \A i, j \in DOMAIN extra : extra[i] = extra[j] => i = j
  BY <1>1, UpdatingFacts DEF FixingRoots, Typed, ClientTypeOK, Word
<1>3. k \in DOMAIN extra /\ k \in Nat /\ c \in Cell
  <2>1. k \in Nat /\ k >= 1
    BY <1>1, <1>2 DEF FixingRoots, GcLocals
  <2> QED BY <1>1, <1>2, <2>1
<1>4. gc'.idx = k + 1 /\ gc'.old = gc.old
  <2> PICK n \in Nat : n = k + 1
    BY <1>3
  <2>1. gc' = [gc EXCEPT !.idx = n] /\ gc \in GcLocals
    BY <1>1, <1>2
  <2>2. gc'.idx = n /\ gc'.old = gc.old
    BY ONLY <2>1 DEF GcLocals
  <2> QED BY <2>2
<1>5. arrived' = {} /\ to_move' = Marked
  BY <1>1 DEF arrived, to_move, Marked
<1>6. /\ Kept /\ survivors = Marked /\ survivors' = Marked /\ Marked \subseteq DOMAIN mem
      /\ old_names' = old_names /\ new_names' = new_names
      /\ same_objects(survivors)' /\ Numbered' /\ Rooted'
  BY <1>1, <1>4, <1>5, UpdatingKeeps
<1>7. (\A a \in survivors : dump.graph[mem[a].id] = described(names(object_fixed(a)), mem[a]))'
  <2>1. \A a \in survivors : object_fixed(a)' = object_fixed(a)
    BY <1>1 DEF object_fixed
  <2>2. \A a \in survivors : dump.graph[mem[a].id] = described(names(object_fixed(a)), mem[a])
    BY <1>1, <1>6 DEF Kept
  <2> QED BY <1>1, <1>6, <2>1, <2>2, ObjectsKept
<1>8. /\ names(statics_fixed)' = names(statics_fixed) /\ names(stack_fixed)' = names(stack_fixed)
  BY <1>1, <1>6 DEF names, statics_fixed, stack_fixed
<1>9. /\ stack' = stack
      /\ \/ c[1] = "stack" /\ locals' = locals
         \/ /\ c[1] = "local" /\ c = <<"local", c[2]>> /\ c[2] \in DOMAIN locals
            /\ locals' = [locals EXCEPT ![c[2]] = new_reference(locals[c[2]])]
  <2>1. CASE c[1] = "stack"
    <3>1. stack' = [stack EXCEPT ![c[2]] = stack[c[2]]] /\ locals' = locals
      BY <2>1 DEF fix_extra_root, skipped, cell_word
    <3>2. c[2] \in DOMAIN stack
      BY <1>3, <2>1 DEF Cell
    <3>3. stack' = stack
      BY <1>2, <3>1, <3>2
    <3> QED BY <2>1, <3>1, <3>3
  <2>2. CASE c[1] # "stack"
    <3>1. stack' = stack /\ locals' = [locals EXCEPT ![c[2]] = new_reference(locals[c[2]])]
      BY <2>2 DEF fix_extra_root, skipped, cell_word
    <3>2. c[1] = "local" /\ c[2] \in DOMAIN locals /\ c = <<"local", c[2]>>
      BY <1>3, <2>2 DEF Cell
    <3> QED BY <3>1, <3>2
  <2> QED BY <2>1, <2>2
<1>10. ASSUME NEW i \in DOMAIN extra
       PROVE  value(names(cell_fixed(i)), cell_word(extra[i]))'
                = value(names(cell_fixed(i)), cell_word(extra[i]))
  <2>1. extra[i] \in Cell /\ extra[i][1] \in {"stack", "local"} /\ i \in Nat
    BY <1>2 DEF Cell
  <2>2. CASE extra[i][1] = "stack"
    <3>1. names(cell_fixed(i))' = new_names /\ names(cell_fixed(i)) = new_names
      BY <1>1, <1>6, <2>2 DEF names, cell_fixed
    <3>2. cell_word(extra[i])' = cell_word(extra[i])
      BY <1>1, <1>9, <2>2 DEF cell_word
    <3> QED BY <3>1, <3>2 DEF value, outside
  <2>3. CASE extra[i][1] = "local" /\ i # k
    <3>1. cell_fixed(i)' <=> cell_fixed(i)
      <4>1. i < k + 1 <=> i < k
        BY <1>3, <2>1, <2>3
      <4> QED BY <1>1, <1>4, <4>1 DEF cell_fixed
    <3>2. names(cell_fixed(i))' = names(cell_fixed(i))
      BY <1>6, <3>1 DEF names
    <3>3. cell_word(extra[i])' = cell_word(extra[i])
      <4>1. extra[i] # c /\ extra[i] = <<"local", extra[i][2]>>
        BY <1>2, <1>3, <2>1, <2>3 DEF Cell
      <4>2. locals'[extra[i][2]] = locals[extra[i][2]]
        <5>1. CASE locals' = locals
          BY <5>1
        <5>2. CASE c = <<"local", c[2]>> /\ c[2] \in DOMAIN locals
                   /\ locals' = [locals EXCEPT ![c[2]] = new_reference(locals[c[2]])]
          <6>1. extra[i][2] # c[2] /\ extra[i][2] \in DOMAIN locals
            BY <2>1, <2>3, <4>1, <5>2 DEF Cell
          <6> QED BY <5>2, <6>1
        <5> QED BY <1>9, <5>1, <5>2
      <4> QED BY <1>1, <2>3, <4>2 DEF cell_word
    <3> QED BY <3>2, <3>3 DEF value, outside
  <2>4. CASE extra[i][1] = "local" /\ i = k
    <3>1. names(cell_fixed(i))' = new_names /\ names(cell_fixed(i)) = old_names
      BY <1>1, <1>3, <1>4, <1>6, <2>4 DEF names, cell_fixed
    <3>2. cell_word(extra[i]) \in old_references
      BY <1>1, <1>2, <1>3, <2>4 DEF FixingRoots, cells_in
    <3>3. cell_word(extra[i])' = new_reference(cell_word(extra[i]))
      <4>1. cell_word(extra[i]) = locals[c[2]] /\ cell_word(extra[i])' = locals'[c[2]]
        BY <1>1, <2>4 DEF cell_word
      <4> QED BY <1>2, <1>9, <2>4, <4>1
    <3>4. value(new_names, cell_word(extra[i])') = value(old_names, cell_word(extra[i]))
      BY <1>1, <3>2, <3>3, NewValue
    <3> QED BY <3>1, <3>4 DEF value, outside
  <2> QED BY <2>1, <2>2, <2>3, <2>4
<1>11. dump.roots = (values(names(statics_fixed), statics)
                       \o values(names(stack_fixed), stack)
                       \o [i \in DOMAIN extra |-> value(names(cell_fixed(i)), cell_word(extra[i]))])'
  <2>1. dump.roots = values(names(statics_fixed), statics)
                       \o values(names(stack_fixed), stack)
                       \o [i \in DOMAIN extra |-> value(names(cell_fixed(i)), cell_word(extra[i]))]
    BY <1>1, <1>6 DEF Kept
  <2>2. values(names(statics_fixed), statics)' = values(names(statics_fixed), statics)
        /\ values(names(stack_fixed), stack)' = values(names(stack_fixed), stack)
    BY <1>1, <1>8, <1>9 DEF values, value, outside
  <2>3. [i \in DOMAIN extra |-> value(names(cell_fixed(i)), cell_word(extra[i]))]'
          = [i \in DOMAIN extra |-> value(names(cell_fixed(i)), cell_word(extra[i]))]
    BY <1>1, <1>10
  <2> QED BY <2>1, <2>2, <2>3
<1>12. Kept'
  BY <1>1, <1>6, <1>7, <1>11 DEF Kept
<1> QED BY <1>1, <1>6, <1>12, UpdatingIdentity

LEMMA FixStaticsIdentity ==
  ASSUME Structure, Soundness, Identity, fix_statics, UNCHANGED <<cur_id, dump>> PROVE Identity'
<1>1. /\ pc = "fix_extra_roots" /\ pc' = "physically_relocate" /\ heap' = heap /\ mem' = mem
      /\ stack' = stack /\ locals' = locals /\ extra' = extra
      /\ statics' = [i \in DOMAIN statics |-> new_reference(statics[i])]
      /\ updating /\ gc.idx > Len(extra) /\ gc' = [gc EXCEPT !.idx = 0, !.it = heap.begin]
  BY DEF fix_statics, updating
<1>2. /\ Places /\ gc \in GcLocals /\ extra \in Seq(Cell) /\ to_move = Marked
      /\ statics \in Seq(old_references)
  BY <1>1, UpdatingFacts DEF Moved, updating
<1>3. gc'.it = heap.begin /\ gc'.live = gc.live /\ gc'.old = gc.old
  BY ONLY <1>1, <1>2 DEF GcLocals
<1>4. to_move' = Marked
  BY <1>1, <1>2, <1>3 DEF Marked, to_move, Places
<1>5. arrived' = {}
  <2>1. \A a : moved_to(a)' = moved_to(a)
    BY <1>1, <1>3 DEF moved_to, forwarded, after_mremap
  <2>2. heap.begin = heap.begin + gc.live \/ \E b \in Marked : moved_to(b) = heap.begin
    BY <1>1, <1>2 DEF Structure, Updating, chain
  <2>3. \A a \in DOMAIN mem : heap.begin <= a /\ a \in Nat /\ heap.begin \in Nat
    BY <1>2 DEF Places
  <2>4. landed' = {a \in DOMAIN mem : /\ a < heap.begin + gc.live
                                      /\ \A b \in Marked : a < moved_to(b)}
    BY <1>1, <1>3, <1>4, <2>1 DEF landed
  <2> QED BY <2>2, <2>3, <2>4 DEF arrived
<1>6. /\ Kept /\ survivors = Marked /\ survivors' = Marked /\ Marked \subseteq DOMAIN mem
      /\ old_names' = old_names /\ new_names' = new_names
      /\ same_objects(survivors)' /\ Numbered' /\ Rooted'
  BY <1>1, <1>3, <1>4, <1>5, UpdatingKeeps
<1>7. (\A a \in survivors : dump.graph[mem[a].id] = described(names(object_fixed(a)), mem[a]))'
  <2>1. \A a \in survivors : object_fixed(a)' = object_fixed(a)
    BY <1>1 DEF object_fixed
  <2>2. \A a \in survivors : dump.graph[mem[a].id] = described(names(object_fixed(a)), mem[a])
    BY <1>1, <1>6 DEF Kept
  <2> QED BY <1>1, <1>6, <2>1, <2>2, ObjectsKept
<1>8. dump.roots = values(old_names, statics) \o values(new_names, stack)
                     \o [i \in DOMAIN extra |-> value(new_names, cell_word(extra[i]))]
  <2>1. names(statics_fixed) = old_names /\ names(stack_fixed) = new_names
    BY <1>1 DEF names, statics_fixed, stack_fixed
  <2>2. ASSUME NEW i \in DOMAIN extra PROVE names(cell_fixed(i)) = new_names
    <3>1. i < gc.idx
      BY <1>1, <1>2 DEF GcLocals
    <3> QED BY <1>1, <3>1 DEF names, cell_fixed
  <2> QED BY <1>1, <1>6, <2>1, <2>2 DEF Kept
<1>9. values(names(statics_fixed), statics)' = values(old_names, statics)
  <2>1. values(new_names, statics') = values(old_names, statics)
    BY <1>1, <1>2, FixedValues
  <2> QED BY <1>1, <1>6, <2>1 DEF names, statics_fixed, values, value, outside
<1>10. values(names(stack_fixed), stack)' = values(new_names, stack)
  BY <1>1, <1>6 DEF names, stack_fixed, values, value, outside
<1>11. [i \in DOMAIN extra |-> value(names(cell_fixed(i)), cell_word(extra[i]))]'
         = [i \in DOMAIN extra |-> value(new_names, cell_word(extra[i]))]
  <2>1. \A i : names(cell_fixed(i))' = new_names
    BY <1>1, <1>6 DEF names, cell_fixed
  <2>2. \A d : cell_word(d)' = cell_word(d)
    BY <1>1 DEF cell_word
  <2> QED BY <1>1, <2>1, <2>2 DEF value, outside
<1>12. Kept'
  BY <1>1, <1>6, <1>7, <1>8, <1>9, <1>10, <1>11 DEF Kept
<1> QED BY <1>1, <1>6, <1>12, UpdatingIdentity

-------------------------------------------------------------------------------
(* physically_relocate *)

\* What has landed lies below the destinations of what has to move.
LEMMA Landed ==
  ASSUME Structure, Soundness, pc = "physically_relocate"
  PROVE  \E f \in Int :
           /\ landed = {a \in DOMAIN mem : a < f}
           /\ \A a \in to_move : moved_to(a) \in Int /\ f <= moved_to(a)
           /\ \A a, b \in to_move : moved_to(a) = moved_to(b) => a = b
           /\ landed \cap to_move = {} /\ survivors = landed \cup to_move
           /\ survivors \subseteq DOMAIN mem
<1> PICK top : top = heap.begin + gc.live OBVIOUS
<1>1. Places /\ Shapes /\ Relocating /\ Decided /\ Relocated
  BY PlacesOf DEF Structure, Soundness, Relocating
<1>2. PICK f \in heap.begin .. gc.it : chain(to_move, f, top)
  BY <1>1 DEF Relocating
<1>3. f \in Int /\ top \in Int /\ \A a \in DOMAIN mem : a \in Nat
  BY <1>1 DEF Places, Decided
<1>4. /\ f <= top
      /\ f = top \/ \E b \in to_move : moved_to(b) = f
      /\ \A a \in to_move : moved_to(a) \in Int /\ f <= moved_to(a)
                            /\ moved_to(a) + size(a) <= top
      /\ \A a, b \in to_move : a < b => moved_to(a) + size(a) <= moved_to(b)
  BY <1>2 DEF chain
<1>5. \A a \in to_move : a \in DOMAIN mem /\ a \in Nat /\ size(a) \in Nat /\ size(a) > 0
  <2> TAKE a \in to_move
  <2>1. a \in DOMAIN mem /\ a \in Nat /\ shaped(mem[a])
    BY <1>1, <1>3 DEF to_move, Shapes
  <2>2. size_of(mem[a]) \in Nat /\ size_of(mem[a]) > 0 /\ size(a) = 4 * size_of(mem[a])
    BY <2>1, SizeOf DEF size, WORDS_TO_BYTES, WORD_BYTES
  <2> QED BY <2>1, <2>2
<1>6. landed = {a \in DOMAIN mem : a < f}
  <2>1. ASSUME NEW a \in DOMAIN mem
        PROVE  (a < top /\ \A b \in to_move : a < moved_to(b)) <=> a < f
    <3>1. a < f => a < top /\ \A b \in to_move : a < moved_to(b)
      <4>1. a < f => a < top
        BY <1>3, <1>4
      <4>2. ASSUME a < f, NEW b \in to_move PROVE a < moved_to(b)
        BY <1>3, <1>4, <4>2
      <4> QED BY <4>1, <4>2
    <3>2. (a < top /\ \A b \in to_move : a < moved_to(b)) => a < f
      BY <1>4
    <3> QED BY <3>1, <3>2
  <2> QED BY <2>1 DEF landed
<1>7. \A a, b \in to_move : moved_to(a) = moved_to(b) => a = b
  <2>1. ASSUME NEW a \in to_move, NEW b \in to_move, a < b PROVE moved_to(a) # moved_to(b)
    BY <1>4, <1>5, <2>1
  <2>2. ASSUME NEW a \in to_move, NEW b \in to_move, moved_to(a) = moved_to(b) PROVE a = b
    BY <1>5, <2>1, <2>2
  <2> QED BY <2>2
<1>8. landed \cap to_move = {} /\ survivors = landed \cup to_move /\ survivors \subseteq DOMAIN mem
  BY <1>1 DEF Relocated, survivors, arrived, landed, to_move, Marked
<1> QED BY <1>3, <1>4, <1>6, <1>7, <1>8

LEMMA RelocatingNames ==
  Structure /\ Soundness /\ pc = "physically_relocate" =>
    /\ new_names = [x \in {place(a) : a \in survivors} |-> new_names[x]]
    /\ \A a \in survivors : new_names[place(a)] = mem[a].id
<1> SUFFICES ASSUME Structure, Soundness, pc = "physically_relocate"
             PROVE  /\ new_names = [x \in {place(a) : a \in survivors} |-> new_names[x]]
                    /\ \A a \in survivors : new_names[place(a)] = mem[a].id
  OBVIOUS
<1>1. PICK f \in Int :
           /\ landed = {a \in DOMAIN mem : a < f}
           /\ \A a \in to_move : moved_to(a) \in Int /\ f <= moved_to(a)
           /\ \A a, b \in to_move : moved_to(a) = moved_to(b) => a = b
           /\ landed \cap to_move = {} /\ survivors = landed \cup to_move
           /\ survivors \subseteq DOMAIN mem
  BY Landed
<1>2. \A a \in DOMAIN mem : a \in Nat
  BY PlacesOf DEF Places
<1>3. ASSUME NEW a \in survivors, NEW b \in survivors, place(a) = place(b) PROVE a = b
  <2>1. /\ a \in landed => place(a) = a /\ place(a) < f
        /\ a \notin landed => a \in to_move /\ place(a) = moved_to(a) /\ f <= place(a)
        /\ b \in landed => place(b) = b /\ place(b) < f
        /\ b \notin landed => b \in to_move /\ place(b) = moved_to(b) /\ f <= place(b)
        /\ place(a) \in Int
    BY <1>1, <1>2 DEF place, arrived
  <2> QED BY <1>1, <1>3, <2>1
<1>4. ASSUME NEW a \in survivors PROVE new_names[place(a)] = mem[a].id
  <2>1. (CHOOSE b \in survivors : place(b) = place(a)) = a
    BY <1>3
  <2> QED BY <2>1 DEF new_names
<1> QED BY <1>4 DEF new_names

\* The survivors keep their order, their destinations and their contents.
carries(phi, S, T) ==
  /\ phi \in [S -> T] /\ \A t \in T : \E a \in S : phi[a] = t
  /\ \A a, b \in S : a < b => phi[a] < phi[b]

LEMMA RelocateCarries ==
  ASSUME Structure, Soundness, relocate_object, cur_id' = cur_id
  PROVE  /\ \E phi : /\ carries(phi, survivors, survivors')
                     /\ \A a \in survivors : /\ place(phi[a])' = place(a)
                                             /\ same_contents(mem[a], mem'[phi[a]])
         /\ \A y \in DOMAIN mem' : \E x \in DOMAIN mem : mem'[y].id = mem[x].id
<1> PICK it : it = gc.it OBVIOUS
<1>1. /\ pc = "physically_relocate" /\ pc' = "physically_relocate" /\ heap' = heap
      /\ it < heap.current /\ gc' = [gc EXCEPT !.it = next_obj(it)]
  BY DEF relocate_object
<1>2. /\ Places /\ objects(mem) /\ gc \in GcLocals /\ Relocating
      /\ Soundness' /\ Structure'
  BY <1>1, PlacesOf, RelocateObjectSound, RelocateObject
     DEF Soundness, Structure, Typed, ClientTypeOK, objects, GcLocals
<1>3. it \in DOMAIN mem /\ next_obj(it) \in Nat
      /\ \A c \in DOMAIN mem : c \in Nat /\ (c > it => next_obj(it) <= c)
  BY <1>1, <1>2 DEF Relocating, tiled_from, Places
<1>4. gc'.it = next_obj(it) /\ gc'.old = gc.old /\ gc'.live = gc.live
  BY ONLY <1>1, <1>2, <1>3 DEF GcLocals
<1>5. PICK f0 \in Int :
           /\ landed = {a \in DOMAIN mem : a < f0}
           /\ \A a \in to_move : moved_to(a) \in Int /\ f0 <= moved_to(a)
           /\ \A a, b \in to_move : moved_to(a) = moved_to(b) => a = b
           /\ landed \cap to_move = {} /\ survivors = landed \cup to_move
           /\ survivors \subseteq DOMAIN mem
  BY <1>1, Landed
<1>6. landed' \cap to_move' = {} /\ survivors' = landed' \cup to_move'
  BY <1>1, <1>2 DEF Soundness, Relocated, survivors, arrived, to_move, Marked
<1>7. /\ \A a : place(a) = IF a \in landed THEN a ELSE moved_to(a)
      /\ \A a : place(a)' = IF a \in landed' THEN a ELSE moved_to(a)'
  BY <1>1 DEF place, arrived
<1>8. CASE ~mem[it].marked
  <2>1. mem' = mem
    BY <1>8 DEF relocate_object
  <2>2. to_move' = to_move
    BY <1>1, <1>2, <1>3, <1>4, <1>8, <2>1 DEF to_move, Places
  <2>3. ASSUME NEW a PROVE moved_to(a)' = moved_to(a)
    BY <1>1, <1>4, <2>1 DEF moved_to, forwarded, after_mremap
  <2>4. landed' = landed
    BY <1>1, <1>4, <2>1, <2>2, <2>3 DEF landed
  <2>5. survivors' = survivors /\ \A a : place(a)' = place(a)
    BY <1>5, <1>6, <1>7, <2>2, <2>3, <2>4
  <2> PICK phi : phi = [a \in survivors |-> a]
    OBVIOUS
  <2>6. carries(phi, survivors, survivors')
    BY <2>5 DEF carries
  <2>7. ASSUME NEW a \in survivors PROVE place(phi[a])' = place(a) /\ same_contents(mem[a], mem'[phi[a]])
    BY <2>1, <2>5 DEF same_contents
  <2> QED BY <2>1, <2>6, <2>7
<1>9. CASE mem[it].marked
  <2> PICK f, g : slides(it, f, g)
    BY <1>9, RelocateMoves
  <2>1. /\ f \in Int /\ g \in Int /\ f <= it /\ f < g
        /\ moved_to(it) = f /\ it \in to_move /\ mem'[f] = relocated(mem[it])
        /\ DOMAIN mem' = {a \in DOMAIN mem : next_obj(a) <= f \/ a >= g} \cup {f}
        /\ \A a \in DOMAIN mem : next_obj(a) <= f \/ a >= g => a # f /\ mem'[a] = mem[a]
        /\ to_move' = to_move \ {it}
    BY DEF slides
  <2>2. \A a \in to_move \ {it} : a \in DOMAIN mem /\ a >= g /\ moved_to(a)' = moved_to(a)
    BY DEF slides
  <2>3. /\ \A a \in to_move \ {it} : moved_to(a) \in Int /\ g <= moved_to(a)
        /\ g = heap.begin + gc.live \/ \E a \in to_move \ {it} : moved_to(a) = g
        /\ g <= heap.begin + gc.live
    BY DEF slides, chain
  <2>4. \A b \in DOMAIN mem : b \in Nat /\ (b < f => next_obj(b) <= f) /\ b + 8 <= next_obj(b)
                              /\ next_obj(b) \in Nat
    BY <1>2, <2>1 DEF slides, filled_up_to, Places
  <2>5. landed = {a \in DOMAIN mem : a < f}
    <3>1. heap.begin + gc.live \in Int
      BY <1>2 DEF GcLocals, Places
    <3> PICK top \in Int : top = heap.begin + gc.live
      BY <3>1
    <3>2. ASSUME NEW a \in DOMAIN mem PROVE (a < top /\ \A b \in to_move : a < moved_to(b)) <=> a < f
      BY <2>1, <2>3, <2>4
    <3> QED BY <3>2 DEF landed
  <2>6. landed' = landed \cup {f}
    <3>1. landed' = {a \in DOMAIN mem' : /\ a < heap.begin + gc.live
                                         /\ \A b \in to_move \ {it} : a < moved_to(b)}
      BY <1>1, <1>4, <2>1, <2>2 DEF landed
    <3>2. \A a \in DOMAIN mem' : a \in Int
      BY <2>1, <2>4
    <3>3. heap.begin + gc.live \in Int
      BY <1>2 DEF GcLocals, Places
    <3> PICK top \in Int : top = heap.begin + gc.live
      BY <3>3
    <3>4. ASSUME NEW a \in DOMAIN mem' PROVE (a < top /\ \A b \in to_move \ {it} : a < moved_to(b)) <=> a < g
      BY <2>1, <2>3, <3>2
    <3>5. landed' = {a \in DOMAIN mem' : a < g}
      BY <3>1, <3>4
    <3> QED BY <2>1, <2>4, <2>5, <3>5
  <2> PICK phi : phi = [a \in survivors |-> IF a = it THEN f ELSE a]
    OBVIOUS
  <2>7. \A a \in survivors : a \in Int /\ phi[a] = (IF a = it THEN f ELSE a)
                             /\ (a \in landed => a < f) /\ (a \notin landed => a \in to_move)
    BY <1>5, <2>4, <2>5
  <2>8. \A a \in to_move \ {it} : a > it
    <3>1. \A a \in to_move : a >= it
      BY <1>1 DEF to_move
    <3> TAKE a \in to_move \ {it}
    <3>2. a \in Int /\ it \in Int /\ a >= it /\ a # it
      BY <1>3, <1>5, <2>4, <3>1
    <3> QED BY ONLY <3>2
  <2>9. phi \in [survivors -> survivors']
    BY <1>5, <1>6, <2>1, <2>6
  <2>10. \A t \in survivors' : \E a \in survivors : phi[a] = t
    <3> TAKE t \in survivors'
    <3>1. t = f \/ t \in landed \/ t \in to_move \ {it}
      BY <1>6, <2>1, <2>6
    <3>2. CASE t = f
      BY <1>5, <2>1, <2>7, <3>2
    <3>3. CASE t \in landed \/ t \in to_move \ {it}
      <4>1. t \in survivors /\ t # it
        BY <1>5, <2>1, <3>3
      <4> QED BY <2>7, <4>1
    <3> QED BY <3>1, <3>2, <3>3
  <2>11. \A a, b \in survivors : a < b => phi[a] < phi[b]
    <3> TAKE a, b \in survivors
    <3> HAVE a < b
    <3>1. a \in Int /\ b \in Int /\ it \in Int
      BY <1>3, <2>7
    <3>2. CASE a = it
      <4>1. b # it /\ b \notin landed
        BY <2>1, <2>7, <3>1, <3>2
      <4>2. b >= g /\ b # it
        BY <2>2, <2>7, <4>1
      <4> QED BY <2>1, <2>7, <3>1, <3>2, <4>2
    <3>3. CASE b = it
      <4>1. a # it /\ ~(a > it)
        BY <3>1, <3>3
      <4>2. a \in landed
        BY <2>7, <2>8, <4>1
      <4> QED BY <2>7, <3>3, <4>1, <4>2
    <3>4. CASE a # it /\ b # it
      BY <2>7, <3>4
    <3> QED BY <3>2, <3>3, <3>4
  <2>12. ASSUME NEW a \in survivors
         PROVE  place(phi[a])' = place(a) /\ same_contents(mem[a], mem'[phi[a]])
    <3>1. CASE a = it
      <4>1. phi[a] = f /\ f \in landed' /\ it \notin landed
        BY <1>5, <2>1, <2>6, <2>7, <3>1
      <4>2. place(phi[a])' = f /\ place(a) = f
        BY <1>7, <2>1, <3>1, <4>1
      <4>3. mem[it] \in Object
        BY <1>2, <1>3 DEF objects
      <4>4. same_contents(mem[it], relocated(mem[it]))
        BY <4>3 DEF same_contents, relocated, Object
      <4> QED BY <2>1, <3>1, <4>1, <4>2, <4>4
    <3>2. CASE a \in landed
      <4>1. phi[a] = a /\ a \in landed' /\ a \in DOMAIN mem /\ a < f
        BY <1>5, <2>1, <2>6, <2>7, <3>2
      <4>2. mem'[a] = mem[a]
        BY <2>1, <2>4, <4>1
      <4> QED BY <1>7, <3>2, <4>1, <4>2 DEF same_contents
    <3>3. CASE a \in to_move \ {it}
      <4>1. phi[a] = a /\ a \in DOMAIN mem /\ a >= g /\ moved_to(a)' = moved_to(a)
        BY <2>2, <2>7, <3>3
      <4>2. mem'[a] = mem[a] /\ a \notin landed /\ a \notin landed'
        BY <1>5, <1>6, <2>1, <3>3, <4>1
      <4> QED BY <1>7, <4>1, <4>2 DEF same_contents
    <3> QED BY <2>7, <3>1, <3>2, <3>3
  <2>13. ASSUME NEW y \in DOMAIN mem' PROVE \E x \in DOMAIN mem : mem'[y].id = mem[x].id
    <3>1. CASE y = f
      <4>1. mem[it] \in Object
        BY <1>2, <1>3 DEF objects
      <4>2. mem'[y].id = mem[it].id
        BY <2>1, <3>1, <4>1 DEF relocated, Object
      <4> QED BY <1>3, <4>2
    <3>2. CASE y # f
      BY <2>1, <3>2
    <3> QED BY <3>1, <3>2
  <2>14. carries(phi, survivors, survivors')
    BY <2>9, <2>10, <2>11 DEF carries
  <2> QED BY <2>12, <2>13, <2>14
<1> QED BY <1>8, <1>9

LEMMA RelocateObjectIdentity ==
  ASSUME Structure, Soundness, Identity, relocate_object, UNCHANGED <<cur_id, dump>> PROVE Identity'
<1> PICK S, T : S = survivors /\ T = survivors' OBVIOUS
<1>1. /\ pc = "physically_relocate" /\ pc' = "physically_relocate" /\ same_roots
  BY DEF relocate_object, same_roots
<1>2. Places /\ Structure' /\ Soundness'
  BY PlacesOf, RelocateObjectSound, RelocateObject
<1>3. Places'
  BY <1>2, PlacesOf, PTL
<1>4. PICK phi : /\ carries(phi, S, T)
                 /\ \A a \in S : /\ place(phi[a])' = place(a)
                                 /\ same_contents(mem[a], mem'[phi[a]])
  BY RelocateCarries
<1>5. S \subseteq DOMAIN mem /\ T \subseteq DOMAIN mem'
  <2>1. S \subseteq DOMAIN mem
    BY <1>1, Landed
  <2>2. T \subseteq DOMAIN mem'
    BY DEF survivors, arrived, landed, to_move
  <2> QED BY <2>1, <2>2
<1>6. /\ phi \in [S -> T] /\ \A t \in T : \E a \in S : phi[a] = t
      /\ \A a, b \in S : a < b => phi[a] < phi[b]
      /\ \A a \in S : /\ mem'[phi[a]].id = mem[a].id /\ mem'[phi[a]].type = mem[a].type
                      /\ mem'[phi[a]].len = mem[a].len /\ mem'[phi[a]].words = mem[a].words
  BY <1>4 DEF carries, same_contents
<1>7. new_names' = new_names
  <2>1. /\ new_names = [x \in {place(a) : a \in S} |-> new_names[x]]
        /\ \A a \in S : new_names[place(a)] = mem[a].id
    BY <1>1, RelocatingNames
  <2>2. (/\ new_names = [x \in {place(a) : a \in survivors} |-> new_names[x]]
         /\ \A a \in survivors : new_names[place(a)] = mem[a].id)'
    <3>1. (pc = "physically_relocate")'
      BY <1>1
    <3> QED BY <1>2, <3>1, RelocatingNames, PTL
  <2>3. /\ new_names' = [x \in {place(a)' : a \in T} |-> new_names'[x]]
        /\ \A a \in T : new_names'[place(a)'] = mem'[a].id
    BY <2>2
  <2>4. {place(a)' : a \in T} = {place(a) : a \in S}
    BY <1>4, <1>6
  <2>5. ASSUME NEW a \in S PROVE new_names'[place(a)] = new_names[place(a)]
    <3>1. phi[a] \in T /\ place(phi[a])' = place(a) /\ mem'[phi[a]].id = mem[a].id
      BY <1>4, <1>6
    <3>2. new_names'[place(phi[a])'] = mem'[phi[a]].id
      BY <2>3, <3>1
    <3> QED BY <2>1, <3>1, <3>2
  <2>6. new_names' = [x \in {place(a) : a \in S} |-> new_names'[x]]
    BY <2>3, <2>4
  <2> PICK P : P = {place(a) : a \in S} OBVIOUS
  <2>7. \A x \in P : new_names'[x] = new_names[x]
    BY <2>5
  <2>8. [x \in P |-> new_names'[x]] = [x \in P |-> new_names[x]]
    BY <2>7
  <2> QED BY <2>1, <2>6, <2>8
<1>8. /\ distinct(S) /\ dump.graph = [d \in {mem[a].id : a \in S} |-> dump.graph[d]]
      /\ dump.order = ids_in_order(S)
      /\ \A a \in S : dump.graph[mem[a].id] = described(new_names, mem[a])
      /\ dump.roots = values(new_names, statics) \o values(new_names, stack)
                        \o [i \in DOMAIN extra |-> value(new_names, cell_word(extra[i]))]
  <2>1. Kept
    BY DEF Identity
  <2>2. /\ names(statics_fixed) = new_names /\ names(stack_fixed) = new_names
        /\ \A i : names(cell_fixed(i)) = new_names /\ names(object_fixed(i)) = new_names
    BY <1>1 DEF names, statics_fixed, stack_fixed, cell_fixed, object_fixed
  <2> QED BY <1>1, <2>1, <2>2 DEF Kept, same_objects
<1>9. same_objects(survivors)'
  <2>1. distinct(survivors)'
    <3>1. ASSUME NEW t \in T, NEW u \in T, mem'[t].id = mem'[u].id PROVE t = u
      <4>1. PICK a \in S, b \in S : phi[a] = t /\ phi[b] = u
        BY <1>6
      <4>2. mem[a].id = mem[b].id
        BY <1>6, <3>1, <4>1
      <4> QED BY <1>8, <4>1, <4>2 DEF distinct
    <3> QED BY <3>1 DEF distinct
  <2>2. {mem'[t].id : t \in T} = {mem[a].id : a \in S}
    BY <1>6
  <2>3. ids_in_order(survivors)' = order(mem', T)
    BY DEF ids_in_order, order, at_rank, rank, below
  <2>4. order(mem, S) = order(mem', T)
    <3>1. S \in SUBSET Nat /\ T \in SUBSET Nat /\ IsFiniteSet(S)
      <4>1. DOMAIN mem \subseteq Nat /\ DOMAIN mem' \subseteq Nat
        BY <1>2, <1>3 DEF Places
      <4> QED BY <1>2, <1>5, <4>1, FiniteHeap, FS_Subset
    <3> QED BY <1>6, <3>1, OrderKept
  <2>5. ids_in_order(S) = order(mem, S)
    BY OrderOf
  <2> QED BY <1>8, <2>1, <2>2, <2>3, <2>4, <2>5 DEF same_objects
<1>10. (\A a \in survivors : dump.graph[mem[a].id] = described(names(object_fixed(a)), mem[a]))'
  <2>1. ASSUME NEW t \in T PROVE dump.graph[mem'[t].id] = described(names(object_fixed(t)), mem[t])'
    <3>1. PICK a \in S : phi[a] = t
      BY <1>6
    <3>2. names(object_fixed(t))' = new_names
      BY <1>1, <1>7 DEF names, object_fixed
    <3>3. /\ mem'[t].id = mem[a].id /\ mem'[t].type = mem[a].type
          /\ mem'[t].len = mem[a].len /\ mem'[t].words = mem[a].words
      BY <1>6, <3>1
    <3>4. described(names(object_fixed(t)), mem[t])' = described(new_names, mem[a])
      BY <3>2, <3>3 DEF described, value, fields, outside
    <3> QED BY <1>8, <3>3, <3>4
  <2> QED BY <2>1
<1>11. dump.roots = (values(names(statics_fixed), statics)
                       \o values(names(stack_fixed), stack)
                       \o [i \in DOMAIN extra |-> value(names(cell_fixed(i)), cell_word(extra[i]))])'
  <2>1. /\ names(statics_fixed)' = new_names /\ names(stack_fixed)' = new_names
        /\ \A i : names(cell_fixed(i))' = new_names
    BY <1>1, <1>7 DEF names, statics_fixed, stack_fixed, cell_fixed
  <2>2. \A c : cell_word(c)' = cell_word(c)
    BY <1>1 DEF cell_word, same_roots
  <2> QED BY <1>1, <1>8, <2>1, <2>2 DEF values, value, outside, same_roots
<1>12. Kept'
  BY <1>1, <1>9, <1>10, <1>11 DEF Kept
<1>13. Numbered'
  <2>1. \A y \in DOMAIN mem' : \E x \in DOMAIN mem : mem'[y].id = mem[x].id
    BY RelocateCarries
  <2>2. \A x \in DOMAIN mem : mem[x].id <= cur_id /\ mem[x].id < cur_id
    BY <1>1 DEF Identity, Numbered, allocating
  <2> QED BY <1>1, <2>1, <2>2 DEF Numbered
<1>14. Rooted'
  BY <1>1 DEF Identity, Rooted, holds_refs, gc_idle
<1> QED BY <1>1, <1>12, <1>13, <1>14, UpdatingIdentity

-------------------------------------------------------------------------------
(* The end of the collection *)

LEMMA JoinedIn ==
  ASSUME NEW V, NEW A \in Seq(V), NEW B \in Seq(V), NEW C \in Seq(V)
  PROVE  joined(A, B, C) \in Seq(V)
BY DEF joined

\* What is left are the objects of the dump, and as the roots of the dump reach
\* all of them, the roots reach all of the heap.
LEMMA AllLive ==
  /\ Places /\ Typed /\ Clean /\ gc_idle /\ same_objects(DOMAIN mem)
  /\ \A a \in DOMAIN mem : dump.graph[mem[a].id] = abs_object(mem[a])
  /\ now_roots = dump.roots
  /\ \A D \in SUBSET DOMAIN dump.graph :
       /\ holds_refs(D, dump.roots) /\ \A d \in D : holds_refs(D, dump.graph[d].words)
       => D = DOMAIN dump.graph
  => DumpsAgree
<1> SUFFICES ASSUME Places, Typed, Clean, gc_idle, same_objects(DOMAIN mem),
                    \A a \in DOMAIN mem : dump.graph[mem[a].id] = abs_object(mem[a]),
                    now_roots = dump.roots,
                    \A D \in SUBSET DOMAIN dump.graph :
                      /\ holds_refs(D, dump.roots)
                      /\ \A d \in D : holds_refs(D, dump.graph[d].words)
                      => D = DOMAIN dump.graph
             PROVE  DumpsAgree
  OBVIOUS
<1> PICK L : L = live_objects OBVIOUS
<1> PICK D : D = {mem[a].id : a \in L} OBVIOUS
<1> PICK G : G = DOMAIN dump.graph OBVIOUS
<1>1. /\ objects(mem) /\ heap.begin \in Bases /\ stack \in Seq(Nat) /\ statics \in Seq(Nat)
      /\ extra \in Seq(Cell) /\ roots_in(references(DOMAIN mem))
      /\ fields_in(DOMAIN mem, references(DOMAIN mem))
  BY DEF Typed, ClientTypeOK, objects, Word, Clean
<1>2. L \subseteq DOMAIN mem /\ holds_reachable(L)
  BY FiniteHeap, LiveIsLeast
<1>3. /\ distinct(DOMAIN mem) /\ G = {mem[a].id : a \in DOMAIN mem}
      /\ dump.graph = [d \in G |-> dump.graph[d]]
  BY DEF same_objects
<1>4. \A p : is_valid_heap_pointer(p) /\ TO_DATA(p) \in DOMAIN mem
               => abs_word(p) = <<"ref", mem[TO_DATA(p)].id>>
  BY DEF abs_word, is_object, object_at
<1> PICK V : V = {v \in {abs_word(p) : p \in Nat} : v[1] = "ref" /\ v[2] \in G => v[2] \in D}
  OBVIOUS
\* A word is in V when the object that it points at is live.
<1>5. ASSUME NEW p \in Nat,
             is_valid_heap_pointer(p) /\ TO_DATA(p) \in DOMAIN mem => TO_DATA(p) \in L
      PROVE  abs_word(p) \in V
  <2>1. CASE is_valid_heap_pointer(p) /\ TO_DATA(p) \in DOMAIN mem
    BY <1>4, <1>5, <2>1
  <2>2. CASE ~(is_valid_heap_pointer(p) /\ TO_DATA(p) \in DOMAIN mem)
    <3>1. abs_word(p) = <<"word", p>>
      BY <2>2 DEF abs_word, is_object
    <3>2. abs_word(p)[1] # "ref"
      BY <3>1
    <3> QED BY <3>2
  <2> QED BY <2>1, <2>2
<1>6. holds_refs(D, dump.roots)
  <2> PICK R : R = {p \in Nat : abs_word(p) \in V} OBVIOUS
  <2>1. ASSUME NEW i \in 1 .. root_count PROVE root(i) \in R
    <3>1. \A k \in DOMAIN extra : cell_word(extra[k]) \in Nat
      BY <1>1 DEF roots_in, cells_in, references
    <3>2. root(i) \in Nat
      BY <1>1, <3>1, RootValues
    <3>3. is_valid_heap_pointer(root(i)) => TO_DATA(root(i)) \in root_targets
      BY DEF root_targets, targets
    <3> QED BY <1>2, <1>5, <3>2, <3>3 DEF holds_reachable
  <2>2. roots_in(R)
    BY <1>1, <2>1, RootsAreAll
  <2> PICK A, B, C : /\ A = [k \in DOMAIN statics |-> abs_word(statics[k])]
                     /\ B = [k \in DOMAIN stack |-> abs_word(stack[k])]
                     /\ C = [k \in DOMAIN extra |-> abs_word(cell_word(extra[k]))]
    OBVIOUS
  <2>3. /\ Len(statics) \in Nat /\ DOMAIN statics = 1 .. Len(statics)
        /\ Len(stack) \in Nat /\ DOMAIN stack = 1 .. Len(stack)
        /\ Len(extra) \in Nat /\ DOMAIN extra = 1 .. Len(extra)
    BY <1>1
  <2>4. /\ \A k \in DOMAIN statics : statics[k] \in R
        /\ \A k \in DOMAIN stack : stack[k] \in R
        /\ \A k \in DOMAIN extra : cell_word(extra[k]) \in R
    BY <2>2 DEF roots_in, cells_in
  <2>5. A \in Seq(V) /\ B \in Seq(V) /\ C \in Seq(V)
    <3>1. /\ \A k \in 1 .. Len(statics) : A[k] \in V
          /\ \A k \in 1 .. Len(stack) : B[k] \in V
          /\ \A k \in 1 .. Len(extra) : C[k] \in V
      BY <2>3, <2>4
    <3>2. /\ A = [k \in 1 .. Len(statics) |-> A[k]] /\ B = [k \in 1 .. Len(stack) |-> B[k]]
          /\ C = [k \in 1 .. Len(extra) |-> C[k]]
      BY <2>3
    <3> QED BY ONLY <2>3, <3>1, <3>2, FunctionIsSeq
  <2>6. now_roots = joined(A, B, C)
    BY DEF now_roots, joined
  <2>7. now_roots \in Seq(V)
    BY <2>5, <2>6, JoinedIn
  <2>8. \A j \in DOMAIN now_roots : now_roots[j] \in V
    BY <2>7
  <2> QED BY <2>8 DEF holds_refs, refs_of
<1>7. ASSUME NEW d \in D PROVE holds_refs(D, dump.graph[d].words)
  <2>1. PICK a \in L : mem[a].id = d
    OBVIOUS
  <2>2. a \in DOMAIN mem /\ mem[a] \in Object
    BY <1>1, <1>2 DEF objects
  <2>3. dump.graph[d].words = abs_words(mem[a])
    <3>1. dump.graph[d] = abs_object(mem[a])
      BY <2>1, <2>2
    <3>2. abs_object(mem[a]).words = abs_words(mem[a])
      BY DEF abs_object
    <3> QED BY <3>1, <3>2
  <2>4. ASSUME NEW i \in DOMAIN abs_words(mem[a]), abs_words(mem[a])[i][1] = "ref",
               abs_words(mem[a])[i][2] \in G
        PROVE  abs_words(mem[a])[i][2] \in D
    <3>1. i \in DOMAIN mem[a].words
      BY DEF abs_words
    <3>2. CASE i \notin fields(mem[a])
      <4>1. abs_words(mem[a])[i] = <<"word", mem[a].words[i]>>
        BY <3>1, <3>2 DEF abs_words
      <4> QED BY <2>4, <4>1
    <3>3. CASE i \in fields(mem[a])
      <4> PICK p : p = mem[a].words[i] OBVIOUS
      <4>1. abs_words(mem[a])[i] = abs_word(p)
        BY <3>1, <3>3 DEF abs_words
      <4>2. p \in Nat
        BY <1>1, <2>2, <3>3 DEF fields_in, references
      <4>3. is_valid_heap_pointer(p) => TO_DATA(p) \in field_targets(a)
        BY <3>3 DEF field_targets, targets
      <4>4. is_valid_heap_pointer(p) /\ TO_DATA(p) \in DOMAIN mem => TO_DATA(p) \in L
        BY <1>2, <2>1, <4>3 DEF holds_reachable
      <4>5. abs_word(p) \in V
        BY <1>5, <4>2, <4>4
      <4> QED BY <2>4, <4>1, <4>5
    <3> QED BY <3>2, <3>3
  <2>5. refs_of(abs_words(mem[a])) \cap G \subseteq D
    BY <2>4 DEF refs_of
  <2> QED BY <2>3, <2>5 DEF holds_refs
<1>8. D = G
  <2>1. D \in SUBSET G
    BY <1>2, <1>3
  <2> QED BY <1>6, <1>7, <2>1
<1>9. L = DOMAIN mem
  <2>1. ASSUME NEW a \in DOMAIN mem PROVE a \in L
    <3>1. mem[a].id \in D
      BY <1>3, <1>8
    <3>2. PICK b \in L : mem[b].id = mem[a].id
      BY <3>1
    <3> QED BY <1>2, <1>3, <3>2 DEF distinct
  <2> QED BY <1>2, <2>1
<1>10. now_graph = dump.graph
  <2>1. /\ now_graph = [d \in {mem[a].id : a \in L} |-> now_graph[d]]
        /\ \A a \in L : now_graph[mem[a].id] = abs_object(mem[a])
    BY <1>2, <1>3, NowGraph
  <2>2. now_graph = [d \in G |-> now_graph[d]]
    BY <1>3, <1>9, <2>1
  <2>3. ASSUME NEW d \in G PROVE now_graph[d] = dump.graph[d]
    <3>1. PICK a \in DOMAIN mem : mem[a].id = d
      BY <1>3
    <3> QED BY <1>9, <2>1, <3>1
  <2>4. [d \in G |-> now_graph[d]] = [d \in G |-> dump.graph[d]]
    BY <2>3
  <2> QED BY <1>3, <2>2, <2>4
<1> QED BY <1>10 DEF DumpsAgree

LEMMA NowValues ==
  Places /\ heap.begin \in Bases => \A p \in references(DOMAIN mem) : abs_word(p) = value(names_now, p)
BY NowValue

LEMMA CompactPhaseDoneIdentity ==
  ASSUME Structure, Soundness, Identity, compact_phase_done, UNCHANGED <<cur_id, dump>>
  PROVE  Identity'
<1> PICK O : O = DOMAIN mem' OBVIOUS
<1>1. /\ pc = "physically_relocate" /\ pc' = "retry" /\ same_roots /\ gc_idle' /\ dump' = dump
      /\ gc.it >= heap.current
      /\ O = {x \in DOMAIN mem : x < heap.begin + gc.live}
      /\ \A a \in O : mem'[a] = mem[a]
  BY DEF compact_phase_done, same_roots, gc_idle
<1>2. Places /\ gc \in GcLocals
  BY PlacesOf DEF Soundness, Typed, ClientTypeOK, GcLocals
<1>3. Structure' /\ Soundness'
  BY CompactPhaseDone, CompactPhaseDoneSound
<1>4. /\ Places' /\ Typed' /\ Clean' /\ roots_in(references(DOMAIN mem))'
      /\ fields_in(DOMAIN mem, references(DOMAIN mem))' /\ objects(mem)' /\ (heap.begin \in Bases)'
  <2>1. Places'
    BY <1>3, PlacesOf, PTL
  <2> QED BY <1>1, <1>3, <2>1 DEF Soundness, Clean, Typed, ClientTypeOK, objects
<1>5. to_move = {} /\ landed = O
  <2>1. \A a \in DOMAIN mem : ~(a >= gc.it)
    BY <1>1, <1>2 DEF Places, GcLocals
  <2>2. to_move = {}
    BY <1>1, <2>1 DEF to_move
  <2> QED BY <1>1, <2>2 DEF landed
<1>6. survivors = O /\ \A a \in O : place(a) = a
  BY <1>1, <1>5 DEF survivors, arrived, place
<1>7. names_now' = new_names
  <2>1. /\ new_names = [x \in {place(a) : a \in survivors} |-> new_names[x]]
        /\ \A a \in survivors : new_names[place(a)] = mem[a].id
    BY <1>1, RelocatingNames
  <2>2. {place(a) : a \in survivors} = O
    BY <1>6
  <2>3. \A a \in O : new_names[a] = mem'[a].id
    BY <1>1, <1>6, <2>1
  <2>4. new_names = [x \in O |-> new_names[x]]
    BY <2>1, <2>2
  <2>5. [x \in O |-> new_names[x]] = [x \in O |-> mem'[x].id]
    BY <2>3
  <2> QED BY <2>4, <2>5 DEF names_now
<1>8. /\ distinct(O) /\ dump.graph = [d \in {mem[a].id : a \in O} |-> dump.graph[d]]
      /\ dump.order = ids_in_order(O)
      /\ \A a \in O : dump.graph[mem[a].id] = described(new_names, mem[a])
      /\ dump.roots = values(new_names, statics) \o values(new_names, stack)
                        \o [i \in DOMAIN extra |-> value(new_names, cell_word(extra[i]))]
  <2>1. Kept
    BY DEF Identity
  <2>2. /\ names(statics_fixed) = new_names /\ names(stack_fixed) = new_names
        /\ \A i : names(cell_fixed(i)) = new_names /\ names(object_fixed(i)) = new_names
    BY <1>1 DEF names, statics_fixed, stack_fixed, cell_fixed, object_fixed
  <2> QED BY <1>1, <1>6, <2>1, <2>2 DEF Kept, same_objects
<1>9. \A p \in references(O) : abs_word(p)' = value(new_names, p)
  <2>1. (\A p \in references(DOMAIN mem) : abs_word(p) = value(names_now, p))'
    BY <1>4, NowValues, PTL
  <2>2. \A p : value(names_now, p)' = value(new_names, p)
    BY <1>7 DEF value, outside
  <2>3. references(DOMAIN mem)' = references(O)
    BY DEF references, outside
  <2> QED BY <2>1, <2>2, <2>3
<1>10. \A c : cell_word(c)' = cell_word(c)
  BY <1>1 DEF cell_word, same_roots
<1>11. now_roots' = dump.roots
  <2>1. /\ \A i \in DOMAIN statics : statics[i] \in references(O)
        /\ \A i \in DOMAIN stack : stack[i] \in references(O)
        /\ \A i \in DOMAIN extra : cell_word(extra[i]) \in references(O)
    <3>1. references(DOMAIN mem)' = references(O)
      BY DEF references, outside
    <3>2. stack \in Seq(references(O)) /\ statics \in Seq(references(O))
      BY <1>1, <1>4, <3>1 DEF roots_in, same_roots
    <3>3. \A i \in DOMAIN extra : cell_word(extra[i])' \in references(O)
      BY <1>1, <1>4, <3>1 DEF roots_in, cells_in, same_roots
    <3> PICK R : R = references(O) OBVIOUS
    <3>4. \A i \in DOMAIN statics : statics[i] \in R
      BY <3>2
    <3>5. \A i \in DOMAIN stack : stack[i] \in R
      BY <3>2
    <3>6. ASSUME NEW i \in DOMAIN extra PROVE cell_word(extra[i]) \in references(O)
      <4>1. extra' = extra /\ stack' = stack /\ locals' = locals
        BY <1>1 DEF same_roots
      <4>2. cell_word(extra[i])' = cell_word(extra[i])
        BY <4>1 DEF cell_word
      <4>3. cell_word(extra[i])' \in references(O)
        BY <3>3
      <4> QED BY <4>2, <4>3
    <3>7. /\ \A i \in DOMAIN statics : statics[i] \in references(O)
          /\ \A i \in DOMAIN stack : stack[i] \in references(O)
      BY <3>4, <3>5
    <3> QED BY <3>6, <3>7
  <2>2. /\ [i \in DOMAIN statics |-> abs_word(statics[i])]' = values(new_names, statics)
        /\ [i \in DOMAIN stack |-> abs_word(stack[i])]' = values(new_names, stack)
        /\ [i \in DOMAIN extra |-> abs_word(cell_word(extra[i]))]'
             = [i \in DOMAIN extra |-> value(new_names, cell_word(extra[i]))]
    BY <1>1, <1>9, <1>10, <2>1 DEF values, same_roots
  <2> QED BY <1>8, <2>2 DEF now_roots
<1>12. same_objects(DOMAIN mem)' /\ GarbageReclaimedInOrder'
  <2>1. distinct(DOMAIN mem)' /\ {mem[a].id : a \in DOMAIN mem}' = {mem[a].id : a \in O}
    BY <1>1, <1>8 DEF distinct
  <2>2. ids_in_order(DOMAIN mem)' = ids_in_order(O)
    <3>1. O \in SUBSET Nat /\ IsFiniteSet(O)
      BY <1>1, <1>2, FiniteHeap, FS_Subset
    <3>2. order(mem', O) = order(mem, O)
      BY <1>1, <3>1, SameOrder
    <3>3. ids_in_order(DOMAIN mem)' = order(mem', O)
      BY DEF ids_in_order, order, at_rank, rank, below
    <3> QED BY <3>2, <3>3, OrderOf
  <2> QED BY <1>1, <1>8, <2>1, <2>2 DEF same_objects, GarbageReclaimedInOrder
<1>13. (\A a \in DOMAIN mem : dump.graph[mem[a].id] = abs_object(mem[a]))'
  <2>1. ASSUME NEW a \in O PROVE abs_object(mem[a])' = described(new_names, mem[a])
    <3> PICK o : o = mem[a] OBVIOUS
    <3>1. o \in Object /\ mem'[a] = o
      BY <1>1, <1>4, <2>1 DEF objects
    <3>2. \A i \in fields(o) : o.words[i] \in references(O)
      <4>1. references(DOMAIN mem)' = references(O)
        BY DEF references, outside
      <4> QED BY <1>4, <3>1, <4>1 DEF fields_in, fields
    <3>3. \A i \in fields(o) : abs_word(o.words[i])' = value(new_names, o.words[i])
      BY <1>9, <3>2
    <3>4. abs_words(o)' = [i \in DOMAIN o.words |-> IF i \in fields(o) THEN value(new_names, o.words[i])
                                                                       ELSE <<"word", o.words[i]>>]
      BY <3>3 DEF abs_words, fields
    <3>5. abs_object(mem[a])' = abs_object(o)'
      BY <3>1 DEF abs_object, abs_words, fields
    <3> QED BY <3>4, <3>5 DEF abs_object, described
  <2> QED BY <1>1, <1>8, <2>1
<1>14. Numbered'
  <2>1. \A a \in O : mem[a].id <= cur_id /\ mem[a].id < cur_id
    BY <1>1 DEF Identity, Numbered, allocating
  <2> QED BY <1>1, <1>8, <2>1 DEF Numbered, distinct
<1>15. Rooted'
  BY <1>1 DEF Rooted
<1>16. DumpsAgree'
  <2>1. \A D \in SUBSET DOMAIN dump.graph :
          /\ holds_refs(D, dump.roots) /\ \A d \in D : holds_refs(D, dump.graph[d].words)
          => D = DOMAIN dump.graph
    BY <1>1 DEF Identity, Rooted, gc_idle
  <2>2. (\A D \in SUBSET DOMAIN dump.graph :
          /\ holds_refs(D, dump.roots) /\ \A d \in D : holds_refs(D, dump.graph[d].words)
          => D = DOMAIN dump.graph)'
    BY <1>1, <2>1 DEF holds_refs
  <2>3. (now_roots = dump.roots)'
    BY <1>1, <1>11
  <2> QED BY <1>1, <1>4, <1>12, <1>13, <2>2, <2>3, AllLive, PTL
<1> QED BY <1>1, <1>12, <1>14, <1>15, <1>16 DEF Identity, Unchanged, Kept, marking

\* Every step of the collector preserves the invariant.
LEMMA CollectorIdentity ==
  ASSUME Structure, Soundness, Reached, Identity, CollectStep PROVE Identity'
<1>1. CASE gc_alloc_dump
  BY <1>1, GcAllocIdentity
<1>2. CASE (Mark \/ compute_location) /\ UNCHANGED <<cur_id, dump>>
  BY <1>2, MarkIdentity
<1>3. CASE Compact /\ ~compute_location /\ UNCHANGED <<cur_id, dump>>
  BY <1>3, MremapIdentity, UpdateObjectIdentity, FixStackIdentity, FixExtraRootIdentity,
     FixStaticsIdentity, RelocateObjectIdentity, CompactPhaseDoneIdentity DEF Compact
<1> QED BY <1>1, <1>2, <1>3 DEF CollectStep

-------------------------------------------------------------------------------
(* Steps of the program that uses the collector *)

\* The object that each destination is named after.
LEMMA SurvivorNames ==
  Structure /\ Soundness /\ pc \in {"update_references", "fix_extra_roots", "physically_relocate"} =>
    /\ new_names = [x \in {place(a) : a \in survivors} |-> new_names[x]]
    /\ \A a \in survivors : new_names[place(a)] = mem[a].id
<1> SUFFICES ASSUME Structure, Soundness,
                    pc \in {"update_references", "fix_extra_roots", "physically_relocate"}
             PROVE  /\ new_names = [x \in {place(a) : a \in survivors} |-> new_names[x]]
                    /\ \A a \in survivors : new_names[place(a)] = mem[a].id
  OBVIOUS
<1>1. CASE pc = "physically_relocate"
  BY <1>1, RelocatingNames
<1>2. CASE pc # "physically_relocate"
  <2>1. updating
    BY <1>2 DEF updating
  <2>2. survivors = Marked /\ \A a : place(a) = moved_to(a)
    BY <1>2, <2>1, NewNames DEF place, arrived
  <2>3. destinations = {place(a) : a \in survivors}
    BY <2>1, <2>2, UpdatingFacts DEF destinations
  <2> QED BY <2>1, <2>2, <2>3, NewNames
<1> QED BY <1>1, <1>2

LEMMA StutteringNames ==
  ASSUME Structure, Soundness, UNCHANGED clientVars, Structure', Soundness',
         pc \in {"update_references", "fix_extra_roots", "physically_relocate"}
  PROVE  survivors' = survivors /\ new_names' = new_names /\ old_names' = old_names
<1>1. /\ pc' = pc /\ gc' = gc /\ mem' = mem /\ heap' = heap
  BY DEF clientVars, gcVars
<1>2. /\ Marked' = Marked /\ \A a : moved_to(a)' = moved_to(a)
  BY <1>1 DEF Marked, moved_to, forwarded, after_mremap
<1>3. to_move' = to_move
  BY <1>1 DEF to_move
<1>4. landed' = landed
  BY <1>1, <1>2, <1>3 DEF landed
<1>5. arrived' = arrived /\ survivors' = survivors
  BY <1>1, <1>3, <1>4 DEF arrived, survivors
<1>6. \A a : place(a)' = place(a)
  BY <1>2, <1>5 DEF place
<1>7. new_names' = new_names
  <2> PICK D : D = {place(a) : a \in survivors} OBVIOUS
  <2>1. /\ new_names = [x \in D |-> new_names[x]]
        /\ \A a \in survivors : new_names[place(a)] = mem[a].id
    BY <1>1, SurvivorNames
  <2>2. (/\ new_names = [x \in {place(a) : a \in survivors} |-> new_names[x]]
         /\ \A a \in survivors : new_names[place(a)] = mem[a].id)'
    <3>1. (pc \in {"update_references", "fix_extra_roots", "physically_relocate"})'
      BY <1>1
    <3> QED BY <3>1, SurvivorNames, PTL
  <2>3. {place(a) : a \in survivors}' = D
    BY <1>5, <1>6
  <2>4. /\ new_names' = [x \in D |-> new_names'[x]]
        /\ \A a \in survivors : new_names'[place(a)] = mem[a].id
    BY <1>1, <1>5, <1>6, <2>2, <2>3
  <2>5. ASSUME NEW x \in D PROVE new_names'[x] = new_names[x]
    <3>1. PICK a \in survivors : x = place(a)
      OBVIOUS
    <3> QED BY <2>1, <2>4, <3>1
  <2>6. [x \in D |-> new_names'[x]] = [x \in D |-> new_names[x]]
    BY <2>5
  <2> QED BY <2>1, <2>4, <2>6
<1>8. old_names' = old_names
  <2>1. old_places' = old_places /\ \A x : after_mremap(x)' = after_mremap(x)
    BY <1>1, <1>2 DEF old_places, after_mremap
  <2> QED BY <1>1, <2>1 DEF old_names
<1> QED BY <1>5, <1>7, <1>8

LEMMA StutteringIdentity ==
  ASSUME Structure, Soundness, Identity, UNCHANGED clientVars, Structure', Soundness'
  PROVE  Identity'
<1>1. /\ pc' = pc /\ gc' = gc /\ mem' = mem /\ heap' = heap /\ stack' = stack /\ statics' = statics
      /\ extra' = extra /\ locals' = locals /\ cur_id' = cur_id /\ dump' = dump /\ same_roots
  BY DEF clientVars, gcVars, same_roots
<1>2. Places /\ objects(mem) /\ DOMAIN mem \subseteq Nat /\ IsFiniteSet(DOMAIN mem)
  BY PlacesOf, FiniteHeap DEF Soundness, Typed, ClientTypeOK, objects
<1>3. Numbered'
  BY <1>1 DEF Identity, Numbered, distinct, allocating
<1>4. Rooted'
  BY <1>1 DEF Identity, Rooted, gc_idle, holds_refs
<1>5. CASE pc = "physically_relocate" \/ updating
  <2>1. /\ survivors' = survivors /\ new_names' = new_names /\ old_names' = old_names /\ Kept
        /\ pc \in {"update_references", "fix_extra_roots", "physically_relocate"}
    BY <1>5, StutteringNames DEF Identity, updating
  <2>2. /\ \A a : object_fixed(a)' = object_fixed(a)
        /\ \A i : cell_fixed(i)' = cell_fixed(i)
        /\ stack_fixed' = stack_fixed /\ statics_fixed' = statics_fixed
    BY <1>1 DEF object_fixed, cell_fixed, stack_fixed, statics_fixed
  <2>3. same_objects(survivors)'
    <3>1. ids_in_order(survivors)' = ids_in_order(survivors)
      BY <1>1, <2>1, OrderOf DEF ids_in_order, order, at_rank, rank, below
    <3> QED BY <1>1, <2>1, <3>1 DEF Kept, same_objects, distinct
  <2>4. (\A a \in survivors : dump.graph[mem[a].id] = described(names(object_fixed(a)), mem[a]))'
    BY <1>1, <2>1, <2>2, ObjectsKept DEF Kept
  <2>5. /\ names(statics_fixed)' = names(statics_fixed) /\ names(stack_fixed)' = names(stack_fixed)
        /\ \A i : names(cell_fixed(i))' = names(cell_fixed(i))
    BY <2>1, <2>2 DEF names
  <2>6. /\ values(names(statics_fixed), statics)' = values(names(statics_fixed), statics)
        /\ values(names(stack_fixed), stack)' = values(names(stack_fixed), stack)
    BY <1>1, <2>5 DEF values, value, outside
  <2>7. [i \in DOMAIN extra |-> value(names(cell_fixed(i)), cell_word(extra[i]))]'
          = [i \in DOMAIN extra |-> value(names(cell_fixed(i)), cell_word(extra[i]))]
    <3>1. ASSUME NEW i \in DOMAIN extra
          PROVE  value(names(cell_fixed(i)), cell_word(extra[i]))'
                   = value(names(cell_fixed(i)), cell_word(extra[i]))
      <4>1. cell_word(extra[i])' = cell_word(extra[i])
        BY <1>1 DEF cell_word
      <4> QED BY <1>1, <2>5, <4>1 DEF value, outside
    <3> QED BY <1>1, <3>1
  <2>8. Kept'
    BY <1>1, <2>1, <2>3, <2>4, <2>6, <2>7 DEF Kept
  <2> QED BY <1>1, <1>3, <1>4, <2>1, <2>8, UpdatingIdentity
<1>6. CASE pc # "physically_relocate" /\ ~updating
  <2>1. Kept'
    BY <1>1, <1>6 DEF Kept, updating
  <2>2. distinct(DOMAIN mem) /\ same_words(mem, mem') /\ same_ids(mem, mem')
    BY <1>1, <1>2, <1>6, SameWordsRefl DEF Identity, Numbered, same_ids
  <2>3. /\ now_roots' = now_roots /\ now_graph' = now_graph
        /\ ids_in_order(live_objects)' = ids_in_order(live_objects)
    BY <1>1, <1>2, <2>2, SameView
  <2>4. ids_in_order(DOMAIN mem)' = ids_in_order(DOMAIN mem)
    <3>1. ids_in_order(DOMAIN mem)' = order(mem', DOMAIN mem)
      BY <1>1 DEF ids_in_order, order, at_rank, rank, below
    <3>2. ids_in_order(DOMAIN mem) = order(mem, DOMAIN mem)
      BY OrderOf
    <3> QED BY <1>1, <3>1, <3>2
  <2>5. Unchanged' /\ DumpsAgree' /\ GarbageReclaimedInOrder'
    BY <1>1, <2>3, <2>4 DEF Identity, Unchanged, DumpsAgree, GarbageReclaimedInOrder, marking
  <2> QED BY <1>3, <1>4, <2>1, <2>5 DEF Identity
<1> QED BY <1>5, <1>6

\* Outside of a collection, what matters is that the objects are numbered apart.
LEMMA IdleIdentity ==
  ASSUME Numbered', pc' \in {"run", "failed", "alloc"} PROVE Identity'
BY DEF Identity, Rooted, Unchanged, Kept, DumpsAgree, GarbageReclaimedInOrder, gc_idle, marking

\* A step that makes no object.
LEMMA SameObjectsNumbered ==
  ASSUME Numbered, pc = "run", pc' \in {"run", "failed", "alloc"}, cur_id \in Nat,
         objects(mem), DOMAIN mem' = DOMAIN mem, \A a \in DOMAIN mem : mem'[a].id = mem[a].id,
         cur_id' = IF pc' = "alloc" THEN cur_id + 1 ELSE cur_id
  PROVE  Numbered'
<1>1. \A a \in DOMAIN mem : mem[a].id \in Nat /\ mem[a].id <= cur_id
  BY DEF Numbered, objects, Object
<1>2. distinct(DOMAIN mem)'
  BY DEF Numbered, distinct
<1>3. \A a \in DOMAIN mem' : mem'[a].id <= cur_id'
  BY <1>1
<1>4. pc' = "alloc" => \A a \in DOMAIN mem' : mem'[a].id < cur_id'
  BY <1>1
<1> QED BY <1>2, <1>3, <1>4 DEF Numbered, allocating

\* The new object has the number that the request counted.
LEMMA PlacedIdentity ==
  ASSUME Structure, Soundness, Identity, NEW o, o.id = cur_id, place_object(o), cur_id' = cur_id
  PROVE  Identity'
<1> PICK at : at = heap.current OBVIOUS
<1>1. pc \in {"alloc", "retry"}
  BY DEF place_object
<1>2. mem' = [a \in DOMAIN mem \cup {at} |-> IF a = at THEN o ELSE mem[a]] /\ pc' = "run"
  BY DEF place_object
<1>3. Typed /\ ClientTypeOK /\ Places /\ cur_id \in Nat /\ objects(mem)
  BY PlacesOf DEF Soundness, Typed, ClientTypeOK, objects
<1>4. at \notin DOMAIN mem
  BY <1>3 DEF Places
<1>5. /\ DOMAIN mem' = DOMAIN mem \cup {at} /\ mem'[at].id = cur_id
      /\ \A a \in DOMAIN mem : mem'[a].id = mem[a].id
  BY <1>2, <1>4
<1>6. distinct(DOMAIN mem) /\ \A a \in DOMAIN mem : mem[a].id \in Nat /\ mem[a].id < cur_id
  BY <1>1, <1>3 DEF Identity, Numbered, allocating, objects, Object
<1>7. \A a \in DOMAIN mem' : mem'[a].id <= cur_id
  BY <1>3, <1>5, <1>6
<1>8. distinct(DOMAIN mem)'
  <2>1. \A a, b \in DOMAIN mem : mem[a].id = mem[b].id => a = b
    BY <1>6 DEF distinct
  <2>2. \A a \in DOMAIN mem : mem'[a].id # cur_id
    BY <1>3, <1>5, <1>6
  <2>3. ASSUME NEW a \in DOMAIN mem', NEW b \in DOMAIN mem', mem'[a].id = mem'[b].id PROVE a = b
    BY <1>5, <2>1, <2>2, <2>3
  <2> QED BY <2>3 DEF distinct
<1>9. Numbered'
  BY <1>2, <1>7, <1>8 DEF Numbered, allocating
<1> QED BY <1>2, <1>9, IdleIdentity

LEMMA StutteringReached ==
  ASSUME Soundness, Reached, UNCHANGED clientVars PROVE Reached'
<1>1. same_roots /\ heap' = heap /\ mem' = mem /\ pc' = pc
  BY DEF clientVars, gcVars, same_roots
<1>2. objects(mem) /\ same_words(mem, mem')
  BY <1>1, SameWordsRefl DEF Soundness, Typed, ClientTypeOK, objects
<1>3. Visited' = Visited /\ (marking' <=> marking)
  BY <1>1 DEF Visited, Marked, Enqueued, marking
<1> QED BY <1>1, <1>2, <1>3, TargetsStay DEF Reached

\* What the program sees: during a collection, what it saw when it began.
shown_roots == IF gc_idle THEN now_roots ELSE dump.roots
shown_graph == IF gc_idle THEN now_graph ELSE dump.graph

LEMMA CollectorShows ==
  ASSUME Identity, Identity', CollectStep PROVE UNCHANGED <<shown_roots, shown_graph>>
<1>1. CASE gc_alloc_dump
  <2>1. /\ pc = "alloc" /\ pc' = "mark_roots"
        /\ dump' = [roots |-> now_roots, graph |-> now_graph, order |-> ids_in_order(live_objects)]
    BY <1>1 DEF gc_alloc_dump, gc_alloc
  <2>2. gc_idle /\ ~gc_idle' /\ dump'.roots = now_roots /\ dump'.graph = now_graph
    BY <2>1 DEF gc_idle
  <2> QED BY <2>2 DEF shown_roots, shown_graph
<1>2. CASE (Mark \/ Compact) /\ UNCHANGED <<cur_id, dump>>
  <2>1. ~gc_idle /\ (~gc_idle' \/ pc' = "retry")
    <3>1. CASE Mark
      BY <3>1 DEF Mark, mark_skip, mark_start, mark_dequeue, mark_field, mark_fields_done,
         mark_done, mark_phase_done, gc_idle
    <3>2. CASE compute_location \/ mremap \/ update_object \/ fix_stack
      <4>1. CASE compute_location
        BY <4>1 DEF compute_location, gc_idle
      <4>2. CASE mremap
        BY <4>2 DEF mremap, gc_idle
      <4>3. CASE update_object
        BY <4>3 DEF update_object, gc_idle
      <4>4. CASE fix_stack
        BY <4>4 DEF fix_stack, gc_idle
      <4> QED BY <3>2, <4>1, <4>2, <4>3, <4>4
    <3>3. CASE fix_extra_root \/ fix_statics \/ relocate_object \/ compact_phase_done
      BY <3>3 DEF fix_extra_root, fix_statics, relocate_object, compact_phase_done, gc_idle
    <3> QED BY <1>2, <3>1, <3>2, <3>3 DEF Compact
  <2>2. CASE ~gc_idle'
    BY <1>2, <2>1, <2>2 DEF shown_roots, shown_graph
  <2>3. CASE pc' = "retry"
    <3>1. now_roots' = dump.roots /\ now_graph' = dump.graph
      BY <1>2, <2>3 DEF Identity, DumpsAgree
    <3>2. gc_idle'
      BY <2>3 DEF gc_idle
    <3> QED BY <2>1, <3>1, <3>2 DEF shown_roots, shown_graph
  <2> QED BY <2>1, <2>2, <2>3
<1> QED BY <1>1, <1>2 DEF CollectStep

-------------------------------------------------------------------------------
(* The object graph: what an identity leads to.  Module ObjectGraph is used    *)
(* here for its operators on graphs only.                                      *)

Objects == INSTANCE ObjectGraph WITH roots <- << >>, graph <- << >>

\* The objects of the graph g are those that the roots rs lead to.
closed_graph(g) == \A d \in DOMAIN g : refs_of(g[d].words) \subseteq DOMAIN g
whole(rs, g) ==
  /\ g = [d \in DOMAIN g |-> g[d]] /\ IsFiniteSet(DOMAIN g)
  /\ refs_of(rs) \subseteq DOMAIN g /\ closed_graph(g)
  /\ \A D \in SUBSET DOMAIN g :
       /\ refs_of(rs) \subseteq D
       /\ \A d \in D : refs_of(g[d].words) \subseteq D
       => D = DOMAIN g

LEMMA GraphRefs == ASSUME NEW vs PROVE Objects!refs(Objects!range(vs)) = refs_of(vs)
BY DEF Objects!refs, Objects!range, refs_of

\* reachable is the least set of identities that holds those in from and what
\* its own objects refer to.
LEMMA Reachable ==
  ASSUME NEW g, NEW from, IsFiniteSet(DOMAIN g), NEW r, r = Objects!reachable(from, g)
  PROVE  /\ r \in SUBSET DOMAIN g /\ from \cap DOMAIN g \subseteq r
         /\ \A d \in r : refs_of(g[d].words) \cap DOMAIN g \subseteq r
         /\ \A D \in SUBSET DOMAIN g :
              /\ from \cap DOMAIN g \subseteq D
              /\ \A d \in D : refs_of(g[d].words) \cap DOMAIN g \subseteq D
              => r \subseteq D
<1> PICK X : X = DOMAIN g OBVIOUS
<1> PICK B : B = from \cap DOMAIN g OBVIOUS
<1> PICK c : c = Cardinality(X) OBVIOUS
<1> PICK st : st = [d \in X |-> Objects!successors(d, g)] OBVIOUS
<1> DEFINE next(S) == UNION {{d} \cup Objects!successors(d, g) : d \in S}
<1>1. \A d \in X : Objects!successors(d, g) = refs_of(g[d].words) \cap X
  BY GraphRefs DEF Objects!successors
<1>2. IsFiniteSet(X) /\ steps_in(X, B, st)
  BY <1>1 DEF steps_in
<1>3. \A S \in SUBSET X : next(S) = layer(st, S)
  BY DEF layer
<1> HIDE DEF next
<1>4. PICK F \in [Nat -> SUBSET X] :
        \A n \in Nat : F[n] = IF n = 0 THEN B ELSE layer(st, F[n - 1])
  BY ONLY <1>2, AllLayers
<1>5. F = [n \in Nat |-> IF n = 0 THEN from \cap DOMAIN g ELSE next(F[n - 1])]
  <2>1. F = [n \in Nat |-> F[n]]
    OBVIOUS
  <2>2. ASSUME NEW n \in Nat
        PROVE  F[n] = IF n = 0 THEN from \cap DOMAIN g ELSE next(F[n - 1])
    <3>1. n # 0 => n - 1 \in Nat
      OBVIOUS
    <3>2. n # 0 => next(F[n - 1]) = layer(st, F[n - 1])
      BY <1>3, <3>1
    <3> QED BY <1>4, <3>2
  <2> QED BY <2>1, <2>2
<1>6. PICK p : p = CHOOSE f : f = [n \in Nat |-> IF n = 0 THEN from \cap DOMAIN g
                                                ELSE next(f[n - 1])]
  OBVIOUS
<1>7. p = [n \in Nat |-> IF n = 0 THEN from \cap DOMAIN g ELSE next(p[n - 1])]
  BY <1>5, <1>6
<1>8. r = p[c]
  <2>1. Objects!Cardinality(X) = Cardinality(X)
    BY DEF Objects!Cardinality, Cardinality
  <2>2. r = p[Objects!Cardinality(X)]
    BY <1>6 DEF Objects!reachable, next
  <2> QED BY <2>1, <2>2
<1>9. p[0] = B /\ \A n \in Nat : p[n] \in SUBSET X => p[n + 1] = layer(st, p[n])
  <2>1. ASSUME NEW n \in Nat PROVE p[n + 1] = next(p[n])
    <3>1. n + 1 \in Nat /\ n + 1 # 0 /\ (n + 1) - 1 = n
      OBVIOUS
    <3> QED BY <1>7, <3>1
  <2> QED BY <1>3, <1>7, <2>1
<1>10. /\ p[c] \in SUBSET X /\ closed_under(st, B, p[c])
       /\ \A D \in SUBSET X : closed_under(st, B, D) => p[c] \subseteq D
  BY ONLY <1>2, <1>9, c = Cardinality(X), LastLayer
<1>11. ASSUME NEW D \in SUBSET X
       PROVE  closed_under(st, B, D)
                <=> /\ from \cap DOMAIN g \subseteq D
                    /\ \A d \in D : refs_of(g[d].words) \cap DOMAIN g \subseteq D
  BY <1>1 DEF closed_under
<1> QED BY <1>8, <1>10, <1>11

\* A whole graph is the live part of every closed graph that agrees with it on
\* the objects of both and holds what the roots refer to.
LEMMA LivePart ==
  ASSUME NEW rs, NEW h, whole(rs, h), NEW g, IsFiniteSet(DOMAIN g), closed_graph(g),
         refs_of(rs) \subseteq DOMAIN g, \A d \in DOMAIN g \cap DOMAIN h : h[d] = g[d]
  PROVE  h = Objects!live_part(g, rs)
<1> PICK r : r = Objects!reachable(refs_of(rs), g) OBVIOUS
<1>1. /\ r \in SUBSET DOMAIN g /\ refs_of(rs) \cap DOMAIN g \subseteq r
      /\ \A d \in r : refs_of(g[d].words) \cap DOMAIN g \subseteq r
      /\ \A D \in SUBSET DOMAIN g :
           /\ refs_of(rs) \cap DOMAIN g \subseteq D
           /\ \A d \in D : refs_of(g[d].words) \cap DOMAIN g \subseteq D
           => r \subseteq D
  BY Reachable
<1> PICK D : D = DOMAIN h \cap r OBVIOUS
<1>2. D = DOMAIN h
  <2>1. refs_of(rs) \subseteq D
    BY <1>1 DEF whole
  <2>2. ASSUME NEW d \in D PROVE refs_of(h[d].words) \subseteq D
    <3>1. d \in DOMAIN g /\ h[d] = g[d] /\ d \in DOMAIN h /\ d \in r
      BY <1>1
    <3>2. refs_of(h[d].words) \subseteq DOMAIN h
      BY <3>1 DEF whole, closed_graph
    <3>3. refs_of(g[d].words) \subseteq r
      BY <1>1, <3>1 DEF closed_graph
    <3> QED BY <3>1, <3>2, <3>3
  <2> QED BY <2>1, <2>2 DEF whole
<1>3. r \subseteq DOMAIN h
  <2>1. D \in SUBSET DOMAIN g /\ refs_of(rs) \cap DOMAIN g \subseteq D
    BY <1>1, <1>2 DEF whole
  <2>2. ASSUME NEW d \in D PROVE refs_of(g[d].words) \cap DOMAIN g \subseteq D
    <3>1. d \in DOMAIN g /\ h[d] = g[d] /\ d \in DOMAIN h
      BY <1>1
    <3>2. refs_of(h[d].words) \subseteq DOMAIN h
      BY <3>1 DEF whole, closed_graph
    <3> QED BY <1>2, <3>1, <3>2
  <2>3. r \subseteq D
    BY <1>1, <2>1, <2>2
  <2> QED BY <2>3
<1>4. DOMAIN h = r
  BY <1>2, <1>3
<1>5. h = [d \in r |-> h[d]]
  BY <1>4 DEF whole
<1>6. \A d \in r : h[d] = g[d]
  BY <1>1, <1>4
<1>7. Objects!live_part(g, rs) = [d \in r |-> g[d]]
  BY GraphRefs DEF Objects!live_part
<1> QED BY <1>5, <1>6, <1>7

-------------------------------------------------------------------------------
(* What a state shows of its heap, outside of a collection *)

\* Headers lie at multiples of the word size.
LEMMA HeadersAligned ==
  ASSUME Places, tiled_from(heap.begin), objects(mem), heap.begin \in Bases
  PROVE  \A a \in DOMAIN mem : a % 4 = 0
<1> DEFINE T == {a \in DOMAIN mem : a % 4 # 0}
<1> SUFFICES ASSUME T # {} PROVE FALSE
  OBVIOUS
<1>1. PICK a \in T : \A b \in T : ~(b < a)
  <2>1. T \subseteq Nat
    BY DEF Places
  <2> QED BY <2>1, Smallest
<1>2. a \in DOMAIN mem /\ a \in Nat /\ a % 4 # 0
  BY DEF Places
<1>3. /\ heap.begin \in DOMAIN mem /\ heap.begin < a /\ heap.begin \in Nat
      /\ a < heap.current /\ heap.current \in Nat
  <2>1. heap.begin \in Nat /\ heap.begin % 4 = 0
    BY BasesAssumption DEF WORD_BYTES
  <2>2. heap.begin <= a /\ heap.current \in Nat /\ a + 8 <= next_obj(a) /\ next_obj(a) <= heap.current
        /\ next_obj(a) \in Nat
    BY <1>2 DEF Places
  <2>3. heap.begin # a
    BY <1>2, <2>1
  <2>4. heap.begin = heap.current \/ heap.begin \in DOMAIN mem
    BY DEF tiled_from
  <2> QED BY <1>2, <2>1, <2>2, <2>3, <2>4
<1> DEFINE U == {n \in Nat : \E b \in DOMAIN mem : b < a /\ n = a - b}
<1>4. PICK n \in U : \A m \in U : ~(m < n)
  <2>1. a - heap.begin \in U
    BY <1>2, <1>3
  <2> HIDE DEF U
  <2>2. U \subseteq Nat
    BY DEF U
  <2> QED BY <2>1, <2>2, Smallest
<1>5. PICK b \in DOMAIN mem : b < a /\ n = a - b
  OBVIOUS
<1>6. /\ b \in Nat /\ heap.begin <= b /\ b + 8 <= next_obj(b) /\ next_obj(b) \in Nat
      /\ next_obj(b) = b + 4 * size_of(mem[b]) /\ size_of(mem[b]) \in Nat
  <2>1. mem[b] \in Object
    BY DEF objects
  <2>2. shaped(mem[b])
    BY <2>1 DEF Object, shaped, ObjectFields
  <2>3. size_of(mem[b]) \in Nat
    BY <2>2, SizeOf
  <2> QED BY <2>3 DEF Places, next_obj, WORDS_TO_BYTES, WORD_BYTES
<1>7. next_obj(b) <= a /\ next_obj(b) \in DOMAIN mem
  BY <1>2, <1>3, <1>5, <1>6 DEF tiled_from
<1>8. next_obj(b) = a
  <2> SUFFICES ASSUME next_obj(b) < a PROVE FALSE
    BY <1>2, <1>6, <1>7
  <2>1. a - next_obj(b) \in U
    BY <1>2, <1>6, <1>7
  <2>2. a - next_obj(b) < n
    BY <1>2, <1>5, <1>6
  <2> QED BY <1>4, <2>1, <2>2
<1>9. b % 4 = 0
  BY <1>1, <1>5, <1>6
<1>10. PICK k \in Nat : k = size_of(mem[b])
  BY <1>6
<1>11. a = b + 4 * k
  BY <1>6, <1>8, <1>10
<1> QED BY ONLY <1>2, <1>6, <1>9, <1>11, k \in Nat

\* The roots refer to the objects that their words point at.
LEMMA RootRefs ==
  ASSUME Places, heap.begin \in Bases, stack \in Seq(Nat), statics \in Seq(Nat), extra \in Seq(Cell),
         NEW O \in SUBSET DOMAIN mem, roots_in(references(O))
  PROVE  /\ refs_of(now_roots) \subseteq {mem[a].id : a \in O}
         /\ now_roots \in Seq({abs_word(p) : p \in references(O)})
<1> PICK V : V = {abs_word(p) : p \in references(O)} OBVIOUS
<1> PICK A : A = [k \in DOMAIN statics |-> abs_word(statics[k])] OBVIOUS
<1> PICK B : B = [k \in DOMAIN stack |-> abs_word(stack[k])] OBVIOUS
<1> PICK C : C = [k \in DOMAIN extra |-> abs_word(cell_word(extra[k]))] OBVIOUS
<1>1. /\ Len(statics) \in Nat /\ DOMAIN statics = 1 .. Len(statics)
      /\ Len(stack) \in Nat /\ DOMAIN stack = 1 .. Len(stack)
      /\ Len(extra) \in Nat /\ DOMAIN extra = 1 .. Len(extra)
      /\ \A k \in DOMAIN statics : statics[k] \in references(O)
      /\ \A k \in DOMAIN stack : stack[k] \in references(O)
      /\ \A k \in DOMAIN extra : cell_word(extra[k]) \in references(O)
  BY DEF roots_in, cells_in
<1>2. A \in Seq(V) /\ B \in Seq(V) /\ C \in Seq(V)
  <2>1. /\ \A k \in 1 .. Len(statics) : A[k] \in V
        /\ \A k \in 1 .. Len(stack) : B[k] \in V
        /\ \A k \in 1 .. Len(extra) : C[k] \in V
    BY <1>1
  <2>2. /\ A = [k \in 1 .. Len(statics) |-> A[k]] /\ B = [k \in 1 .. Len(stack) |-> B[k]]
        /\ C = [k \in 1 .. Len(extra) |-> C[k]]
    BY <1>1
  <2> QED BY ONLY <1>1, <2>1, <2>2, FunctionIsSeq
<1>3. now_roots \in Seq(V)
  <2>1. now_roots = joined(A, B, C)
    BY DEF now_roots, joined
  <2>2. joined(A, B, C) \in Seq(V)
    BY <1>2, JoinedIn
  <2> QED BY <2>1, <2>2
<1>4. ASSUME NEW p \in references(O), abs_word(p)[1] = "ref" PROVE abs_word(p)[2] \in {mem[a].id : a \in O}
  <2>1. is_valid_heap_pointer(p) /\ abs_word(p)[2] = mem[TO_DATA(p)].id
    BY <1>4 DEF abs_word, object_at
  <2>2. TO_DATA(p) \in O
    BY <2>1, Pointers
  <2> QED BY <2>1, <2>2
<1>5. refs_of(now_roots) \subseteq {mem[a].id : a \in O}
  <2> PICK s : s = now_roots OBVIOUS
  <2>1. ASSUME NEW i \in DOMAIN s, s[i][1] = "ref" PROVE s[i][2] \in {mem[a].id : a \in O}
    <3>1. s[i] \in V
      BY <1>3
    <3>2. PICK p \in references(O) : s[i] = abs_word(p)
      BY <3>1
    <3> QED BY <1>4, <2>1, <3>2
  <2>2. refs_of(s) \subseteq {mem[a].id : a \in O}
    BY <2>1 DEF refs_of
  <2> QED BY <2>2
<1> QED BY <1>3, <1>5

\* So do the members of an object that a set of objects holds.
LEMMA MemberRefs ==
  ASSUME Places, heap.begin \in Bases, objects(mem), NEW a \in DOMAIN mem, NEW O,
         \A i \in fields(mem[a]) : mem[a].words[i] \in references(O)
  PROVE  refs_of(abs_object(mem[a]).words) \subseteq {mem[b].id : b \in O}
<1> PICK vs : vs = abs_words(mem[a]) OBVIOUS
<1>1. abs_object(mem[a]).words = vs
  BY DEF abs_object
<1>2. ASSUME NEW i \in DOMAIN vs, vs[i][1] = "ref" PROVE vs[i][2] \in {mem[b].id : b \in O}
  <2>1. i \in DOMAIN mem[a].words
    BY DEF abs_words
  <2>2. i \in fields(mem[a]) /\ vs[i] = abs_word(mem[a].words[i])
    BY <1>2, <2>1 DEF abs_words
  <2>3. is_valid_heap_pointer(mem[a].words[i]) /\ vs[i][2] = mem[TO_DATA(mem[a].words[i])].id
    BY <1>2, <2>2 DEF abs_word, object_at
  <2>4. TO_DATA(mem[a].words[i]) \in O
    BY <2>2, <2>3, Pointers
  <2> QED BY <2>3, <2>4
<1> QED BY <1>1, <1>2 DEF refs_of

View ==
  /\ Places /\ objects(mem) /\ heap.begin \in Bases /\ distinct(DOMAIN mem)
  /\ stack \in Seq(Nat) /\ statics \in Seq(Nat) /\ extra \in Seq(Cell)
  /\ \A p \in Nat : is_object(p) => ~outside(p)
  /\ fields_in(DOMAIN mem, references(DOMAIN mem))
  /\ live_objects \subseteq DOMAIN mem /\ roots_in(references(live_objects))
  /\ fields_in(live_objects, references(live_objects))
  /\ \A O \in SUBSET DOMAIN mem :
       roots_in(references(O)) /\ fields_in(O, references(O)) => live_objects \subseteq O
  /\ whole(now_roots, now_graph)
  /\ DOMAIN now_graph = {mem[a].id : a \in live_objects}
  /\ \A a \in live_objects : now_graph[mem[a].id] = abs_object(mem[a])
  /\ \A O \in SUBSET DOMAIN mem :
       roots_in(references(O)) => refs_of(now_roots) \subseteq {mem[a].id : a \in O}
  /\ \A O : \A a \in DOMAIN mem :
       (\A i \in fields(mem[a]) : mem[a].words[i] \in references(O))
         => refs_of(abs_object(mem[a]).words) \subseteq {mem[b].id : b \in O}
  /\ \A p \in references(DOMAIN mem) : abs_word(p) = value(names_now, p)

LEMMA ViewHolds == Structure /\ Soundness /\ Numbered /\ gc_idle => View
<1> SUFFICES ASSUME Structure, Soundness, Numbered, gc_idle PROVE View
  OBVIOUS
<1> PICK L : L = live_objects OBVIOUS
<1> PICK R : R = references(L) OBVIOUS
<1>1. /\ Places /\ Typed /\ Clean /\ objects(mem) /\ heap.begin \in Bases
      /\ stack \in Seq(Nat) /\ statics \in Seq(Nat) /\ extra \in Seq(Cell)
      /\ roots_in(references(DOMAIN mem)) /\ fields_in(DOMAIN mem, references(DOMAIN mem))
  BY PlacesOf DEF Soundness, Typed, ClientTypeOK, objects, Word, Clean
<1>2. distinct(DOMAIN mem) /\ tiled_from(heap.begin)
  BY DEF Numbered, Structure, gc_idle
<1>3. /\ L \subseteq DOMAIN mem /\ holds_reachable(L)
      /\ \A S \in SUBSET DOMAIN mem : holds_reachable(S) => L \subseteq S
  BY <1>1, FiniteHeap, LiveIsLeast
<1>4. ASSUME NEW p \in references(DOMAIN mem), is_valid_heap_pointer(p) => TO_DATA(p) \in L
      PROVE  p \in R
  <2>1. p \in Nat /\ (~is_valid_heap_pointer(p) => outside(p))
    BY <1>1, Pointers DEF references
  <2> QED BY <1>4, <2>1 DEF references
<1>5. ASSUME NEW p \in references(DOMAIN mem), is_valid_heap_pointer(p) PROVE TO_DATA(p) \in DOMAIN mem
  BY <1>1, <1>5, Pointers
<1>6. roots_in(R)
  <2>1. ASSUME NEW i \in 1 .. root_count PROVE root(i) \in R
    <3>1. root(i) \in references(DOMAIN mem)
      BY <1>1, RootsIn
    <3>2. is_valid_heap_pointer(root(i)) => TO_DATA(root(i)) \in root_targets \cap DOMAIN mem
      BY <1>5, <3>1 DEF root_targets, targets
    <3> QED BY <1>3, <1>4, <3>1, <3>2 DEF holds_reachable
  <2> QED BY <1>1, <2>1, RootsAreAll
<1>7. fields_in(L, R)
  <2> SUFFICES ASSUME NEW a \in L, NEW i \in fields(mem[a]) PROVE mem[a].words[i] \in R
    BY DEF fields_in
  <2>1. mem[a].words[i] \in references(DOMAIN mem)
    BY <1>1, <1>3 DEF fields_in
  <2>2. is_valid_heap_pointer(mem[a].words[i])
          => TO_DATA(mem[a].words[i]) \in field_targets(a) \cap DOMAIN mem
    BY <1>5, <2>1 DEF field_targets, targets
  <2> QED BY <1>3, <1>4, <2>1, <2>2 DEF holds_reachable
<1>8. ASSUME NEW O \in SUBSET DOMAIN mem, roots_in(references(O)), fields_in(O, references(O))
      PROVE  L \subseteq O
  <2>1. \A p \in references(O) : is_valid_heap_pointer(p) => TO_DATA(p) \in O
    BY <1>1, Pointers
  <2>2. \A i \in 1 .. root_count : root(i) \in references(O)
    BY <1>1, <1>8, RootsIn
  <2>3. root_targets \subseteq O
    BY <2>1, <2>2 DEF root_targets, targets
  <2>4. \A a \in O : field_targets(a) \subseteq O
    BY <1>8, <2>1 DEF field_targets, targets, fields_in
  <2> QED BY <1>3, <2>3, <2>4 DEF holds_reachable
<1>9. /\ now_graph = [d \in DOMAIN now_graph |-> now_graph[d]]
      /\ DOMAIN now_graph = {mem[a].id : a \in L}
      /\ \A a \in L : now_graph[mem[a].id] = abs_object(mem[a])
  <2>1. /\ now_graph = [d \in {mem[a].id : a \in L} |-> now_graph[d]]
        /\ \A a \in L : now_graph[mem[a].id] = abs_object(mem[a])
    BY <1>2, <1>3, NowGraph
  <2>2. DOMAIN now_graph = {mem[a].id : a \in L}
    BY <2>1
  <2> QED BY <2>1, <2>2
<1>10. refs_of(now_roots) \subseteq DOMAIN now_graph
  BY <1>1, <1>3, <1>6, <1>9, RootRefs
<1>11. closed_graph(now_graph)
  <2> SUFFICES ASSUME NEW a \in L PROVE refs_of(now_graph[mem[a].id].words) \subseteq DOMAIN now_graph
    BY <1>9 DEF closed_graph
  <2>1. a \in DOMAIN mem /\ \A i \in fields(mem[a]) : mem[a].words[i] \in references(L)
    BY <1>3, <1>7 DEF fields_in
  <2>2. refs_of(abs_object(mem[a]).words) \subseteq {mem[b].id : b \in L}
    BY <1>1, <2>1, MemberRefs
  <2> QED BY <1>9, <2>2
<1>12. whole(now_roots, now_graph)
  <2>1. IsFiniteSet(DOMAIN now_graph)
    <3>1. cur_id \in Nat /\ \A a \in DOMAIN mem : mem[a].id \in Nat /\ mem[a].id <= cur_id
      BY <1>1 DEF Typed, ClientTypeOK, Numbered, objects, Object
    <3> PICK D : D = DOMAIN now_graph OBVIOUS
    <3>2. D \in SUBSET Nat /\ \A d \in D : d <= cur_id
      BY <1>3, <1>9, <3>1
    <3>3. IsFiniteSet(D)
      BY ONLY <3>1, <3>2, FS_BoundedSetOfNaturals
    <3> QED BY <3>3
  <2>2. ASSUME NEW D \in SUBSET DOMAIN now_graph, refs_of(now_roots) \subseteq D,
               \A d \in D : refs_of(now_graph[d].words) \subseteq D
        PROVE  D = DOMAIN now_graph
    BY <1>1, <1>2, <2>2, LiveIsRooted
  <2> QED BY <1>9, <1>10, <1>11, <2>1, <2>2 DEF whole
<1>13. \A p \in Nat : is_object(p) => ~outside(p)
  <2> SUFFICES ASSUME NEW p \in Nat, TO_DATA(p) \in DOMAIN mem PROVE ~outside(p)
    BY DEF is_object
  <2>1. (p - 8) % 4 = 0 /\ heap.begin <= p - 8 /\ heap.begin \in Nat
    BY <1>1, <1>2, HeadersAligned DEF Places, TO_DATA, DATA_HEADER_SZ
  <2>2. p % 2 = 0
    BY ONLY <2>1, p \in Nat
  <2>3. ~UNBOXED(p)
    BY <2>2 DEF UNBOXED
  <2>4. ~(p < heap.begin)
    BY <2>1
  <2> QED BY <1>1, <2>3, <2>4 DEF outside
<1>14. \A O \in SUBSET DOMAIN mem :
         roots_in(references(O)) => refs_of(now_roots) \subseteq {mem[a].id : a \in O}
  BY <1>1, RootRefs
<1>15. \A O : \A a \in DOMAIN mem :
         (\A i \in fields(mem[a]) : mem[a].words[i] \in references(O))
           => refs_of(abs_object(mem[a]).words) \subseteq {mem[b].id : b \in O}
  BY <1>1, MemberRefs
<1>16. \A p \in references(DOMAIN mem) : abs_word(p) = value(names_now, p)
  BY <1>1, NowValues
<1>17. live_objects \subseteq DOMAIN mem /\ roots_in(references(live_objects))
       /\ fields_in(live_objects, references(live_objects))
  BY <1>3, <1>6, <1>7
<1> QED BY <1>1, <1>2, <1>8, <1>9, <1>12, <1>13, <1>14, <1>15, <1>16, <1>17 DEF View


\* The values of words depend on the place and the ids of the objects only.
LEMMA StableValues ==
  ASSUME heap' = heap, DOMAIN mem' = DOMAIN mem, \A a \in DOMAIN mem : mem'[a].id = mem[a].id
  PROVE  \A p : abs_word(p)' = abs_word(p)
BY DEF abs_word, is_valid_heap_pointer, is_object, object_at

\* An object in which a word is replaced.
LEMMA WordReplaced ==
  ASSUME NEW m, NEW a \in DOMAIN m, m[a] \in Object, NEW i \in DOMAIN m[a].words, NEW v \in Nat,
         NEW k, k = [m EXCEPT ![a].words[i] = v]
  PROVE  /\ DOMAIN k = DOMAIN m /\ \A b \in DOMAIN m : b # a => k[b] = m[b]
         /\ k[a].id = m[a].id /\ k[a].type = m[a].type /\ k[a].len = m[a].len
         /\ DOMAIN k[a].words = DOMAIN m[a].words /\ fields(k[a]) = fields(m[a])
         /\ \A j \in DOMAIN m[a].words : k[a].words[j] = IF j = i THEN v ELSE m[a].words[j]
<1> PICK w : w = m[a].words OBVIOUS
<1> PICK w1 : w1 = [w EXCEPT ![i] = v] OBVIOUS
<1> PICK o : o = [m[a] EXCEPT !.words = w1] OBVIOUS
<1>1. w \in Seq(Nat) /\ Len(w) \in Nat
  BY DEF Object, Word
<1>2. w1 \in Seq(Nat) /\ Len(w1) = Len(w)
  BY <1>1, Replacing
<1>3. DOMAIN w1 = DOMAIN w /\ \A j \in DOMAIN w : w1[j] = IF j = i THEN v ELSE w[j]
  OBVIOUS
<1>4. o.id = m[a].id /\ o.type = m[a].type /\ o.len = m[a].len /\ o.words = w1
  BY DEF Object
<1>5. DOMAIN k = DOMAIN m /\ k[a] = o /\ \A b \in DOMAIN m : b # a => k[b] = m[b]
  OBVIOUS
<1>6. fields(o) = fields(m[a])
  BY <1>2, <1>4 DEF fields
<1>7. DOMAIN o.words = DOMAIN w /\ \A j \in DOMAIN w : o.words[j] = IF j = i THEN v ELSE w[j]
  BY ONLY <1>3, <1>4
<1>8. w = m[a].words
  OBVIOUS
<1> QED BY ONLY <1>4, <1>5, <1>6, <1>7, <1>8

\* Objects and graphs in which a word is replaced.
with_word(o, i, x) == [o EXCEPT !.words[i] = x]
written(g, d, i, x) == [g EXCEPT ![d].words[i] = x]

\* What an object shows when one of its words is replaced.
one_word(o, q, i, v) ==
  /\ i \in DOMAIN o.words /\ DOMAIN q.words = DOMAIN o.words
  /\ q.type = o.type /\ q.len = o.len /\ fields(q) = fields(o)
  /\ \A j \in DOMAIN o.words : q.words[j] = IF j = i THEN v ELSE o.words[j]
shown_in(o, i, v, x) == x = IF i \in fields(o) THEN abs_word(v) ELSE <<"word", v>>

LEMMA WordShown ==
  ASSUME NEW o, NEW q, NEW i, NEW v, NEW x, one_word(o, q, i, v), shown_in(o, i, v, x)
  PROVE  /\ abs_object(q) = with_word(abs_object(o), i, x)
         /\ abs_object(q).words[i] = x
         /\ i \in DOMAIN abs_object(o).words /\ abs_object(o).type = o.type
<1> USE DEF one_word, shown_in
<1> PICK ow : ow = abs_words(o) OBVIOUS
<1> PICK qw : qw = abs_words(q) OBVIOUS
<1>1. /\ abs_object(o) = [type |-> o.type, len |-> o.len, words |-> ow]
      /\ abs_object(q) = [type |-> o.type, len |-> o.len, words |-> qw]
  BY DEF abs_object
<1>2. /\ DOMAIN ow = DOMAIN o.words /\ ow = [j \in DOMAIN ow |-> ow[j]]
      /\ DOMAIN qw = DOMAIN o.words /\ qw = [j \in DOMAIN qw |-> qw[j]]
  BY DEF abs_words
<1>3. ASSUME NEW j \in DOMAIN o.words PROVE qw[j] = IF j = i THEN x ELSE ow[j]
  <2>1. /\ ow[j] = IF j \in fields(o) THEN abs_word(o.words[j]) ELSE <<"word", o.words[j]>>
        /\ qw[j] = IF j \in fields(o) THEN abs_word(q.words[j]) ELSE <<"word", q.words[j]>>
    BY DEF abs_words
  <2> QED BY <2>1
<1>4. qw = [ow EXCEPT ![i] = x]
  <2>1. \A j \in DOMAIN qw : qw[j] = [ow EXCEPT ![i] = x][j]
    BY <1>2, <1>3
  <2> QED BY <1>2, <2>1
<1>5. qw[i] = x
  BY <1>3
<1>6. [abs_object(o) EXCEPT !.words[i] = x]
        = [type |-> o.type, len |-> o.len, words |-> [ow EXCEPT ![i] = x]]
  BY <1>1
<1> QED BY <1>1, <1>2, <1>4, <1>5, <1>6 DEF with_word

\* View', as a statement about the objects that are there now.
LEMMA ViewMoved ==
  ASSUME View'
  PROVE  /\ live_objects' \subseteq DOMAIN mem' /\ whole(now_roots', now_graph')
         /\ DOMAIN now_graph' = {mem'[b].id : b \in live_objects'}
         /\ \A b \in live_objects' : now_graph'[mem'[b].id] = abs_object(mem[b])'
         /\ \A O \in SUBSET DOMAIN mem' :
              roots_in(references(O))' => refs_of(now_roots') \subseteq {mem'[b].id : b \in O}
         /\ \A b, c \in DOMAIN mem' : mem'[b].id = mem'[c].id => b = c
         /\ \A O : \A b \in DOMAIN mem' :
              (\A j \in fields(mem'[b]) : mem'[b].words[j] \in references(O))
                => refs_of(abs_object(mem[b])'.words) \subseteq {mem'[c].id : c \in O}
<1>1. \A b : refs_of(abs_object(mem[b]).words)' = refs_of(abs_object(mem[b])'.words)
  BY DEF refs_of
<1>2. \A b : fields(mem[b])' = fields(mem'[b])
  BY DEF fields
<1>3. \A O : references(O)' = references(O)
  BY DEF references, outside
<1>4. /\ live_objects' \subseteq DOMAIN mem' /\ whole(now_roots, now_graph)'
      /\ DOMAIN now_graph' = {mem'[b].id : b \in live_objects'}
      /\ \A b \in live_objects' : now_graph'[mem'[b].id] = abs_object(mem[b])'
      /\ \A b, c \in DOMAIN mem' : mem'[b].id = mem'[c].id => b = c
  BY DEF View, distinct
<1>5. \A O \in SUBSET DOMAIN mem' :
        roots_in(references(O))' => refs_of(now_roots)' \subseteq {mem'[b].id : b \in O}
  BY DEF View
<1>6. \A O : \A b \in DOMAIN mem' :
        (\A j \in fields(mem[b])' : mem'[b].words[j] \in references(O)')
          => refs_of(abs_object(mem[b]).words)' \subseteq {mem'[c].id : c \in O}
  BY DEF View
<1>7. whole(now_roots', now_graph')
  BY <1>4 DEF whole, refs_of, closed_graph
<1>8. refs_of(now_roots)' = refs_of(now_roots')
  BY DEF refs_of
<1> QED BY <1>1, <1>2, <1>3, <1>4, <1>5, <1>6, <1>7, <1>8

\* What the words of a stack show, and the roots in their three parts.
shown(s)    == [j \in DOMAIN s |-> abs_word(s[j])]
shown_cells == [j \in DOMAIN extra |-> abs_word(cell_word(extra[j]))]

LEMMA RootParts ==
  ASSUME NEW R, roots_in(R), extra \in Seq(Cell), NEW V, V = {abs_word(p) : p \in R}
  PROVE  /\ now_roots = joined(shown(statics), shown(stack), shown_cells)
         /\ shown(statics) \in Seq(V) /\ shown(stack) \in Seq(V) /\ shown_cells \in Seq(V)
         /\ Len(shown(statics)) = Len(statics) /\ Len(shown(stack)) = Len(stack)
         /\ Len(shown_cells) = Len(extra)
<1> PICK A : A = shown(statics) OBVIOUS
<1> PICK B : B = shown(stack) OBVIOUS
<1> PICK C : C = shown_cells OBVIOUS
<1>1. /\ Len(statics) \in Nat /\ DOMAIN statics = 1 .. Len(statics)
      /\ Len(stack) \in Nat /\ DOMAIN stack = 1 .. Len(stack)
      /\ Len(extra) \in Nat /\ DOMAIN extra = 1 .. Len(extra)
      /\ \A k \in DOMAIN statics : statics[k] \in R
      /\ \A k \in DOMAIN stack : stack[k] \in R
      /\ \A k \in DOMAIN extra : cell_word(extra[k]) \in R
  BY DEF roots_in, cells_in
<1>2. /\ \A k \in 1 .. Len(statics) : A[k] \in V
      /\ \A k \in 1 .. Len(stack) : B[k] \in V
      /\ \A k \in 1 .. Len(extra) : C[k] \in V
  BY <1>1 DEF shown, shown_cells
<1>3. /\ A = [k \in 1 .. Len(statics) |-> A[k]] /\ B = [k \in 1 .. Len(stack) |-> B[k]]
      /\ C = [k \in 1 .. Len(extra) |-> C[k]]
  BY <1>1 DEF shown, shown_cells
<1>4. A \in Seq(V) /\ B \in Seq(V) /\ C \in Seq(V)
  BY ONLY <1>1, <1>2, <1>3, FunctionIsSeq
<1>5. Len(A) = Len(statics) /\ Len(B) = Len(stack) /\ Len(C) = Len(extra)
  <2>1. DOMAIN A = 1 .. Len(statics) /\ DOMAIN B = 1 .. Len(stack) /\ DOMAIN C = 1 .. Len(extra)
    BY <1>3
  <2> QED BY ONLY <1>1, <1>4, <2>1
<1>6. now_roots = joined(A, B, C)
  BY DEF now_roots, joined, shown, shown_cells
<1> QED BY <1>4, <1>5, <1>6

\* The words of the stack are among the values of the roots.
LEMMA StackShown ==
  ASSUME NEW R, roots_in(R), extra \in Seq(Cell), NEW j \in DOMAIN stack
  PROVE  \E n \in DOMAIN now_roots : now_roots[n] = abs_word(stack[j])
<1> PICK V : V = {abs_word(p) : p \in R} OBVIOUS
<1> PICK A : A = shown(statics) OBVIOUS
<1> PICK B : B = shown(stack) OBVIOUS
<1> PICK C : C = shown_cells OBVIOUS
<1>1. now_roots = joined(A, B, C) /\ A \in Seq(V) /\ B \in Seq(V) /\ C \in Seq(V)
  BY RootParts
<1>2. \A i \in DOMAIN B : \E n \in DOMAIN now_roots : now_roots[n] = B[i]
  BY ONLY <1>1, ThreeParts
<1>3. j \in DOMAIN B /\ B[j] = abs_word(stack[j])
  BY DEF shown
<1> QED BY <1>2, <1>3

parted(s, A, B, C) ==
  /\ Len(s) = Len(A) + Len(B) + Len(C)
  /\ \A i \in 1 .. Len(A) : s[i] = A[i]
  /\ \A i \in Len(A) + 1 .. Len(A) + Len(B) : s[i] = B[i - Len(A)]
  /\ \A i \in 1 .. Len(C) : s[Len(A) + Len(B) + i] = C[i]

LEMMA Parted ==
  ASSUME NEW V, NEW A \in Seq(V), NEW B \in Seq(V), NEW C \in Seq(V)
  PROVE  joined(A, B, C) \in Seq(V) /\ parted(joined(A, B, C), A, B, C)
<1> PICK x : x = Len(A) OBVIOUS
<1> PICK y : y = Len(B) OBVIOUS
<1> PICK z : z = Len(C) OBVIOUS
<1> PICK s : s = joined(A, B, C) OBVIOUS
<1> PICK t : t = A \o B OBVIOUS
<1>1. x \in Nat /\ y \in Nat /\ z \in Nat
  OBVIOUS
<1>2. t \in Seq(V) /\ Len(t) = x + y /\ s = t \o C
      /\ \A i \in 1 .. x + y : t[i] = IF i <= x THEN A[i] ELSE B[i - x]
  BY DEF joined
<1>3. Len(s) = x + y + z /\ s \in Seq(V)
      /\ \A i \in 1 .. x + y + z : s[i] = IF i <= x + y THEN t[i] ELSE C[i - (x + y)]
  BY <1>2
<1>4. ASSUME NEW i \in 1 .. x PROVE s[i] = A[i]
  <2>1. i \in 1 .. x + y + z /\ i <= x + y /\ i \in 1 .. x + y /\ i <= x
    BY <1>1
  <2> QED BY <1>2, <1>3, <2>1
<1>5. ASSUME NEW i \in x + 1 .. x + y PROVE s[i] = B[i - x]
  <2>1. i \in 1 .. x + y + z /\ i <= x + y /\ i \in 1 .. x + y /\ ~(i <= x)
    BY <1>1
  <2> QED BY <1>2, <1>3, <2>1
<1>6. ASSUME NEW i \in 1 .. z PROVE s[x + y + i] = C[i]
  <2> PICK k : k = x + y + i OBVIOUS
  <2>1. k \in 1 .. x + y + z /\ ~(k <= x + y) /\ k - (x + y) = i
    BY ONLY <1>1, i \in 1 .. z, k = x + y + i
  <2>2. s[k] = C[k - (x + y)]
    BY <1>3, <2>1
  <2> QED BY <2>1, <2>2
<1> QED BY <1>3, <1>4, <1>5, <1>6 DEF parted

\* The last n of the roots s are replaced by the value w.
replaced(s, t, n, w) ==
  /\ t # << >> /\ t[Len(t)] = w /\ n \in 0 .. Len(s)
  /\ SubSeq(t, 1, Len(t) - 1) = SubSeq(s, 1, Len(s) - n)

\* The roots from which k words of the stack, or none, and all cells are popped.
LEMMA PoppedRoots ==
  ASSUME NEW V, NEW A \in Seq(V), NEW B \in Seq(V), NEW C \in Seq(V), NEW w \in V,
         NEW k, k \in 0 .. Len(B), k = 0 \/ C = << >>, NEW D, D = Append(SubSeq(B, 1, Len(B) - k), w),
         NEW s, s = joined(A, B, C), NEW t, t = joined(A, D, << >>),
         NEW n, n = k + Len(C)
  PROVE  replaced(s, t, n, w)
<1> PICK x \in Nat, y \in Nat, z \in Nat : x = Len(A) /\ y = Len(B) /\ z = Len(C)
  OBVIOUS
<1> PICK m : m = y - k
  OBVIOUS
<1>1. /\ m \in Nat /\ x \in Nat /\ y \in Nat /\ z \in Nat /\ k \in Nat
      /\ m <= y /\ k <= y /\ n = k + z /\ (k = 0 \/ z = 0) /\ y - k = m
  <2>1. x \in Nat /\ y \in Nat /\ z \in Nat /\ k \in 0 .. y /\ n = k + z /\ (k = 0 \/ z = 0)
    OBVIOUS
  <2> QED BY ONLY <2>1, m = y - k
<1> PICK E : E = SubSeq(B, 1, m) OBVIOUS
<1>2. E \in Seq(V) /\ Len(E) = m /\ \A i \in 1 .. m : E[i] = B[i]
  <2>1. \A i \in 1 .. m : B[i] \in V
    <3>1. \A i \in 1 .. m : i \in 1 .. y
      BY ONLY <1>1
    <3> QED BY ONLY <3>1, B \in Seq(V), y = Len(B)
  <2>2. E \in Seq(V) /\ Len(E) = (IF 1 <= m THEN m - 1 + 1 ELSE 0)
        /\ \A i \in 1 .. m - 1 + 1 : E[i] = B[1 + i - 1]
    BY ONLY <1>1, <2>1, E = SubSeq(B, 1, m), SubSeqProperties
  <2> QED BY ONLY <1>1, <2>2
<1>3. D \in Seq(V) /\ Len(D) = m + 1 /\ D[m + 1] = w /\ \A i \in 1 .. m : D[i] = E[i]
  <2>1. D = Append(E, w)
    BY <1>1
  <2>2. /\ Append(E, w) \in Seq(V) /\ Len(Append(E, w)) = Len(E) + 1
        /\ \A i \in 1 .. Len(E) : Append(E, w)[i] = E[i] /\ Append(E, w)[Len(E) + 1] = w
    BY ONLY <1>2, w \in V, AppendProperties
  <2> QED BY ONLY <1>2, <2>1, <2>2
<1>4. /\ s \in Seq(V) /\ Len(s) = x + y + z /\ \A i \in 1 .. x : s[i] = A[i]
      /\ \A i \in x + 1 .. x + y : s[i] = B[i - x]
  <2>1. A \in Seq(V) /\ B \in Seq(V) /\ C \in Seq(V) /\ s = joined(A, B, C)
        /\ x = Len(A) /\ y = Len(B) /\ z = Len(C)
    OBVIOUS
  <2>2. s \in Seq(V) /\ parted(s, A, B, C)
    BY ONLY <2>1, Parted
  <2> QED BY ONLY <2>1, <2>2 DEF parted
<1>5. /\ t \in Seq(V) /\ Len(t) = x + (m + 1) + 0 /\ \A i \in 1 .. x : t[i] = A[i]
      /\ \A i \in x + 1 .. x + (m + 1) : t[i] = D[i - x]
  <2> PICK u : u = m + 1 OBVIOUS
  <2> PICK N : N = << >> OBVIOUS
  <2>1. N \in Seq(V) /\ 0 = Len(N)
    OBVIOUS
  <2>2. A \in Seq(V) /\ D \in Seq(V) /\ x = Len(A) /\ t = joined(A, D, N) /\ u = Len(D)
    BY <1>3
  <2>3. /\ t \in Seq(V) /\ Len(t) = x + u + 0 /\ \A i \in 1 .. x : t[i] = A[i]
        /\ \A i \in x + 1 .. x + u : t[i] = D[i - x]
    <3>1. t \in Seq(V) /\ parted(t, A, D, N)
      BY ONLY <2>1, <2>2, Parted
    <3> QED BY ONLY <2>1, <2>2, <3>1 DEF parted
  <2> QED BY ONLY <2>3, u = m + 1
<1>6. t # << >> /\ t[Len(t)] = w
  <2> PICK q : q = x + (m + 1)
    OBVIOUS
  <2>1. q \in x + 1 .. x + (m + 1) /\ q - x = m + 1 /\ q > 0 /\ q = Len(t)
    BY ONLY <1>1, <1>5, q = x + (m + 1)
  <2>2. t[q] = D[q - x]
    BY ONLY <1>5, <2>1
  <2>3. t # << >>
    <3>1. Len(<< >>) = 0
      OBVIOUS
    <3> QED BY <2>1, <3>1
  <2> QED BY ONLY <1>3, <2>1, <2>2, <2>3
<1>7. n \in 0 .. Len(s) /\ Len(s) - n = x + m /\ Len(t) - 1 = x + m
  BY ONLY <1>1, <1>4, <1>5
<1>8. ASSUME NEW i \in 1 .. x + m PROVE t[i] = s[i] /\ t[i] \in V
  <2>1. CASE i <= x
    <3>1. i \in 1 .. x
      BY ONLY <1>1, <2>1, i \in 1 .. x + m
    <3>2. A \in Seq(V) /\ x = Len(A)
      OBVIOUS
    <3>3. A[i] \in V
      BY ONLY <3>1, <3>2
    <3> QED BY ONLY <1>4, <1>5, <3>1, <3>3
  <2>2. CASE ~(i <= x)
    <3> PICK j : j = i - x
      OBVIOUS
    <3>1. i \in x + 1 .. x + y /\ i \in x + 1 .. x + (m + 1) /\ j \in 1 .. m /\ i - x = j
          /\ j \in 1 .. y
      BY ONLY <1>1, <2>2, i \in 1 .. x + m, j = i - x
    <3>2. s[i] = B[j] /\ t[i] = D[j] /\ D[j] = E[j] /\ E[j] = B[j]
      BY ONLY <1>2, <1>3, <1>4, <1>5, <3>1
    <3>3. E[j] \in V
      <4>1. j \in 1 .. Len(E)
        BY ONLY <1>2, <3>1
      <4> QED BY ONLY <1>2, <4>1
    <3> QED BY <3>2, <3>3
  <2> QED BY <2>1, <2>2
<1>9. SubSeq(t, 1, x + m) = SubSeq(s, 1, x + m)
  <2> PICK q : q = x + m OBVIOUS
  <2>1. \A i \in 1 .. q : t[i] \in V /\ s[i] \in V
    BY <1>8
  <2> PICK p : p = SubSeq(t, 1, q) OBVIOUS
  <2> PICK r : r = SubSeq(s, 1, q) OBVIOUS
  <2>2. q \in Nat /\ q - 1 + 1 = q
    BY ONLY <1>1, q = x + m
  <2>3. /\ p \in Seq(V) /\ Len(p) = (IF 1 <= q THEN q - 1 + 1 ELSE 0)
        /\ \A i \in 1 .. q - 1 + 1 : p[i] = t[1 + i - 1]
    BY ONLY <2>1, <2>2, SubSeqProperties, p = SubSeq(t, 1, q)
  <2>4. /\ r \in Seq(V) /\ Len(r) = (IF 1 <= q THEN q - 1 + 1 ELSE 0)
        /\ \A i \in 1 .. q - 1 + 1 : r[i] = s[1 + i - 1]
    BY ONLY <2>1, <2>2, SubSeqProperties, r = SubSeq(s, 1, q)
  <2>5. /\ Len(p) = q /\ Len(r) = q /\ \A i \in 1 .. q : p[i] = t[i] /\ r[i] = s[i]
    BY ONLY <2>2, <2>3, <2>4
  <2>6. \A i \in 1 .. q : p[i] = r[i]
    BY ONLY <1>8, <2>5, q = x + m
  <2> QED BY ONLY <2>3, <2>4, <2>5, <2>6, SeqEqual, p = SubSeq(t, 1, q), r = SubSeq(s, 1, q), q = x + m
<1> QED BY <1>6, <1>7, <1>9 DEF replaced

\* Without cells the last roots are the last words of the stack.
last_of(s, k) == SubSeq(s, Len(s) - k + 1, Len(s))

LEMMA LastRoots ==
  ASSUME NEW V, NEW A \in Seq(V), NEW B \in Seq(V), NEW k \in 0 .. Len(B),
         NEW s, s = joined(A, B, << >>)
  PROVE  last_of(s, k) = last_of(B, k)
<1> PICK x \in Nat, y \in Nat : x = Len(A) /\ y = Len(B)
  OBVIOUS
<1>0. x \in Nat /\ y \in Nat /\ k \in Nat /\ k <= y /\ x = Len(A) /\ y = Len(B)
  OBVIOUS
<1>1. /\ s \in Seq(V) /\ Len(s) = x + y + 0 /\ \A i \in x + 1 .. x + y : s[i] = B[i - x]
  <2> PICK N : N = << >> OBVIOUS
  <2>1. N \in Seq(V) /\ 0 = Len(N)
    OBVIOUS
  <2>2. A \in Seq(V) /\ B \in Seq(V) /\ s = joined(A, B, N) /\ x = Len(A) /\ y = Len(B)
    OBVIOUS
  <2>3. s \in Seq(V) /\ parted(s, A, B, N)
    BY ONLY <2>1, <2>2, Parted
  <2> QED BY ONLY <2>1, <2>2, <2>3 DEF parted
<1>2. Len(s) = x + y
  BY ONLY <1>0, <1>1
<1> PICK p : p = SubSeq(s, x + y - k + 1, x + y) OBVIOUS
<1> PICK r : r = SubSeq(B, y - k + 1, y) OBVIOUS
<1>3. /\ p \in Seq(V) /\ Len(p) = k /\ \A i \in 1 .. k : p[i] = s[x + y - k + i]
  <2> PICK a : a = x + y - k + 1
    OBVIOUS
  <2> PICK b : b = x + y
    OBVIOUS
  <2>0. a \in Int /\ b \in Int
    BY ONLY <1>0, a = x + y - k + 1, b = x + y
  <2>1. \A i \in a .. b : s[i] \in V
    <3>1. \A i \in a .. b : i \in 1 .. Len(s)
      BY ONLY <1>0, <1>2, a = x + y - k + 1, b = x + y
    <3> QED BY ONLY <1>1, <3>1
  <2>2. /\ p \in Seq(V) /\ Len(p) = (IF a <= b THEN b - a + 1 ELSE 0)
        /\ \A i \in 1 .. b - a + 1 : p[i] = s[a + i - 1]
    BY ONLY <2>0, <2>1, SubSeqProperties, p = SubSeq(s, x + y - k + 1, x + y),
            a = x + y - k + 1, b = x + y
  <2>3. /\ b - a + 1 = k /\ (~(a <= b) => k = 0)
        /\ \A i \in 1 .. k : a + i - 1 = x + y - k + i
    BY ONLY <1>0, a = x + y - k + 1, b = x + y
  <2> QED BY ONLY <2>2, <2>3
<1>4. /\ r \in Seq(V) /\ Len(r) = k /\ \A i \in 1 .. k : r[i] = B[y - k + i]
  <2> PICK a : a = y - k + 1
    OBVIOUS
  <2>0. a \in Int /\ y \in Int
    BY ONLY <1>0, a = y - k + 1
  <2>1. \A i \in a .. y : B[i] \in V
    <3>1. \A i \in a .. y : i \in 1 .. Len(B)
      BY ONLY <1>0, a = y - k + 1
    <3> QED BY ONLY B \in Seq(V), <3>1
  <2>2. /\ r \in Seq(V) /\ Len(r) = (IF a <= y THEN y - a + 1 ELSE 0)
        /\ \A i \in 1 .. y - a + 1 : r[i] = B[a + i - 1]
    BY ONLY <2>0, <2>1, SubSeqProperties, r = SubSeq(B, y - k + 1, y), a = y - k + 1
  <2>3. /\ y - a + 1 = k /\ (~(a <= y) => k = 0)
        /\ \A i \in 1 .. k : a + i - 1 = y - k + i
    BY ONLY <1>0, a = y - k + 1
  <2> QED BY ONLY <2>2, <2>3
<1>5. ASSUME NEW i \in 1 .. k PROVE p[i] = r[i]
  <2> PICK j : j = x + y - k + i
    OBVIOUS
  <2>1. j \in x + 1 .. x + y /\ j - x = y - k + i
    BY ONLY <1>0, i \in 1 .. k, j = x + y - k + i
  <2>2. s[j] = B[j - x]
    BY ONLY <1>1, <2>1
  <2> QED BY ONLY <1>3, <1>4, <2>1, <2>2, i \in 1 .. k, j = x + y - k + i
<1>6. p = r
  BY ONLY <1>3, <1>4, <1>5, SeqEqual
<1>7. Len(s) - k + 1 = x + y - k + 1 /\ Len(s) = x + y /\ Len(B) - k + 1 = y - k + 1 /\ Len(B) = y
  BY ONLY <1>0, <1>2
<1> QED BY <1>6, <1>7 DEF last_of

\* An object is allocated: it is numbered cur_id, it lies at heap.current, and
\* what words that were there before show stays the same.
placed(o, at, p) == /\ o.id = cur_id /\ at = heap.current /\ p = new_address
                    /\ mem' = [a \in DOMAIN mem \cup {at} |-> IF a = at THEN o ELSE mem[a]]

LEMMA NewValues ==
  ASSUME View, View', NEW o, NEW at, NEW p, placed(o, at, p)
  PROVE  /\ at \in Nat /\ at \notin DOMAIN mem /\ DOMAIN mem' = DOMAIN mem \cup {at} /\ mem'[at] = o
         /\ \A a \in DOMAIN mem : mem'[a] = mem[a]
         /\ \A q \in references(DOMAIN mem) : abs_word(q)' = abs_word(q)
         /\ p \in Nat /\ TO_DATA(p) = at /\ ~outside(p) /\ abs_word(p)' = <<"ref", cur_id>>
<1>1. at \in Nat /\ at \notin DOMAIN mem
  BY DEF View, Places, placed
<1>2. DOMAIN mem' = DOMAIN mem \cup {at} /\ mem'[at] = o /\ \A a \in DOMAIN mem : mem'[a] = mem[a]
  BY <1>1 DEF placed
<1>3. ASSUME NEW q \in references(DOMAIN mem)
      PROVE  abs_word(q) = IF outside(q) THEN <<"word", q>> ELSE <<"ref", mem[TO_DATA(q)].id>>
  <2>1. abs_word(q) = value(names_now, q)
    BY DEF View
  <2> QED BY <2>1 DEF value, names_now, references
<1>4. \A q \in references(DOMAIN mem)' : abs_word(q)' = value(names_now, q)'
  BY DEF View
<1>5. ASSUME NEW q \in references(DOMAIN mem')
      PROVE  abs_word(q)' = IF outside(q) THEN <<"word", q>> ELSE <<"ref", mem'[TO_DATA(q)].id>>
  <2>1. q \in references(DOMAIN mem)'
    BY DEF references, outside
  <2>2. abs_word(q)' = value(names_now, q)'
    BY <1>4, <2>1
  <2>3. value(names_now, q)' = IF outside(q) THEN <<"word", q>> ELSE <<"ref", mem'[TO_DATA(q)].id>>
    BY DEF value, names_now, references, outside
  <2> QED BY <2>2, <2>3
<1>6. ASSUME NEW q \in references(DOMAIN mem) PROVE abs_word(q)' = abs_word(q)
  <2>1. q \in references(DOMAIN mem') /\ (outside(q) \/ TO_DATA(q) \in DOMAIN mem)
    BY <1>2 DEF references
  <2> QED BY <1>2, <1>3, <1>5, <2>1
<1>7. p = at + 8
  BY DEF placed, new_address, get_object_content_ptr, DATA_HEADER_SZ
<1>8. p \in Nat /\ TO_DATA(p) = at
  BY ONLY <1>1, <1>7 DEF TO_DATA, DATA_HEADER_SZ
<1>9. ~outside(p)
  <2>1. is_object(p)'
    BY <1>2, <1>8 DEF is_object, TO_DATA, DATA_HEADER_SZ
  <2>2. ~outside(p)'
    BY <1>8, <2>1 DEF View
  <2> QED BY <2>2 DEF outside
<1>10. abs_word(p)' = <<"ref", cur_id>>
  <2>1. p \in references(DOMAIN mem')
    BY <1>2, <1>8 DEF references
  <2> QED BY <1>2, <1>5, <1>8, <1>9, <2>1 DEF placed
<1> QED BY <1>1, <1>2, <1>6, <1>8, <1>9, <1>10

\* What an object shows that has not changed, or is new.
LEMMA SameShown ==
  ASSUME NEW a, NEW q, mem'[a] = q,
         \A i \in fields(q) : abs_word(q.words[i])' = abs_word(q.words[i])
  PROVE  abs_object(mem[a])' = abs_object(q)
<1>1. abs_words(mem[a])' = [j \in DOMAIN q.words |->
        IF j \in fields(q) THEN abs_word(q.words[j])' ELSE <<"word", q.words[j]>>]
  BY DEF abs_words, fields
<1>2. abs_words(mem[a])' = abs_words(q)
  BY <1>1 DEF abs_words
<1> QED BY <1>2 DEF abs_object

\* The live part of the graph that the new object is added to.
with_object(g, d, o) == [x \in DOMAIN g \cup {d} |-> IF x = d THEN o ELSE g[x]]

LEMMA GraphExtended ==
  ASSUME NEW g, NEW h, NEW rs, NEW ro, NEW d \in DOMAIN h, d \notin DOMAIN g,
         whole(ro, g), whole(rs, h), DOMAIN h \subseteq DOMAIN g \cup {d},
         \A e \in DOMAIN g \cap DOMAIN h : h[e] = g[e]
  PROVE  h = Objects!live_part(with_object(g, d, h[d]), rs)
<1> PICK g1 : g1 = with_object(g, d, h[d]) OBVIOUS
<1>1. DOMAIN g1 = DOMAIN g \cup {d} /\ g1[d] = h[d] /\ \A e \in DOMAIN g : g1[e] = g[e]
  BY DEF with_object
<1>2. closed_graph(g1)
  <2>1. ASSUME NEW e \in DOMAIN g PROVE refs_of(g1[e].words) \subseteq DOMAIN g1
    <3>1. refs_of(g[e].words) \subseteq DOMAIN g
      BY DEF whole, closed_graph
    <3> QED BY <1>1, <3>1
  <2>2. refs_of(g1[d].words) \subseteq DOMAIN g1
    <3>1. refs_of(h[d].words) \subseteq DOMAIN h
      BY DEF whole, closed_graph
    <3> QED BY <1>1, <3>1
  <2> QED BY <1>1, <2>1, <2>2 DEF closed_graph
<1>3. IsFiniteSet(DOMAIN g1)
  <2>1. IsFiniteSet(DOMAIN g)
    BY DEF whole
  <2>2. IsFiniteSet(DOMAIN g \cup {d})
    BY <2>1, FS_AddElement
  <2> QED BY <1>1, <2>2
<1>4. refs_of(rs) \subseteq DOMAIN g1
  BY <1>1 DEF whole
<1>5. \A e \in DOMAIN g1 \cap DOMAIN h : h[e] = g1[e]
  BY <1>1
<1>6. whole(rs, h)
  OBVIOUS
<1> QED BY ONLY <1>2, <1>3, <1>4, <1>5, <1>6, LivePart, g1 = with_object(g, d, h[d])

\* What the words of a new object show: its contents, where they are fields.
filled(o, c) == o = new_object(c)
shows_fields(o, c) ==
  /\ abs_words(o) = [i \in DOMAIN c |-> abs_words(o)[i]]
  /\ \A i \in DOMAIN c :
       /\ i \in fields(o) => abs_words(o)[i] = abs_word(c[i])
       /\ i \notin fields(o) => abs_words(o)[i] = <<"word", c[i]>>

LEMMA FreshShown ==
  ASSUME NEW c, NEW o, filled(o, c)
  PROVE  /\ o.id = cur_id /\ o.type = req.type /\ o.len = req.len /\ o.words = c
         /\ abs_object(o).type = req.type /\ abs_object(o).len = req.len
         /\ abs_object(o).words = abs_words(o)
         /\ fields(o) = first_field(req.type, req.len) .. Len(c)
         /\ shows_fields(o, c)
<1>1. abs_words(o) = [i \in DOMAIN c |-> IF i \in fields(o) THEN abs_word(c[i]) ELSE <<"word", c[i]>>]
  BY DEF filled, new_object, abs_words, fields
<1>2. shows_fields(o, c)
  BY <1>1 DEF shows_fields
<1> QED BY <1>2 DEF filled, new_object, abs_object, fields

LEMMA TailOf ==
  ASSUME NEW k \in Nat, NEW v, v = [i \in 1 .. k + 1 |-> v[i]]
  PROVE  Tail(v) = [i \in 1 .. k |-> v[i + 1]]
<1> PICK m : m = k + 1 OBVIOUS
<1> PICK T : T = {v[i] : i \in 1 .. m} OBVIOUS
<1>1. m \in Nat
  BY ONLY k \in Nat, m = k + 1
<1>2. v = [i \in 1 .. m |-> v[i]] /\ \A i \in 1 .. m : v[i] \in T
  OBVIOUS
<1>3. v \in Seq(T) /\ Len(v) = m
  BY ONLY <1>1, <1>2, FunctionIsSeq
<1>4. v # << >>
  <2>1. Len(<< >>) = 0
    OBVIOUS
  <2> QED BY ONLY <1>3, <2>1, k \in Nat, m = k + 1
<1> PICK u : u = Tail(v) OBVIOUS
<1>5. u \in Seq(T) /\ Len(u) = Len(v) - 1 /\ \A i \in 1 .. Len(u) : u[i] = v[i + 1]
  BY ONLY <1>3, <1>4, HeadTailProperties, u = Tail(v)
<1>6. Len(u) = k
  BY ONLY <1>3, <1>5, k \in Nat, m = k + 1
<1>7. u = [i \in 1 .. k |-> u[i]]
  BY ONLY <1>5, <1>6
<1> QED BY ONLY <1>5, <1>6, <1>7, u = Tail(v)

\* An object that starts with a word that is no field.
LEMMA PrefixShown ==
  ASSUME NEW R, NEW c \in Seq(R), NEW k, k = Len(c), NEW w, NEW e, e = <<w>> \o c,
         NEW o, filled(o, e), req.type \in {"SEXP", "CLOSURE"}
  PROVE  /\ \A i \in fields(o) : o.words[i] \in R
         /\ abs_object(o).type = req.type /\ abs_object(o).len = req.len
         /\ Tail(abs_object(o).words) = shown(c)
<1>1. c \in Seq(R) /\ Len(c) = k /\ k \in Nat
  OBVIOUS
<1>2. /\ DOMAIN e = 1 .. k + 1 /\ Len(e) = k + 1 /\ e[1] = w /\ \A i \in 1 .. k : e[i + 1] = c[i]
  <2>1. e = <<w>> \o c
    OBVIOUS
  <2> QED BY ONLY <1>1, <2>1
<1>3. /\ o.words = e /\ fields(o) = 2 .. k + 1 /\ shows_fields(o, e)
      /\ abs_object(o).type = req.type /\ abs_object(o).len = req.len
      /\ abs_object(o).words = abs_words(o)
  <2>1. /\ o.words = e /\ fields(o) = first_field(req.type, req.len) .. Len(e) /\ shows_fields(o, e)
        /\ abs_object(o).type = req.type /\ abs_object(o).len = req.len
        /\ abs_object(o).words = abs_words(o)
    BY ONLY filled(o, e), FreshShown
  <2> QED BY <1>2, <2>1 DEF first_field
<1>4. \A i \in fields(o) : o.words[i] \in R
  <2>1. ASSUME NEW i \in 2 .. k + 1 PROVE e[i] \in R
    <3>1. PICK j : j = i - 1
      OBVIOUS
    <3>2. j \in 1 .. k /\ i = j + 1
      BY ONLY <1>1, <3>1, i \in 2 .. k + 1
    <3>3. e[i] = c[j]
      BY ONLY <1>2, <3>2
    <3> QED BY ONLY <1>1, <3>2, <3>3
  <2> QED BY <1>3, <2>1
<1> PICK v : v = abs_words(o) OBVIOUS
<1>5. v = [i \in 1 .. k + 1 |-> v[i]] /\ \A i \in 2 .. k + 1 : v[i] = abs_word(e[i])
  <2>1. /\ v = [i \in DOMAIN e |-> v[i]]
        /\ \A i \in DOMAIN e : i \in fields(o) => v[i] = abs_word(e[i])
    BY <1>3 DEF shows_fields
  <2>2. \A i \in 2 .. k + 1 : i \in DOMAIN e /\ i \in fields(o)
    BY ONLY <1>1, <1>2, <1>3
  <2> QED BY ONLY <1>2, <2>1, <2>2
<1>6. Tail(v) = shown(c)
  <2>1. Tail(v) = [i \in 1 .. k |-> v[i + 1]]
    BY ONLY <1>1, <1>5, TailOf
  <2>2. \A i \in 1 .. k : v[i + 1] = abs_word(c[i])
    <3>1. \A i \in 1 .. k : i + 1 \in 2 .. k + 1 /\ i + 1 \in 1 .. k + 1
      BY ONLY <1>1
    <3> QED BY ONLY <1>2, <1>5, <3>1
  <2>3. shown(c) = [i \in 1 .. k |-> abs_word(c[i])]
    BY <1>1 DEF shown
  <2> QED BY ONLY <2>1, <2>2, <2>3
<1> QED BY <1>3, <1>4, <1>6
===============================================================================
