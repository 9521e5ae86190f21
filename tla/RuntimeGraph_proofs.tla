-------------------------- MODULE RuntimeGraph_proofs --------------------------
(***************************************************************************)
(* The runtime functions that allocate implement the graph of objects of   *)
(* module RuntimeGraph.  What the program sees while no collection is      *)
(* under way is the part of the graph that its own variables lead to; a    *)
(* call moves the registered cells and leaves it alone, a return adds one  *)
(* object to it, and each kind of step has a lemma that says so.           *)
(***************************************************************************)
EXTENDS RuntimeCalls_proofs

-------------------------------------------------------------------------------
(* The live part of a graph *)

LEMMA RuntimeValues == ASSUME NEW vs PROVE Runtime!refs(Runtime!range(vs)) = refs_of(vs)
BY DEF Runtime!refs, Runtime!range, refs_of

LEMMA RuntimeLivePart ==
  ASSUME NEW g, NEW rs
  PROVE  /\ Runtime!live_part(g, rs) = Objects!live_part(g, rs)
         /\ OG!live_part(g, rs) = Objects!live_part(g, rs)
<1>1. Runtime!live_part(g, rs) = Objects!live_part(g, rs)
  BY DEF Runtime!live_part, Runtime!reachable, Runtime!successors, Runtime!refs, Runtime!range,
     Runtime!Cardinality, Objects!live_part, Objects!reachable, Objects!successors, Objects!refs,
     Objects!range, Objects!Cardinality
<1>2. OG!live_part(g, rs) = Objects!live_part(g, rs)
  BY DEF OG!live_part, OG!reachable, OG!successors, OG!refs, OG!range,
     OG!Cardinality, Objects!live_part, Objects!reachable, Objects!successors, Objects!refs,
     Objects!range, Objects!Cardinality
<1> QED BY <1>1, <1>2

\* The live part of a closed graph that the roots point into is whole.
LEMMA LivePartWhole ==
  ASSUME NEW g, IsFiniteSet(DOMAIN g), closed_graph(g), NEW rs, refs_of(rs) \subseteq DOMAIN g,
         NEW h, h = Objects!live_part(g, rs)
  PROVE  /\ whole(rs, h) /\ DOMAIN h \subseteq DOMAIN g
         /\ \A d \in DOMAIN h : h[d] = g[d]
<1> PICK r : r = Objects!reachable(refs_of(rs), g) OBVIOUS
<1>1. /\ r \in SUBSET DOMAIN g /\ refs_of(rs) \cap DOMAIN g \subseteq r
      /\ \A d \in r : refs_of(g[d].words) \cap DOMAIN g \subseteq r
      /\ \A D \in SUBSET DOMAIN g :
           /\ refs_of(rs) \cap DOMAIN g \subseteq D
           /\ \A d \in D : refs_of(g[d].words) \cap DOMAIN g \subseteq D
           => r \subseteq D
  BY Reachable
<1>2. h = [d \in r |-> g[d]]
  BY GraphRefs DEF Objects!live_part
<1>3. DOMAIN h = r /\ h = [d \in DOMAIN h |-> h[d]] /\ \A d \in DOMAIN h : h[d] = g[d]
  BY <1>2
<1>4. IsFiniteSet(DOMAIN h)
  BY <1>1, <1>3, FS_Subset
<1>5. refs_of(rs) \subseteq DOMAIN h
  BY <1>1, <1>3
<1>6. closed_graph(h)
  BY <1>1, <1>3 DEF closed_graph
<1>7. ASSUME NEW D \in SUBSET DOMAIN h, refs_of(rs) \subseteq D,
             \A d \in D : refs_of(h[d].words) \subseteq D
      PROVE  D = DOMAIN h
  <2>1. D \in SUBSET DOMAIN g /\ \A d \in D : h[d] = g[d]
    BY <1>1, <1>3
  <2>2. \A d \in D : refs_of(g[d].words) \cap DOMAIN g \subseteq D
    BY <1>7, <2>1
  <2> QED BY <1>1, <1>3, <1>7, <2>1, <2>2
<1> QED BY <1>1, <1>3, <1>4, <1>5, <1>6, <1>7 DEF whole

\* Roots that are words reach nothing.
LEMMA NothingReached ==
  ASSUME NEW rs, NEW h, whole(rs, h), refs_of(rs) = {} PROVE h = << >> /\ DOMAIN h = {}
<1>1. DOMAIN h = {} /\ h = [d \in DOMAIN h |-> h[d]]
  BY DEF whole
<1>2. DOMAIN h = {} /\ h = [d \in {} |-> h[d]]
  BY <1>1
<1> QED BY <1>2

-------------------------------------------------------------------------------
(* The roots that the program sees *)

laid(s, f, A, B) ==
  /\ Len(s) = 1 + Len(A) + Len(B) /\ s[1] = f
  /\ \A i \in 1 .. Len(A) : s[1 + i] = A[i]
  /\ \A i \in 1 .. Len(B) : s[1 + Len(A) + i] = B[i]

behind(f, A, B, C) == <<f>> \o SubSeq(joined(A, B, C), 1, Len(A) + Len(B))

LEMMA Laid ==
  ASSUME NEW V, NEW f \in V, NEW A \in Seq(V), NEW B \in Seq(V), NEW C \in Seq(V),
         NEW s, s = behind(f, A, B, C)
  PROVE  /\ s \in Seq(V) /\ laid(s, f, A, B)
         /\ <<f>> \o A \in Seq(V) /\ s = joined(<<f>> \o A, B, << >>)
<1> PICK j : j = joined(A, B, C) OBVIOUS
<1> PICK x \in Nat : x = Len(A) OBVIOUS
<1> PICK y \in Nat : y = Len(B) OBVIOUS
<1> PICK n : n = x + y OBVIOUS
<1> PICK u : u = SubSeq(j, 1, n) OBVIOUS
<1>1. /\ j \in Seq(V) /\ Len(j) = x + y + Len(C) /\ \A i \in 1 .. x : j[i] = A[i]
      /\ \A i \in x + 1 .. x + y : j[i] = B[i - x]
  <2>1. j \in Seq(V) /\ parted(j, A, B, C)
    BY ONLY A \in Seq(V), B \in Seq(V), C \in Seq(V), j = joined(A, B, C), Parted
  <2> QED BY ONLY <2>1, x = Len(A), y = Len(B) DEF parted
<1>2. n \in Nat /\ x \in Nat /\ y \in Nat /\ Len(C) \in Nat /\ n <= Len(j) /\ Len(j) \in Nat
  <2>1. Len(C) \in Nat
    OBVIOUS
  <2> QED BY ONLY <1>1, <2>1, x \in Nat, y \in Nat, n = x + y
<1>3. u \in Seq(V) /\ Len(u) = n /\ \A i \in 1 .. n : u[i] = j[i]
  <2>1. \A i \in 1 .. n : j[i] \in V
    <3>1. \A i \in 1 .. n : i \in 1 .. Len(j)
      BY ONLY <1>2
    <3> QED BY ONLY <1>1, <3>1
  <2>2. u \in Seq(V) /\ Len(u) = (IF 1 <= n THEN n - 1 + 1 ELSE 0)
        /\ \A i \in 1 .. n - 1 + 1 : u[i] = j[1 + i - 1]
    BY ONLY <1>2, <2>1, SubSeqProperties, u = SubSeq(j, 1, n)
  <2> QED BY ONLY <1>2, <2>2
<1> PICK F : F = <<f>> OBVIOUS
<1>4. F \in Seq(V) /\ Len(F) = 1 /\ F[1] = f
  OBVIOUS
<1>5. s = F \o u
  BY DEF behind
<1>6. /\ s \in Seq(V) /\ Len(s) = 1 + n
      /\ \A i \in 1 .. 1 + n : s[i] = IF i <= 1 THEN F[i] ELSE u[i - 1]
  <2>1. /\ F \o u \in Seq(V) /\ Len(F \o u) = Len(F) + Len(u)
        /\ \A i \in 1 .. Len(F) + Len(u) : (F \o u)[i] = IF i <= Len(F) THEN F[i] ELSE u[i - Len(F)]
    BY ONLY <1>3, <1>4, ConcatProperties
  <2> QED BY ONLY <1>3, <1>4, <1>5, <2>1
<1>7. s[1] = f /\ \A i \in 1 .. x : s[1 + i] = A[i]
  <2>1. 1 \in 1 .. 1 + n /\ s[1] = F[1]
    BY ONLY <1>2, <1>6
  <2>2. ASSUME NEW i \in 1 .. x PROVE s[1 + i] = A[i]
    <3>1. 1 + i \in 1 .. 1 + n /\ ~(1 + i <= 1) /\ (1 + i) - 1 = i /\ i \in 1 .. n
      BY ONLY <1>2, n = x + y, i \in 1 .. x
    <3> QED BY ONLY <1>1, <1>3, <1>6, <3>1, i \in 1 .. x
  <2> QED BY <1>4, <2>1, <2>2
<1>8. \A i \in 1 .. y : s[1 + x + i] = B[i]
  <2> SUFFICES ASSUME NEW i \in 1 .. y PROVE s[1 + x + i] = B[i]
    OBVIOUS
  <2>1. 1 + x + i \in 1 .. 1 + n /\ ~(1 + x + i <= 1) /\ (1 + x + i) - 1 = x + i /\ x + i \in 1 .. n
        /\ x + i \in x + 1 .. x + y /\ (x + i) - x = i
    BY ONLY <1>2, n = x + y, i \in 1 .. y
  <2> QED BY ONLY <1>1, <1>3, <1>6, <2>1
<1>9. laid(s, f, A, B)
  <2>1. Len(s) = 1 + x + y
    BY ONLY <1>2, <1>6, n = x + y
  <2> QED BY ONLY <1>7, <1>8, <2>1, x = Len(A), y = Len(B) DEF laid
<1> PICK G : G = F \o A OBVIOUS
<1>10. /\ G \in Seq(V) /\ Len(G) = 1 + x
       /\ \A i \in 1 .. 1 + x : G[i] = IF i <= 1 THEN F[i] ELSE A[i - 1]
  <2>1. /\ F \o A \in Seq(V) /\ Len(F \o A) = Len(F) + Len(A)
        /\ \A i \in 1 .. Len(F) + Len(A) : (F \o A)[i] = IF i <= Len(F) THEN F[i] ELSE A[i - Len(F)]
    BY ONLY <1>4, A \in Seq(V), ConcatProperties
  <2> QED BY ONLY <1>4, <2>1, x = Len(A), G = F \o A
<1> PICK N : N = << >> OBVIOUS
<1> PICK t : t = joined(G, B, N) OBVIOUS
<1>11. /\ t \in Seq(V) /\ Len(t) = (1 + x) + y + 0 /\ \A i \in 1 .. 1 + x : t[i] = G[i]
       /\ \A i \in (1 + x) + 1 .. (1 + x) + y : t[i] = B[i - (1 + x)]
  <2>1. N \in Seq(V) /\ Len(N) = 0
    OBVIOUS
  <2>2. t \in Seq(V) /\ parted(t, G, B, N)
    BY ONLY <1>10, <2>1, B \in Seq(V), t = joined(G, B, N), Parted
  <2> QED BY ONLY <1>10, <2>1, <2>2, y = Len(B) DEF parted
<1>12. s = t
  <2>1. Len(s) = Len(t)
    BY ONLY <1>2, <1>6, <1>11, n = x + y
  <2>2. ASSUME NEW i \in 1 .. Len(s) PROVE s[i] = t[i]
    <3>1. CASE i \in 1 .. 1 + x
      <4>1. t[i] = IF i <= 1 THEN F[i] ELSE A[i - 1]
        BY ONLY <1>10, <1>11, <3>1
      <4>2. CASE i = 1
        BY <1>4, <1>7, <4>1, <4>2
      <4>3. CASE i # 1
        <5>1. ~(i <= 1) /\ i - 1 \in 1 .. x /\ 1 + (i - 1) = i
          BY ONLY <1>2, <3>1, <4>3
        <5>2. s[1 + (i - 1)] = A[i - 1]
          BY ONLY <1>7, <5>1
        <5> QED BY ONLY <4>1, <5>1, <5>2
      <4> QED BY <4>2, <4>3
    <3>2. CASE ~(i \in 1 .. 1 + x)
      <4>1. i \in (1 + x) + 1 .. (1 + x) + y /\ i - (1 + x) \in 1 .. y /\ 1 + x + (i - (1 + x)) = i
        BY ONLY <1>2, <1>6, <3>2, n = x + y, i \in 1 .. Len(s)
      <4>2. s[1 + x + (i - (1 + x))] = B[i - (1 + x)] /\ t[i] = B[i - (1 + x)]
        BY ONLY <1>8, <1>11, <4>1
      <4> QED BY ONLY <4>1, <4>2
    <3> QED BY <3>1, <3>2
  <2> QED BY ONLY <1>6, <1>11, <2>1, <2>2, SeqEqual
<1> QED BY <1>6, <1>9, <1>10, <1>12

zero_value  == <<"word", BOX(0)>>
first_seen  == sysargs_root(abs_word(locals.global_sysargs))
seen_values == {abs_word(q) : q \in references(live_objects)} \cup {zero_value}

\* The array of the arguments of the program, which is registered, is alive.
Held == running = "program" => locals.global_sysargs \in references(live_objects)

\* What the program sees while no collection is under way.
Seen ==
  /\ laid(seen_by_program, first_seen, shown(statics), shown(stack))
  /\ seen_by_program = joined(<<first_seen>> \o shown(statics), shown(stack), << >>)
  /\ Len(shown(statics)) = Len(statics) /\ Len(shown(stack)) = Len(stack)
  /\ shown(statics) \in Seq(seen_values) /\ shown(stack) \in Seq(seen_values)
  /\ <<first_seen>> \o shown(statics) \in Seq(seen_values)
  /\ seen_by_program \in Seq(seen_values) /\ refs_of(seen_by_program) \subseteq DOMAIN now_graph
  /\ whole(seen_by_program, seen_graph)
  /\ DOMAIN seen_graph \subseteq DOMAIN now_graph
  /\ \A d \in DOMAIN seen_graph : seen_graph[d] = now_graph[d]

LEMMA SeenHolds == View /\ gc_idle /\ Held => Seen
<1> SUFFICES ASSUME View, gc_idle, Held PROVE Seen
  OBVIOUS
<1> PICK R : R = references(live_objects) OBVIOUS
<1> PICK U : U = {abs_word(q) : q \in R} OBVIOUS
<1> PICK V : V = U \cup {zero_value} OBVIOUS
<1> PICK f : f = first_seen OBVIOUS
<1> PICK A : A = shown(statics) OBVIOUS
<1> PICK B : B = shown(stack) OBVIOUS
<1> PICK C : C = shown_cells OBVIOUS
<1> PICK s : s = seen_by_program OBVIOUS
<1> PICK g : g = now_graph OBVIOUS
<1>1. roots_in(R) /\ extra \in Seq(Cell) /\ whole(now_roots, g)
  BY DEF View
<1>2. /\ now_roots = joined(A, B, C) /\ A \in Seq(U) /\ B \in Seq(U) /\ C \in Seq(U)
      /\ Len(A) = Len(statics) /\ Len(B) = Len(stack)
  BY <1>1, RootParts
<1>3. A \in Seq(V) /\ B \in Seq(V) /\ C \in Seq(V)
  <2>1. U \subseteq V
    OBVIOUS
  <2> QED BY ONLY <1>2, <2>1, SeqGrows
<1>4. f \in V
  BY DEF first_seen, sysargs_root, Held, zero_value
<1>5. s = behind(f, A, B, C)
  BY <1>2 DEF seen_by_program, first_seen, behind
<1>6. s \in Seq(V) /\ laid(s, f, A, B) /\ <<f>> \o A \in Seq(V) /\ s = joined(<<f>> \o A, B, << >>)
  BY ONLY <1>3, <1>4, <1>5, Laid
<1>7. \A v \in V : v[1] = "ref" => v[2] \in DOMAIN g
  <2>1. ASSUME NEW q \in R, NEW v, v = abs_word(q), v[1] = "ref" PROVE v[2] \in DOMAIN g
    <3>1. shows(v, q) /\ shown_graph = g
      BY <2>1, Shows DEF shown_graph
    <3>2. is_object(q)
      BY <2>1, <3>1 DEF shows
    <3> QED BY <3>1, <3>2 DEF shows, refers
  <2>2. zero_value[1] # "ref"
    BY DEF zero_value
  <2> QED BY <2>1, <2>2
<1>8. refs_of(s) \subseteq DOMAIN g
  <2>1. \A i \in DOMAIN s : s[i] \in V
    BY <1>6
  <2> QED BY <1>7, <2>1 DEF refs_of
<1> PICK h : h = seen_graph OBVIOUS
<1>9. h = Objects!live_part(g, s)
  BY RuntimeLivePart DEF seen_graph
<1>10. /\ whole(s, h) /\ DOMAIN h \subseteq DOMAIN g /\ \A d \in DOMAIN h : h[d] = g[d]
  <2>1. IsFiniteSet(DOMAIN g) /\ closed_graph(g)
    BY <1>1 DEF whole
  <2> QED BY ONLY <1>8, <1>9, <2>1, LivePartWhole
<1> QED BY <1>2, <1>3, <1>6, <1>8, <1>10 DEF Seen, seen_values

\* Steps that make no object leave the graph as it is, but for what the roots no
\* longer reach.
LEMMA SeenSame ==
  ASSUME View, View', Seen, Seen', heap' = heap, mem' = mem,
         NEW g, g = seen_graph, NEW h, h = seen_graph', NEW ts, ts = seen_by_program',
         refs_of(ts) \subseteq DOMAIN g
  PROVE  h = Runtime!live_part(g, ts)
<1>1. /\ whole(seen_by_program, g) /\ DOMAIN g \subseteq DOMAIN now_graph
      /\ \A d \in DOMAIN g : g[d] = now_graph[d]
  BY DEF Seen
<1>2. /\ whole(ts, h) /\ DOMAIN h \subseteq DOMAIN now_graph'
      /\ \A d \in DOMAIN h : h[d] = now_graph'[d]
  BY DEF Seen
<1>3. \A p : abs_word(p)' = abs_word(p)
  BY StableValues
<1>4. ASSUME NEW d \in DOMAIN g \cap DOMAIN h PROVE h[d] = g[d]
  <2>1. PICK a \in live_objects : d = mem[a].id
    BY <1>1 DEF View
  <2>2. a \in DOMAIN mem /\ now_graph[d] = abs_object(mem[a])
    BY <2>1 DEF View
  <2>3. PICK b \in live_objects' : d = mem'[b].id
    BY <1>2, ViewMoved
  <2>4. b \in DOMAIN mem /\ now_graph'[d] = abs_object(mem[b])'
    BY <2>3, ViewMoved
  <2>5. a = b
    BY <2>1, <2>2, <2>3, <2>4 DEF View, distinct
  <2>6. abs_object(mem[a])' = abs_object(mem[a])
    BY <1>3 DEF abs_object, abs_words, fields
  <2> QED BY <1>1, <1>2, <2>2, <2>4, <2>5, <2>6
<1>5. h = Objects!live_part(g, ts)
  <2>1. IsFiniteSet(DOMAIN g) /\ closed_graph(g)
    BY <1>1 DEF whole
  <2> QED BY ONLY <1>2, <1>4, <2>1, refs_of(ts) \subseteq DOMAIN g, LivePart
<1> QED BY <1>5, RuntimeLivePart

-------------------------------------------------------------------------------
(* Steps that do not show *)

LEMMA HeldHolds == Frames /\ HeapInv /\ gc_idle /\ pc # "failed" => Held
<1> SUFFICES ASSUME Frames, HeapInv, gc_idle, pc # "failed", running = "program"
             PROVE  locals.global_sysargs \in references(live_objects)
  BY DEF Held
<1>1. View
  BY IdleHeap DEF Idle
<1>2. extra \in Seq(Cell) /\ cells_in(DOMAIN extra, references(live_objects))
  BY <1>1 DEF View, roots_in
<1>3. 1 \in DOMAIN extra /\ extra[1] = sysargs
  BY <1>2, FirstRegistered
<1> QED BY <1>2, <1>3 DEF cells_in, cell_word, sysargs, local_cell

LEMMA SeenIdle == Frames /\ HeapInv /\ gc_idle /\ pc # "failed" => View /\ Seen
BY HeldHolds, SeenHolds, IdleHeap DEF Idle

\* What the program sees is the part of what the state shows that its own
\* variables lead to.
SeenShown ==
  seen_by_program = <<sysargs_root(shown_cell(1))>> \o SubSeq(shown_roots, 1, Len(statics) + Len(stack))

LEMMA SeenIsShown == Frames /\ HeapInv /\ pc # "failed" => SeenShown
<1> SUFFICES ASSUME Frames, HeapInv, pc # "failed" PROVE SeenShown
  OBVIOUS
<1>1. CASE ~gc_idle
  BY <1>1 DEF SeenShown, seen_by_program, shown_cell, shown_roots
<1>2. CASE gc_idle
  <2>1. shown_roots = now_roots
    BY <1>2 DEF shown_roots
  <2>2. running = "program" => shown_cell(1) = abs_word(locals.global_sysargs)
    <3> SUFFICES ASSUME running = "program" PROVE shown_cell(1) = abs_word(locals.global_sysargs)
      OBVIOUS
    <3>1. extra \in Seq(Cell) /\ RootsShown
      BY <1>2, IdleHeap, IdleShown DEF Idle, View
    <3>2. 1 \in 1 .. Len(extra) /\ extra[1] = sysargs
      BY <3>1, FirstRegistered
    <3> QED BY <3>1, <3>2 DEF RootsShown, shows, cell_word, sysargs, local_cell
  <2>3. sysargs_root(shown_cell(1)) = sysargs_root(abs_word(locals.global_sysargs))
    BY <2>2 DEF sysargs_root
  <2> QED BY <1>2, <2>1, <2>3 DEF SeenShown, seen_by_program
<1> QED BY <1>1, <1>2

LEMMA CollectorSeen ==
  ASSUME Frames, HeapInv, Frames', HeapInv', CollectStep, UNCHANGED <<running, exit>>
  PROVE  UNCHANGED <<seen_by_program, seen_graph>> /\ req' = req
<1>1. /\ pc \notin {"run", "failed"} /\ pc' \notin {"run", "failed"}
      /\ req' = req /\ DOMAIN statics' = DOMAIN statics
  BY CollectorKeeps DEF marking, compacting
<1>2. Len(stack') = Len(stack)
  BY CollectorFrame DEF Frames
<1>3. Len(statics') = Len(statics)
  <2>1. statics \in Seq(Word) /\ statics' \in Seq(Word)
    BY DEF HeapInv, Soundness, Typed, ClientTypeOK, Word
  <2> QED BY <1>1, <2>1, SameLength
<1>4. UNCHANGED <<shown_roots, shown_graph>>
  BY CollectorShows DEF HeapInv
<1>5. SeenShown /\ SeenShown'
  <2>1. SeenShown
    BY <1>1, SeenIsShown
  <2>2. (Frames /\ HeapInv /\ pc # "failed")'
    BY <1>1
  <2>3. SeenShown'
    BY <2>2, SeenIsShown, PTL
  <2> QED BY <2>1, <2>3
<1>6. seen_by_program' = seen_by_program
  BY <1>2, <1>3, <1>4, <1>5 DEF SeenShown, sysargs_root, shown_cell
<1>7. seen_graph' = seen_graph
  <2>1. seen_graph = OG!live_part(shown_graph, seen_by_program)
    BY DEF seen_graph, shown_graph
  <2>2. seen_graph' = OG!live_part(shown_graph', seen_by_program')
    BY DEF seen_graph, shown_graph
  <2> QED BY <1>4, <1>6, <2>1, <2>2
<1> QED BY <1>1, <1>6, <1>7

\* A step that leaves alone what is seen.
LEMMA SameSeen ==
  ASSUME UNCHANGED <<heap, mem, stack, statics, locals, extra, running, dump>>, gc_idle' = gc_idle
  PROVE  UNCHANGED <<seen_by_program, seen_graph>>
<1>1. now_roots' = now_roots
  BY DEF now_roots, abs_word, is_valid_heap_pointer, is_object, object_at, cell_word
<1>2. now_graph' = now_graph
  BY DEF now_graph, live_objects,
     root_targets, field_targets, targets, root, root_count, fields, abs_object, abs_words, abs_word,
     is_valid_heap_pointer, is_object, object_at, cell_word
<1>3. seen_by_program' = seen_by_program
  BY <1>1 DEF seen_by_program, sysargs_root, abs_word, is_valid_heap_pointer, is_object, object_at
<1>4. seen_graph' = seen_graph
  <2>1. seen_graph = OG!live_part(IF gc_idle THEN now_graph ELSE dump.graph, seen_by_program)
    BY DEF seen_graph
  <2>2. seen_graph' = OG!live_part(IF gc_idle' THEN now_graph' ELSE dump'.graph, seen_by_program')
    BY DEF seen_graph
  <2> QED BY <1>2, <1>3, <2>1, <2>2
<1> QED BY <1>3, <1>4

LEMMA StopSeen ==
  ASSUME gc_idle, NEW f, NEW why, stop(f, why)
  PROVE  UNCHANGED <<seen_by_program, seen_graph>> /\ req' = req
BY SameSeen DEF stop, failure, gc_idle

-------------------------------------------------------------------------------
(* Moves, and calls *)

known_word(q) == abs_word(q)[1] = "ref" => abs_word(q)[2] \in DOMAIN seen_graph
known_words   == {q \in references(DOMAIN mem) : known_word(q)}

\* The variable that holds the array of the arguments stays as it is.
SysargsKept ==
  /\ running' = "program" <=> running = "program"
  /\ running = "program" => locals'.global_sysargs = locals.global_sysargs

LEMMA KnownWords ==
  ASSUME View, Seen
  PROVE  /\ stack \in Seq(known_words) /\ statics \in Seq(known_words)
         /\ \A n \in Nat : BOX(n) \in known_words
         /\ first_seen[1] = "ref" => first_seen[2] \in DOMAIN seen_graph
<1> PICK R : R = references(DOMAIN mem) OBVIOUS
<1> PICK K : K = known_words OBVIOUS
<1> PICK s : s = seen_by_program OBVIOUS
<1> PICK A : A = shown(statics) OBVIOUS
<1> PICK B : B = shown(stack) OBVIOUS
<1> PICK V : V = seen_values OBVIOUS
<1>1. stack \in Seq(R) /\ statics \in Seq(R)
  <2>1. references(live_objects) \subseteq R
    BY DEF View, references
  <2> QED BY <2>1, SeqGrows DEF View, roots_in
<1>2. /\ s \in Seq(V) /\ Len(s) = 1 + Len(A) + Len(B) /\ s[1] = first_seen
      /\ \A i \in 1 .. Len(A) : s[1 + i] = A[i]
      /\ \A i \in 1 .. Len(B) : s[1 + Len(A) + i] = B[i]
      /\ A \in Seq(V) /\ B \in Seq(V) /\ Len(A) = Len(statics) /\ Len(B) = Len(stack)
      /\ refs_of(s) \subseteq DOMAIN seen_graph
  BY DEF Seen, laid, whole
<1>3. Len(A) \in Nat /\ Len(B) \in Nat /\ DOMAIN s = 1 .. 1 + Len(A) + Len(B)
  BY <1>2
<1>4. \A j \in DOMAIN s : s[j][1] = "ref" => s[j][2] \in DOMAIN seen_graph
  BY <1>2 DEF refs_of
<1>5. \A i \in 1 .. Len(A) : 1 + i \in DOMAIN s
  BY ONLY <1>3
<1>6. \A i \in 1 .. Len(B) : 1 + Len(A) + i \in DOMAIN s
  BY ONLY <1>3
<1>7. \A i \in 1 .. Len(statics) : statics[i] \in K
  <2> SUFFICES ASSUME NEW i \in 1 .. Len(statics) PROVE statics[i] \in K
    OBVIOUS
  <2>1. s[1 + i] = A[i] /\ 1 + i \in DOMAIN s
    BY <1>2, <1>5
  <2>2. A[i] = abs_word(statics[i]) /\ statics[i] \in R
    BY <1>1 DEF shown
  <2> QED BY <1>4, <2>1, <2>2 DEF known_words, known_word
<1>8. \A i \in 1 .. Len(stack) : stack[i] \in K
  <2> SUFFICES ASSUME NEW i \in 1 .. Len(stack) PROVE stack[i] \in K
    OBVIOUS
  <2>1. s[1 + Len(A) + i] = B[i] /\ 1 + Len(A) + i \in DOMAIN s
    BY <1>2, <1>6
  <2>2. B[i] = abs_word(stack[i]) /\ stack[i] \in R
    BY <1>1 DEF shown
  <2> QED BY <1>4, <2>1, <2>2 DEF known_words, known_word
<1>9. stack \in Seq(K) /\ statics \in Seq(K)
  <2>1. R \subseteq Nat
    BY DEF references
  <2>2. stack \in Seq(Nat) /\ statics \in Seq(Nat)
    BY <1>1, <2>1, SeqGrows
  <2> QED BY <1>7, <1>8, <2>2, SeqOf
<1>10. ASSUME NEW n \in Nat PROVE BOX(n) \in K
  <2>1. BOX(n) \in R
    BY PlainWords
  <2>2. (2 * n + 1) % 2 = 1
    OBVIOUS
  <2>3. abs_word(BOX(n))[1] = "word"
    BY <2>2 DEF abs_word, is_valid_heap_pointer, BOX, UNBOXED
  <2> QED BY <2>1, <2>3 DEF known_words, known_word
<1>11. first_seen[1] = "ref" => first_seen[2] \in DOMAIN seen_graph
  <2>1. 1 \in DOMAIN s
    BY ONLY <1>3
  <2> QED BY <1>2, <1>4, <2>1
<1> QED BY <1>9, <1>10, <1>11

LEMMA FirstSeen ==
  ASSUME View, Held, SysargsKept,
         \A q \in references(live_objects) : abs_word(q)' = abs_word(q)
  PROVE  first_seen' = first_seen
<1>1. CASE running = "program"
  <2> PICK p : p = locals.global_sysargs OBVIOUS
  <2>1. p \in references(live_objects) /\ locals'.global_sysargs = p /\ running' = "program"
    BY <1>1 DEF Held, SysargsKept
  <2>2. first_seen = abs_word(p)
    BY <1>1 DEF first_seen, sysargs_root
  <2>3. first_seen' = abs_word(p)'
    BY <2>1 DEF first_seen, sysargs_root
  <2> QED BY <2>1, <2>2, <2>3
<1>2. CASE running # "program"
  BY <1>2 DEF first_seen, sysargs_root, SysargsKept
<1> QED BY <1>1, <1>2

\* The roots that are seen afterwards when the program has moved words it knows.
LEMMA MovedRoots ==
  ASSUME View, View', Seen, Seen', Held, SysargsKept, heap' = heap, mem' = mem,
         stack' \in Seq(known_words), statics' \in Seq(known_words)
  PROVE  /\ seen_by_program'[1] = seen_by_program[1]
         /\ refs_of(seen_by_program') \subseteq DOMAIN seen_graph
<1> PICK ts : ts = seen_by_program' OBVIOUS
<1> PICK K : K = known_words OBVIOUS
<1> PICK g : g = seen_graph OBVIOUS
<1> PICK S : S = stack' OBVIOUS
<1> PICK T : T = statics' OBVIOUS
<1> PICK A : A = shown(statics)' OBVIOUS
<1> PICK B : B = shown(stack)' OBVIOUS
<1> PICK V : V = seen_values' OBVIOUS
<1>1. \A p : abs_word(p)' = abs_word(p)
  BY StableValues
<1>2. first_seen' = first_seen
  BY <1>1, FirstSeen
<1>3. /\ ts \in Seq(V) /\ Len(ts) = 1 + Len(A) + Len(B) /\ ts[1] = first_seen'
      /\ \A i \in 1 .. Len(A) : ts[1 + i] = A[i]
      /\ \A i \in 1 .. Len(B) : ts[1 + Len(A) + i] = B[i]
      /\ A \in Seq(V) /\ B \in Seq(V) /\ Len(A) = Len(T) /\ Len(B) = Len(S)
  BY DEF Seen, laid
<1>4. seen_by_program[1] = first_seen
  BY DEF Seen, laid
<1>5. A = [i \in DOMAIN T |-> abs_word(T[i])'] /\ B = [i \in DOMAIN S |-> abs_word(S[i])']
  BY DEF shown
<1>6. \A q \in K : abs_word(q)'[1] = "ref" => abs_word(q)'[2] \in DOMAIN g
  BY <1>1 DEF known_words, known_word
<1>7. /\ S \in Seq(K) /\ T \in Seq(K) /\ Len(S) \in Nat /\ Len(T) \in Nat
      /\ DOMAIN S = 1 .. Len(S) /\ DOMAIN T = 1 .. Len(T)
      /\ \A i \in 1 .. Len(S) : S[i] \in K /\ B[i] = abs_word(S[i])'
      /\ \A i \in 1 .. Len(T) : T[i] \in K /\ A[i] = abs_word(T[i])'
  BY <1>5
<1>8. ASSUME NEW j \in DOMAIN ts, ts[j][1] = "ref" PROVE ts[j][2] \in DOMAIN g
  <2>1. j \in 1 .. 1 + Len(T) + Len(S)
    BY <1>3
  <2>2. CASE j = 1
    BY <1>2, <1>3, <1>8, <2>2, KnownWords
  <2>3. CASE j \in 2 .. 1 + Len(T)
    <3> PICK i : i = j - 1 OBVIOUS
    <3>1. i \in 1 .. Len(T) /\ 1 + i = j
      BY ONLY <1>7, <2>3, i = j - 1
    <3>2. ts[j] = A[i]
      BY <1>3, <3>1
    <3>3. T[i] \in K /\ A[i] = abs_word(T[i])'
      BY ONLY <1>7, <3>1
    <3> QED BY <1>6, <1>8, <3>2, <3>3
  <2>4. CASE j \in 2 + Len(T) .. 1 + Len(T) + Len(S)
    <3> PICK i : i = j - 1 - Len(T) OBVIOUS
    <3>1. i \in 1 .. Len(S) /\ 1 + Len(T) + i = j
      <4> PICK m \in Nat, n \in Nat : m = Len(T) /\ n = Len(S)
        BY <1>7
      <4>1. j \in 2 + m .. 1 + m + n /\ i = j - 1 - m
        BY <2>4
      <4>2. j \in Int /\ 2 + m <= j /\ j <= 1 + m + n
        BY ONLY <4>1, m \in Nat, n \in Nat
      <4>3. i \in 1 .. n /\ 1 + m + i = j
        BY ONLY <4>1, <4>2, m \in Nat, n \in Nat
      <4> QED BY ONLY <4>3, m = Len(T), n = Len(S)
    <3>2. ts[j] = B[i]
      <4>1. i \in 1 .. Len(B) /\ 1 + Len(A) + i = j
        BY ONLY <1>3, <3>1
      <4>2. ts[1 + Len(A) + i] = B[i]
        BY ONLY <1>3, <4>1
      <4> QED BY ONLY <4>1, <4>2
    <3>3. S[i] \in K /\ B[i] = abs_word(S[i])'
      BY ONLY <1>7, <3>1
    <3> QED BY <1>6, <1>8, <3>2, <3>3
  <2> QED BY ONLY <1>7, <2>1, <2>2, <2>3, <2>4
<1>9. refs_of(ts) \subseteq DOMAIN g
  BY <1>8 DEF refs_of
<1> QED BY <1>2, <1>3, <1>4, <1>9

Watched == View /\ Seen /\ Held

LEMMA MoveShown ==
  ASSUME Watched, Watched', SysargsKept, heap' = heap, mem' = mem, req' = req,
         stack' \in Seq(known_words), statics' \in Seq(known_words)
  PROVE  Runtime!RuntimeNext
<1> PICK rs : rs = seen_by_program OBVIOUS
<1> PICK g : g = seen_graph OBVIOUS
<1> PICK ts : ts = seen_by_program' OBVIOUS
<1> PICK h : h = seen_graph' OBVIOUS
<1>1. ts[1] = rs[1] /\ refs_of(ts) \subseteq DOMAIN g
  BY MovedRoots DEF Watched
<1>2. h = Runtime!live_part(g, ts)
  BY <1>1, SeenSame DEF Watched
<1>3. Runtime!MoveRoots(rs, g, ts, h)
  BY <1>1, <1>2, RuntimeValues DEF Runtime!MoveRoots
<1> QED BY <1>3 DEF Runtime!RuntimeNext

LEMMA CallShown ==
  ASSUME Watched, Watched', SysargsKept, UNCHANGED <<heap, mem, stack, statics>>
  PROVE  Runtime!RuntimeNext
<1> PICK rs : rs = seen_by_program OBVIOUS
<1> PICK g : g = seen_graph OBVIOUS
<1> PICK ts : ts = seen_by_program' OBVIOUS
<1> PICK h : h = seen_graph' OBVIOUS
<1>1. \A p : abs_word(p)' = abs_word(p)
  BY StableValues
<1>2. first_seen' = first_seen
  BY <1>1, FirstSeen DEF Watched
<1>3. shown(statics)' = shown(statics) /\ shown(stack)' = shown(stack)
  BY <1>1 DEF shown
<1>4. rs = joined(<<first_seen>> \o shown(statics), shown(stack), << >>)
  BY DEF Watched, Seen
<1>5. ts = joined(<<first_seen'>> \o shown(statics)', shown(stack)', << >>)
  BY DEF Watched, Seen
<1>6. ts = rs
  BY <1>2, <1>3, <1>4, <1>5
<1>7. refs_of(ts) \subseteq DOMAIN g
  BY <1>6 DEF Watched, Seen, whole
<1>8. h = Runtime!live_part(g, ts)
  BY <1>7, SeenSame DEF Watched
<1>9. Runtime!Call(rs, g, ts, h)
  BY <1>6, <1>8 DEF Runtime!Call
<1> QED BY <1>9 DEF Runtime!RuntimeNext

LEMMA Watch == Frames /\ HeapInv /\ gc_idle /\ pc # "failed" => Watched
BY SeenIdle, HeldHolds DEF Watched

\* The state after a step that neither fails nor starts the collector.
Observed == /\ Frames /\ HeapInv /\ Frames' /\ HeapInv'
            /\ gc_idle /\ pc # "failed" /\ gc_idle' /\ pc' # "failed"

LEMMA Observing == ASSUME Observed PROVE Watched /\ Watched'
<1>1. Watched
  BY Watch DEF Observed
<1>2. (Frames /\ HeapInv /\ gc_idle /\ pc # "failed")'
  BY DEF Observed
<1>3. Watched'
  BY <1>2, Watch, PTL
<1> QED BY <1>1, <1>3

\* A step of the abstract specification, or one that it does not see.
ShownStep == Runtime!RuntimeNext \/ UNCHANGED <<seen_by_program, seen_graph, req>>

LEMMA PushShown ==
  ASSUME Observed, moves, NEW n \in 0 .. Len(stack), NEW v \in known_words,
         statics' \in Seq(known_words),
         \/ stack' = push(popped(n), v)
         \/ stack' = popped(n)
         \/ stack' = push(stack, v)
  PROVE  ShownStep
<1> PICK K : K = known_words OBVIOUS
<1>1. Watched /\ Watched'
  BY Observing
<1>2. stack \in Seq(K)
  BY <1>1, KnownWords DEF Watched
<1>3. popped(n) \in Seq(K)
  BY <1>2, Operands
<1>4. stack' \in Seq(K)
  BY <1>2, <1>3, Pushing
<1>5. SysargsKept
  BY DEF moves, SysargsKept
<1> QED BY <1>1, <1>4, <1>5, MoveShown DEF moves, ShownStep

LEMMA ProgramShown ==
  ASSUME Frames, HeapInv, Frames', HeapInv', Program PROVE ShownStep
<1> PICK K : K = known_words OBVIOUS
<1>1. pc = "run" /\ running = "program" /\ moves /\ Observed
  BY DEF Program, PUSH, DROP, DUP, LOAD, STORE, program, Observed, moves, gc_idle
<1>2. Watched
  BY <1>1, Observing
<1>3. /\ stack \in Seq(K) /\ statics \in Seq(K) /\ FrameWords \in Nat /\ Len(stack) \in Nat
      /\ \A i \in 1 .. Len(stack) : operand(i) \in K
      /\ \A m \in Nat : BOX(m) \in K
  BY <1>2, KnownWords, Operands, CallsAssumption DEF Watched
<1>4. 0 \in 0 .. Len(stack)
  BY <1>3
<1>5. CASE PUSH
  <2> PICK m \in Consts : stack' = push(stack, BOX(m)) /\ statics' = statics
    BY <1>5 DEF PUSH
  <2>1. BOX(m) \in K
    BY <1>3, CallsAssumption
  <2> QED BY <1>1, <1>3, <1>4, <2>1, PushShown
<1>6. ASSUME DROP \/ DUP \/ STORE PROVE 1 \in 0 .. Len(stack) /\ operand(1) \in K
  <2>1. Len(stack) >= FrameWords + 1
    BY <1>6 DEF DROP, DUP, STORE, program
  <2>2. 1 \in 1 .. Len(stack) /\ 1 \in 0 .. Len(stack)
    BY <1>3, <2>1
  <2> QED BY <1>3, <2>2
<1>7. CASE DROP \/ DUP
  <2>1. (stack' = popped(1) \/ stack' = push(stack, operand(1))) /\ statics' = statics
    BY <1>7 DEF DROP, DUP
  <2> QED BY <1>1, <1>3, <1>6, <1>7, <2>1, PushShown
<1>8. CASE LOAD
  <2> PICK i \in DOMAIN statics : stack' = push(stack, statics[i]) /\ statics' = statics
    BY <1>8 DEF LOAD
  <2>1. statics[i] \in K
    BY <1>3
  <2> QED BY <1>1, <1>3, <1>4, <2>1, PushShown
<1>9. CASE STORE
  <2> PICK i \in DOMAIN statics : statics' = [statics EXCEPT ![i] = operand(1)]
    BY <1>9 DEF STORE
  <2>1. statics' \in Seq(K) /\ stack' = popped(1)
    BY <1>3, <1>6, <1>9, Replacing DEF STORE
  <2> QED BY <1>1, <1>6, <1>9, <2>1, PushShown
<1> QED BY <1>5, <1>7, <1>8, <1>9 DEF Program

\* A function that returns at once.
LEMMA ReturnsShown ==
  ASSUME Frames, HeapInv, Frames', HeapInv', NEW op, NEW n \in Nat, program(op, n),
         NEW v, v \in known_words, returns(v, n)
  PROVE  ShownStep
<1>1. pc = "run" /\ Observed
  BY DEF program, returns, moves, Observed, gc_idle
<1>2. Len(stack) \in Nat /\ FrameWords \in Nat /\ Len(stack) >= FrameWords + n
  BY CallOf, CallsAssumption DEF program
<1>3. n \in 0 .. Len(stack)
  BY <1>2
<1>4. statics' \in Seq(known_words) /\ stack' = push(popped(n), v) /\ moves
  BY <1>1, Observing, KnownWords DEF returns, Watched
<1> QED BY <1>1, <1>3, <1>4, PushShown

LEMMA StopShown == ASSUME gc_idle, NEW f, NEW why, stop(f, why) PROVE ShownStep
BY StopSeen DEF ShownStep

\* A call: global_sysargs is there, and no function has a variable of its name.
LEMMA EnterShown ==
  ASSUME Frames, HeapInv, Frames', HeapInv', pc = "run",
         NEW f, NEW type, NEW len, NEW cells, NEW ls, enter(f, type, len, cells, ls),
         "global_sysargs" \notin DOMAIN ls
  PROVE  ShownStep
<1>1. gc_idle /\ Idle
  BY IdleHeap DEF gc_idle
<1>2. CASE stop(f, "pool overflow")
  BY <1>1, <1>2, StopShown
<1>3. CASE ~pool_overflow(cells)
  <2>1. /\ request(f, type, len) /\ locals' = with_locals(ls)
        /\ UNCHANGED <<heap, mem, stack, statics, running>> /\ pc' = "alloc"
    BY <1>3 DEF enter, request
  <2>2. Observed
    BY <1>1, <2>1 DEF Observed, gc_idle
  <2>3. running = "program" => locals'.global_sysargs = locals.global_sysargs
    <3> SUFFICES ASSUME running = "program"
                 PROVE  locals'.global_sysargs = locals.global_sysargs
      OBVIOUS
    <3>1. extra \in Seq(Cell)
      BY <1>1 DEF Idle, View
    <3>2. 1 \in DOMAIN extra /\ extra[1] = sysargs
      BY <3>1, FirstRegistered
    <3>3. "global_sysargs" \in DOMAIN locals
      BY <1>1, <3>2, HeldCell DEF sysargs
    <3> QED BY <2>1, <3>3 DEF with_locals
  <2>4. SysargsKept
    BY <2>1, <2>3 DEF SysargsKept
  <2> QED BY <2>1, <2>2, <2>4, Observing, CallShown DEF ShownStep
<1> QED BY <1>2, <1>3 DEF enter

LEMMA BstringShown ==
  ASSUME Frames, HeapInv, Frames', HeapInv', pc = "run",
         NEW f, NEW s, NEW cells, bstring(f, s, cells, << >>)
  PROVE  ShownStep
<1> PICK ls : ls = [x \in DOMAIN << >> \cup {"Bstring_p"} |->
                      IF x = "Bstring_p" THEN foreign_addr ELSE << >>[x]] OBVIOUS
<1> PICK len : len = Len(s) OBVIOUS
<1> PICK all : all = cells \o <<local_cell("Bstring_p")>> OBVIOUS
<1>1. enter(f, "STRING", len, all, ls)
  BY DEF bstring
<1>2. DOMAIN << >> \cup {"Bstring_p"} = {"Bstring_p"}
  OBVIOUS
<1>3. "global_sysargs" \notin DOMAIN ls
  BY <1>2
<1> QED BY <1>1, <1>3, EnterShown

LEMMA EnterStepShown ==
  ASSUME Frames, HeapInv, Frames', HeapInv', ProperCalls, Enter PROVE ShownStep
<1>1. 0 \in Nat /\ 1 \in Nat /\ pc = "run" /\ running = "program" /\ gc_idle
  BY DEF Enter, LmakeArray, LmakeArray_fail, Barray, Bsexp, Bclosure, Ls__Infix_58,
     Lclone, Lclone_string, Lclone_unboxed, LmakeString, LmakeString_fail,
     Li__Infix_4343, Li__Infix_4343_fail, Lsubstring, Lsubstring_fail,
     Bstring, LgetEnv, LreadLine, Lstring, Lstringcat,
     Lsprintf, Lsprintf_fail, Lfread, Lfread_fail, program, gc_idle
<1>2. Watched
  BY <1>1, Watch
<1>3. \A n \in Nat : BOX(n) \in known_words
  BY <1>2, KnownWords DEF Watched
<1>4. ASSUME NEW f, NEW why, stop(f, why) PROVE ShownStep
  BY <1>1, <1>4, StopShown
<1>5. ASSUME NEW f, NEW type, NEW len, NEW cells, enter(f, type, len, cells, << >>) PROVE ShownStep
  <2>1. "global_sysargs" \notin DOMAIN << >>
    OBVIOUS
  <2> QED BY <1>1, <1>5, <2>1, EnterShown
<1>6. ASSUME NEW f, NEW s, NEW cells, bstring(f, s, cells, << >>) PROVE ShownStep
  BY <1>1, <1>6, BstringShown
<1>7. CASE LmakeArray_fail \/ LmakeString_fail \/ Li__Infix_4343_fail \/ Lsubstring_fail
           \/ Lfread_fail
  BY <1>4, <1>7 DEF LmakeArray_fail, LmakeString_fail, Li__Infix_4343_fail, Lsubstring_fail,
     Lfread_fail
<1>8. CASE LmakeArray \/ LmakeString
  BY <1>5, <1>8 DEF LmakeArray, LmakeString
<1>9. CASE Barray \/ Bsexp \/ Bclosure
  BY <1>5, <1>9 DEF Barray, Bsexp, Bclosure
<1>10. CASE Lclone \/ Li__Infix_4343 \/ Lsubstring
  BY <1>5, <1>10 DEF Lclone, Li__Infix_4343, Lsubstring
<1>11. CASE Lclone_string
  <2> PICK ls : ls = [Bstring_p |-> arg(1)] OBVIOUS
  <2>1. "global_sysargs" \notin DOMAIN ls
    OBVIOUS
  <2>2. \E len, cells : enter("Lclone_string", "STRING", len, cells, ls)
    BY <1>11 DEF Lclone_string
  <2> QED BY <1>1, <2>1, <2>2, EnterShown
<1>12. CASE Lclone_unboxed
  <2>1. program("Lclone", 1) /\ returns(arg(1), 1)
    BY <1>12 DEF Lclone_unboxed
  <2>2. arg(1) \in known_words
    <3>1. stack \in Seq(known_words) /\ 1 \in 1 .. Len(stack)
      BY <1>1, <1>2, <2>1, KnownWords, CallOf DEF Watched
    <3> QED BY <3>1, Operands DEF arg
  <2> QED BY <1>1, <2>1, <2>2, ReturnsShown
<1>13. CASE Bstring \/ Lstring \/ Lstringcat
  BY <1>6, <1>13 DEF Bstring, Lstring, Lstringcat
<1>14. CASE LgetEnv
  <2>1. program("LgetEnv", 1)
    BY <1>14 DEF LgetEnv
  <2>2. CASE returns(BOX(0), 1)
    BY <1>1, <1>3, <2>1, <2>2, ReturnsShown
  <2> QED BY <1>6, <1>14, <2>2 DEF LgetEnv
<1>15. CASE LreadLine
  <2>1. program("LreadLine", 0)
    BY <1>15 DEF LreadLine
  <2>2. CASE returns(BOX(0), 0)
    BY <1>1, <1>3, <2>1, <2>2, ReturnsShown
  <2> QED BY <1>4, <1>6, <1>15, <2>2 DEF LreadLine
<1>16. CASE Lfread
  BY <1>4, <1>5, <1>16 DEF Lfread
<1>17. ~Ls__Infix_58 /\ ~Lsprintf /\ ~Lsprintf_fail
  BY DEF ProperCalls, Ls__Infix_58, Lsprintf, Lsprintf_fail, program
<1> QED BY <1>7, <1>8, <1>9, <1>10, <1>11, <1>12, <1>13, <1>14, <1>15, <1>16, <1>17 DEF Enter

-------------------------------------------------------------------------------
(* What a return shows *)

\* The arguments are gone, and the object is there.
LEMMA ReturnedSeen ==
  ASSUME View, Seen, Seen', Held, SysargsKept, NEW n \in 0 .. Len(stack),
         NEW p, stack' = push(popped(n), p), statics' = statics,
         \A q \in references(DOMAIN mem) : abs_word(q)' = abs_word(q),
         NEW s, s = seen_by_program, NEW t, t = seen_by_program', NEW w, w = abs_word(p)'
  PROVE  /\ replaced(s, t, n, w) /\ n \in 0 .. Len(s) - 1 /\ Len(t) = Len(s) - n + 1
         /\ Len(s) \in Nat
<1> PICK R : R = references(DOMAIN mem) OBVIOUS
<1> PICK U : U = seen_values OBVIOUS
<1> PICK V : V = U \cup {w} OBVIOUS
<1> PICK F : F = <<first_seen>> \o shown(statics) OBVIOUS
<1> PICK B : B = shown(stack) OBVIOUS
<1> PICK l : l = Len(stack) OBVIOUS
<1> PICK m : m = l - n OBVIOUS
<1> PICK D : D = Append(SubSeq(B, 1, Len(B) - n), w) OBVIOUS
<1>1. /\ stack \in Seq(R) /\ statics \in Seq(R) /\ \A q \in R : abs_word(q)' = abs_word(q)
      /\ \A q \in references(live_objects) : abs_word(q)' = abs_word(q)
  <2>1. references(live_objects) \subseteq R
    BY DEF View, references
  <2> QED BY <2>1, SeqGrows DEF View, roots_in
<1>2. /\ l \in Nat /\ n \in Nat /\ m \in Nat /\ m <= l /\ n <= l /\ m = l - n
  <2>1. l \in Nat /\ n \in 0 .. l
    BY <1>1
  <2> QED BY ONLY <2>1, m = l - n
<1>3. /\ s = joined(F, B, << >>) /\ F \in Seq(V) /\ B \in Seq(V) /\ w \in V
      /\ Len(B) = l /\ Len(s) = 1 + Len(shown(statics)) + l
  <2>1. /\ s = joined(F, B, << >>) /\ F \in Seq(U) /\ B \in Seq(U)
        /\ Len(B) = l /\ Len(s) = 1 + Len(shown(statics)) + l
    BY DEF Seen, laid
  <2>2. U \subseteq V /\ w \in V
    OBVIOUS
  <2>3. F \in Seq(V) /\ B \in Seq(V)
    BY ONLY <2>1, <2>2, SeqGrows
  <2> QED BY <2>1, <2>2, <2>3
<1>4. shown(statics)' = shown(statics) /\ first_seen' = first_seen
  <2>1. \A j \in DOMAIN statics : abs_word(statics[j])' = abs_word(statics[j])
    BY <1>1
  <2>2. first_seen' = first_seen
    BY <1>1, FirstSeen
  <2> QED BY <2>1, <2>2 DEF shown
<1> PICK S : S = popped(n) OBVIOUS
<1> PICK T : T = stack' OBVIOUS
<1>5. S \in Seq(R) /\ Len(S) = m /\ \A j \in 1 .. m : S[j] = stack[j] /\ stack[j] \in R
  <2>1. \A j \in 1 .. m : stack[j] \in R
    <3>1. \A j \in 1 .. m : j \in 1 .. Len(stack)
      BY ONLY <1>2, l = Len(stack)
    <3> QED BY ONLY <1>1, <3>1
  <2>2. S = SubSeq(stack, 1, m)
    BY DEF popped
  <2>3. S \in Seq(R) /\ Len(S) = (IF 1 <= m THEN m - 1 + 1 ELSE 0)
        /\ \A j \in 1 .. m - 1 + 1 : S[j] = stack[1 + j - 1]
    BY ONLY <1>2, <2>1, <2>2, SubSeqProperties
  <2> QED BY ONLY <1>2, <2>1, <2>3
<1>6. /\ T = Append(S, p) /\ DOMAIN T = 1 .. m + 1 /\ T[m + 1] = p /\ Len(T) = m + 1
      /\ \A j \in 1 .. m : T[j] = stack[j]
  <2>1. T = Append(S, p) /\ S \in Seq(R \cup {p}) /\ p \in R \cup {p}
    <3>1. S \in Seq(R \cup {p})
      BY <1>5, SeqGrows
    <3> QED BY <3>1 DEF push
  <2>2. /\ T \in Seq(R \cup {p}) /\ Len(T) = Len(S) + 1
        /\ \A j \in 1 .. Len(S) : T[j] = S[j]
        /\ T[Len(S) + 1] = p
    BY ONLY <2>1, AppendProperties
  <2> QED BY ONLY <1>2, <1>5, <2>1, <2>2
<1>7. [j \in DOMAIN T |-> abs_word(T[j])'] = D
  <2> PICK E : E = SubSeq(B, 1, m) OBVIOUS
  <2>1. D = Append(E, w) /\ B \in Seq(V)
    BY <1>3
  <2>2. \A j \in 1 .. m : B[j] \in V /\ B[j] = abs_word(stack[j])
    <3>1. \A j \in 1 .. m : j \in 1 .. Len(B) /\ j \in DOMAIN stack
      <4>1. DOMAIN stack = 1 .. l
        BY <1>1
      <4> QED BY ONLY <1>2, <1>3, <4>1
    <3>2. \A j \in 1 .. Len(B) : B[j] \in V
      BY ONLY <1>3
    <3>3. \A j \in DOMAIN stack : B[j] = abs_word(stack[j])
      BY DEF shown
    <3> QED BY ONLY <3>1, <3>2, <3>3
  <2>3. E \in Seq(V) /\ Len(E) = (IF 1 <= m THEN m - 1 + 1 ELSE 0)
        /\ \A j \in 1 .. m - 1 + 1 : E[j] = B[1 + j - 1]
    BY ONLY <1>2, <2>2, E = SubSeq(B, 1, m), SubSeqProperties
  <2>4. Len(E) = m /\ \A j \in 1 .. m : E[j] = abs_word(stack[j])
    BY ONLY <1>2, <2>2, <2>3
  <2>5. /\ D \in Seq(V) /\ Len(D) = Len(E) + 1 /\ \A j \in 1 .. Len(E) : D[j] = E[j]
        /\ D[Len(E) + 1] = w
    BY ONLY <1>3, <2>1, <2>3, AppendProperties
  <2>6. /\ D = [j \in 1 .. m + 1 |-> D[j]] /\ D[m + 1] = w
        /\ \A j \in 1 .. m : D[j] = abs_word(stack[j])
    BY ONLY <1>2, <2>4, <2>5
  <2>7. ASSUME NEW j \in 1 .. m + 1 PROVE abs_word(T[j])' = D[j]
    <3>1. CASE j = m + 1
      <4>1. T[j] = p
        BY <1>6, <3>1
      <4> QED BY <2>6, <3>1, <4>1
    <3>2. CASE j # m + 1
      <4>1. j \in 1 .. m
        BY ONLY <1>2, <3>2, j \in 1 .. m + 1
      <4>2. T[j] = stack[j] /\ stack[j] \in R
        BY <1>5, <1>6, <4>1
      <4>3. abs_word(T[j])' = abs_word(stack[j])
        BY <1>1, <4>2
      <4> QED BY <2>6, <4>1, <4>3
    <3> QED BY <3>1, <3>2
  <2> QED BY <1>6, <2>6, <2>7
<1>8. t = joined(F, D, << >>) /\ Len(t) = 1 + Len(shown(statics)) + (m + 1)
  <2>1. /\ t = joined(<<first_seen'>> \o shown(statics)', shown(stack)', << >>)
        /\ Len(t) = 1 + Len(shown(statics)') + Len(stack')
    BY DEF Seen, laid
  <2>2. shown(stack)' = D
    BY <1>7 DEF shown
  <2> QED BY <1>4, <1>6, <2>1, <2>2
<1>9. n \in 0 .. Len(B) /\ (n = 0 \/ << >> = << >>) /\ n = n + Len(<< >>)
      /\ D = Append(SubSeq(B, 1, Len(B) - n), w) /\ << >> \in Seq(V)
  <2>1. n \in 0 .. Len(B)
    BY <1>2, <1>3
  <2>2. << >> \in Seq(V) /\ Len(<< >>) = 0
    OBVIOUS
  <2> QED BY ONLY <1>2, <2>1, <2>2, D = Append(SubSeq(B, 1, Len(B) - n), w)
<1>10. replaced(s, t, n, w)
  <2> PICK C : C = << >> OBVIOUS
  <2>1. /\ n \in 0 .. Len(B) /\ (n = 0 \/ C = << >>) /\ n = n + Len(C) /\ C \in Seq(V)
        /\ D = Append(SubSeq(B, 1, Len(B) - n), w) /\ s = joined(F, B, C) /\ t = joined(F, D, << >>)
    BY ONLY <1>3, <1>8, <1>9, C = << >>
  <2> QED BY ONLY <1>3, <2>1, PoppedRoots
<1>11. /\ n \in 0 .. Len(s) - 1 /\ Len(t) = Len(s) - n + 1 /\ Len(s) \in Nat
  <2> PICK y : y = Len(shown(statics)) OBVIOUS
  <2>1. y \in Nat /\ Len(s) = 1 + y + l /\ Len(t) = 1 + y + (m + 1)
    BY <1>1, <1>3, <1>8 DEF Seen
  <2> QED BY ONLY <1>2, <2>1
<1> QED BY <1>10, <1>11

LEMMA ReplacedRefs ==
  ASSUME NEW V, NEW s \in Seq(V), NEW t \in Seq(V), NEW n, NEW d, NEW w, w = <<"ref", d>>,
         replaced(s, t, n, w), Len(t) = Len(s) - n + 1
  PROVE  d \in refs_of(t) /\ refs_of(t) \subseteq refs_of(s) \cup {d}
<1> PICK x \in Nat, y \in Nat : x = Len(s) /\ y = Len(t)
  OBVIOUS
<1> PICK m : m = x - n OBVIOUS
<1>1. t[y] = w /\ n \in 0 .. x /\ SubSeq(t, 1, y - 1) = SubSeq(s, 1, x - n) /\ y = x - n + 1
  BY DEF replaced
<1>2. m \in Nat /\ m <= x /\ y = m + 1 /\ y - 1 = m /\ x - n = m
  BY ONLY <1>1, x \in Nat, y \in Nat, m = x - n
<1>3. SubSeq(t, 1, m) = SubSeq(s, 1, m)
  BY ONLY <1>1, <1>2
<1>4. DOMAIN t = 1 .. m + 1 /\ DOMAIN s = 1 .. x /\ t[m + 1] = w
  <2>1. DOMAIN t = 1 .. y /\ DOMAIN s = 1 .. x
    OBVIOUS
  <2> QED BY ONLY <1>1, <1>2, <2>1
<1>5. ASSUME NEW j \in 1 .. m PROVE t[j] = s[j] /\ j \in DOMAIN s
  <2>1. \A i \in 1 .. m : i \in 1 .. Len(t) /\ i \in 1 .. Len(s)
    <3>1. Len(t) = m + 1 /\ Len(s) = x
      BY <1>2
    <3> QED BY ONLY <1>2, <3>1, x \in Nat
  <2>2. \A i \in 1 .. m : t[i] \in V /\ s[i] \in V
    BY <2>1
  <2>3. /\ \A i \in 1 .. m - 1 + 1 : SubSeq(t, 1, m)[i] = t[1 + i - 1]
        /\ \A i \in 1 .. m - 1 + 1 : SubSeq(s, 1, m)[i] = s[1 + i - 1]
    <3>1. m \in Int /\ 1 \in Int /\ 1 >= 1 /\ m <= Len(t) /\ m <= Len(s)
      BY <1>2
    <3> QED BY ONLY <1>2, <2>2, <3>1, SubSeqProperties
  <2>4. j \in 1 .. m - 1 + 1 /\ 1 + j - 1 = j /\ j \in 1 .. x
    BY ONLY <1>2, j \in 1 .. m, x \in Nat
  <2>5. SubSeq(t, 1, m)[j] = t[j] /\ SubSeq(s, 1, m)[j] = s[j]
    BY ONLY <2>3, <2>4
  <2> QED BY ONLY <1>3, <1>4, <2>4, <2>5
<1>6. ASSUME NEW j \in DOMAIN t, t[j][1] = "ref" PROVE t[j][2] \in refs_of(s) \cup {d}
  <2>1. j \in 1 .. m \/ j = m + 1
    BY ONLY <1>2, <1>4, j \in DOMAIN t
  <2>2. CASE j = m + 1
    BY <1>4, <2>2
  <2>3. CASE j \in 1 .. m
    BY <1>5, <1>6, <2>3 DEF refs_of
  <2> QED BY <2>1, <2>2, <2>3
<1>7. d \in refs_of(t)
  <2>1. m + 1 \in DOMAIN t
    BY ONLY <1>2, <1>4
  <2> QED BY <1>4, <2>1, RefsOf
<1> QED BY <1>6, <1>7 DEF refs_of

\* The new object joins the graph.
LEMMA GraphReturned ==
  ASSUME View, View', Seen, Seen', \A a \in DOMAIN mem : mem[a].id < cur_id /\ mem[a].id \in Nat,
         NEW o, NEW at, NEW p, placed(o, at, p),
         \A i \in fields(o) : o.words[i] \in references(DOMAIN mem),
         NEW d, d = cur_id, d \in Nat, NEW rs, rs = seen_by_program, NEW ts, ts = seen_by_program',
         NEW g, g = seen_graph, NEW h, h = seen_graph',
         d \in refs_of(ts), refs_of(ts) \subseteq refs_of(rs) \cup {d},
         refs_of(abs_object(o).words) \subseteq DOMAIN g
  PROVE  /\ d \notin DOMAIN g /\ d \in DOMAIN h /\ h[d] = abs_object(o)
         /\ h = Objects!live_part(with_object(g, d, h[d]), ts)
<1> PICK L : L = live_objects OBVIOUS
<1> PICK M : M = live_objects' OBVIOUS
<1> PICK R : R = references(DOMAIN mem) OBVIOUS
<1>1. /\ at \in Nat /\ at \notin DOMAIN mem /\ DOMAIN mem' = DOMAIN mem \cup {at} /\ mem'[at] = o
      /\ \A a \in DOMAIN mem : mem'[a] = mem[a]
      /\ \A q \in R : abs_word(q)' = abs_word(q) /\ o.id = d
  <2>1. o.id = d
    BY DEF placed
  <2> QED BY <2>1, NewValues
<1>2. /\ whole(rs, g) /\ DOMAIN g \subseteq DOMAIN now_graph /\ \A e \in DOMAIN g : g[e] = now_graph[e]
  BY DEF Seen
<1>3. /\ whole(ts, h) /\ DOMAIN h \subseteq DOMAIN now_graph' /\ \A e \in DOMAIN h : h[e] = now_graph'[e]
  BY DEF Seen
<1>4. /\ L \subseteq DOMAIN mem /\ DOMAIN now_graph = {mem[a].id : a \in L}
      /\ \A a \in L : now_graph[mem[a].id] = abs_object(mem[a])
      /\ fields_in(DOMAIN mem, R)
  BY DEF View
<1>5. /\ M \subseteq DOMAIN mem' /\ DOMAIN now_graph' = {mem'[a].id : a \in M}
      /\ \A a \in M : now_graph'[mem'[a].id] = abs_object(mem[a])'
      /\ \A a, b \in DOMAIN mem' : mem'[a].id = mem'[b].id => a = b
  BY ViewMoved
<1>6. d \notin DOMAIN g
  BY <1>2, <1>4
<1>7. d \in DOMAIN h
  BY <1>3 DEF whole
<1>8. h[d] = abs_object(o)
  <2>1. PICK a \in M : mem'[a].id = d
    BY <1>3, <1>5, <1>7
  <2>2. a = at
    BY <1>1, <1>5, <2>1
  <2>3. now_graph'[d] = abs_object(mem[at])'
    BY ONLY <1>5, <2>1, <2>2
  <2>4. abs_object(mem[at])' = abs_object(o)
    <3>1. \A i \in fields(o) : abs_word(o.words[i])' = abs_word(o.words[i])
      BY <1>1
    <3>2. mem'[at] = o
      BY <1>1
    <3> QED BY <3>1, <3>2, SameShown
  <2> QED BY <1>3, <1>7, <2>3, <2>4
<1>9. ASSUME NEW e \in DOMAIN g \cap DOMAIN h PROVE h[e] = g[e]
  <2>1. PICK a \in M : e = mem'[a].id
    BY <1>3, <1>5
  <2>2. PICK b \in L : e = mem[b].id
    BY <1>2, <1>4
  <2>3. a = b /\ a \in DOMAIN mem /\ mem'[a] = mem[a]
    <3>1. b \in DOMAIN mem /\ mem'[b] = mem[b] /\ b \in DOMAIN mem'
      BY <1>1, <1>4, <2>2
    <3>2. a = b
      BY <1>5, <2>1, <2>2, <3>1
    <3> QED BY <3>1, <3>2
  <2>4. abs_object(mem[a])' = abs_object(mem[a])
    <3> PICK q : q = mem[a] OBVIOUS
    <3>1. \A i \in fields(q) : q.words[i] \in R
      BY <1>4, <2>3 DEF fields_in
    <3>2. \A i \in fields(q) : abs_word(q.words[i])' = abs_word(q.words[i])
      BY <1>1, <3>1
    <3>3. mem'[a] = q
      BY <2>3
    <3> QED BY <3>2, <3>3, SameShown
  <2> QED BY <1>2, <1>3, <1>4, <1>5, <2>1, <2>2, <2>3, <2>4
<1>10. DOMAIN h \subseteq DOMAIN g \cup {d}
  <2> PICK D : D = DOMAIN h \cap (DOMAIN g \cup {d}) OBVIOUS
  <2>1. refs_of(ts) \subseteq D
    BY <1>2, <1>3 DEF whole
  <2>2. ASSUME NEW e \in D PROVE refs_of(h[e].words) \subseteq D
    <3>1. refs_of(h[e].words) \subseteq DOMAIN h
      BY <1>3 DEF whole, closed_graph
    <3>2. CASE e = d
      BY <1>8, <3>1, <3>2
    <3>3. CASE e # d
      <4>1. h[e] = g[e] /\ e \in DOMAIN g
        BY <1>9, <3>3
      <4>2. refs_of(g[e].words) \subseteq DOMAIN g
        BY <1>2, <4>1 DEF whole, closed_graph
      <4> QED BY <3>1, <4>1, <4>2
    <3> QED BY <3>2, <3>3
  <2>3. D = DOMAIN h
    BY <1>3, <2>1, <2>2 DEF whole
  <2> QED BY <2>3
<1>11. h = Objects!live_part(with_object(g, d, h[d]), ts)
  BY ONLY <1>2, <1>3, <1>6, <1>7, <1>9, <1>10, GraphExtended
<1> QED BY <1>6, <1>7, <1>8, <1>11

\* A function returns an object of which the abstract specification says that it
\* is the result of the function.
LEMMA ReturnShown ==
  ASSUME Observed, NEW f, NEW o, NEW n, NEW pops, leave(f, o, n, pops), pops_match(pops),
         running = "program", n \in 0 .. Len(stack), sound_object(o),
         refs_of(abs_object(o).words) \subseteq DOMAIN seen_graph,
         Runtime!result(f, seen_graph, Runtime!args(seen_by_program, n), abs_object(o))
  PROVE  ShownStep
<1> PICK rs : rs = seen_by_program OBVIOUS
<1> PICK g : g = seen_graph OBVIOUS
<1> PICK ts : ts = seen_by_program' OBVIOUS
<1> PICK h : h = seen_graph' OBVIOUS
<1> PICK d : d = cur_id OBVIOUS
<1> PICK at : at = heap.current OBVIOUS
<1> PICK p : p = new_address OBVIOUS
<1>1. View /\ Seen /\ Held /\ View' /\ Seen'
  BY Observing DEF Watched
<1>2. /\ place_object(o) /\ stack' = push(popped(n), p) /\ locals' = kept_locals
      /\ UNCHANGED <<statics, req, cur_id, running, exit>> /\ req.op = f
      /\ mem' = [a \in DOMAIN mem \cup {at} |-> IF a = at THEN o ELSE mem[a]]
      /\ allocating /\ pc # "failed"
  BY DEF leave, leave_with, place_object, allocating
<1>3. placed(o, at, p) /\ \A i \in fields(o) : o.words[i] \in references(DOMAIN mem)
  BY <1>2 DEF placed, sound_object
<1>4. /\ \A q \in references(DOMAIN mem) : abs_word(q)' = abs_word(q)
      /\ abs_word(p)' = <<"ref", d>>
  <2>1. /\ \A q \in references(DOMAIN mem) : abs_word(q)' = abs_word(q)
        /\ abs_word(p)' = <<"ref", cur_id>>
    BY ONLY <1>1, <1>3, NewValues
  <2> QED BY ONLY <2>1, d = cur_id
<1>5. \A a \in DOMAIN mem : mem[a].id < cur_id /\ mem[a].id \in Nat
  BY <1>1, <1>2 DEF Observed, HeapInv, Identity, Numbered, View, objects, Object
<1>6. d \in Nat
  BY DEF sound_object, Object
<1>7. SysargsKept
  <2>1. extra \in Seq(Cell) /\ Idle
    BY IdleHeap DEF Observed, Idle, View
  <2>2. 1 \in DOMAIN extra /\ extra[1] = sysargs
    BY <1>2, <2>1, FirstRegistered DEF Observed
  <2>3. "global_sysargs" \in DOMAIN locals
    BY <2>1, <2>2, HeldCell DEF sysargs
  <2> QED BY <1>2, <2>3 DEF SysargsKept, kept_locals
<1> PICK w : w = <<"ref", d>> OBVIOUS
<1>8. /\ replaced(rs, ts, n, w) /\ n \in 0 .. Len(rs) - 1 /\ Len(ts) = Len(rs) - n + 1
      /\ Len(rs) \in Nat
  <2>1. w = abs_word(p)'
    BY <1>4
  <2> QED BY <1>1, <1>2, <1>4, <1>7, <2>1, ReturnedSeen
<1>9. d \in refs_of(ts) /\ refs_of(ts) \subseteq refs_of(rs) \cup {d}
  <2> PICK U : U = seen_values OBVIOUS
  <2> PICK W : W = seen_values' OBVIOUS
  <2> PICK V : V = U \cup W OBVIOUS
  <2>1. rs \in Seq(U) /\ ts \in Seq(W)
    BY <1>1 DEF Seen
  <2>2. rs \in Seq(V) /\ ts \in Seq(V)
    <3>1. U \subseteq V /\ W \subseteq V
      OBVIOUS
    <3> QED BY ONLY <2>1, <3>1, SeqGrows
  <2> QED BY ONLY <1>8, <2>2, w = <<"ref", d>>, ReplacedRefs
<1>10. /\ d \notin DOMAIN g /\ d \in DOMAIN h /\ h[d] = abs_object(o)
       /\ h = Objects!live_part(with_object(g, d, h[d]), ts)
  BY <1>1, <1>3, <1>5, <1>6, <1>9, GraphReturned
<1>11. /\ ts[Len(ts)][1] = "ref" /\ ts[Len(ts)][2] = d
       /\ SubSeq(ts, 1, Len(ts) - 1) = SubSeq(rs, 1, Len(rs) - n)
  BY <1>8 DEF replaced
<1>12. Runtime!result(f, g, Runtime!args(rs, n), h[d])
  BY <1>10
<1>13. Runtime!Return(rs, g, ts, h)
  <2>1. h = Runtime!live_part([x \in DOMAIN g \cup {d} |-> IF x = d THEN h[d] ELSE g[x]], ts)
    BY <1>10, RuntimeLivePart DEF with_object
  <2>2. req'.op = req.op /\ req.op = f
    BY <1>2
  <2> QED BY <1>8, <1>10, <1>11, <1>12, <2>1, <2>2 DEF Runtime!Return
<1> QED BY <1>13 DEF ShownStep, Runtime!RuntimeNext

-------------------------------------------------------------------------------
(* Returns of the functions *)

\* The arguments of a function, in the graph that the program sees.
seen_arg(as, k) ==
  /\ as[k] = shown_arg(k) /\ as[k] = abs_word(arg(k))
  /\ as[k][1] = "ref" => as[k][2] \in DOMAIN seen_graph
  /\ refers(as[k]) => seen_graph[as[k][2]] = shown_object(as[k])

LEMMA ArgsSeen ==
  ASSUME View, Seen, RootsShown, gc_idle, NEW n \in 0 .. Len(stack),
         NEW as, as = Runtime!args(seen_by_program, n)
  PROVE  /\ as = [k \in 1 .. n |-> shown_arg(k)] /\ Len(as) = n
         /\ \A k \in 1 .. n : seen_arg(as, k)
<1> PICK rs : rs = seen_by_program OBVIOUS
<1> PICK A : A = shown(statics) OBVIOUS
<1> PICK B : B = shown(stack) OBVIOUS
<1> PICK x : x = Len(A) OBVIOUS
<1> PICK y : y = Len(B) OBVIOUS
<1>1. /\ Len(rs) = 1 + x + y /\ \A i \in 1 .. y : rs[1 + x + i] = B[i]
      /\ y = Len(stack) /\ y \in Nat /\ x \in Nat
      /\ \A d \in DOMAIN seen_graph : seen_graph[d] = now_graph[d]
  <2>1. A \in Seq(seen_values) /\ B \in Seq(seen_values) /\ y = Len(stack)
    BY DEF Seen
  <2>2. laid(rs, first_seen, A, B) /\ \A d \in DOMAIN seen_graph : seen_graph[d] = now_graph[d]
    BY DEF Seen
  <2>3. x \in Nat /\ y \in Nat
    BY <2>1
  <2>4. Len(rs) = 1 + x + y /\ \A i \in 1 .. y : rs[1 + x + i] = B[i]
    BY <2>2 DEF laid
  <2> QED BY <2>1, <2>2, <2>3, <2>4
<1>2. as = [k \in 1 .. n |-> rs[Len(rs) + 1 - k]]
  BY DEF Runtime!args
<1>3. ASSUME NEW k \in 1 .. n
      PROVE  /\ as[k] = abs_word(arg(k)) /\ arg(k) \in known_words /\ k \in 1 .. y
  <2> PICK i : i = y + 1 - k OBVIOUS
  <2>1. n \in Nat /\ n <= y /\ k \in 1 .. y
    BY ONLY <1>1, n \in 0 .. Len(stack), k \in 1 .. n
  <2>2. i \in 1 .. y /\ 1 + x + y + 1 - k = 1 + x + i
    BY ONLY <1>1, <2>1, i = y + 1 - k
  <2>3. as[k] = B[i]
    <3>1. as[k] = rs[Len(rs) + 1 - k]
      BY ONLY <1>2, <1>3
    <3>2. Len(rs) + 1 - k = 1 + x + i /\ rs[1 + x + i] = B[i]
      BY <1>1, <2>2
    <3> QED BY ONLY <3>1, <3>2
  <2>4. arg(k) = stack[i] /\ i \in DOMAIN stack /\ stack[i] \in known_words
    <3>1. stack \in Seq(known_words)
      BY KnownWords
    <3> QED BY <1>1, <2>2, <3>1 DEF arg, operand
  <2>5. B[i] = abs_word(stack[i])
    BY <2>4 DEF shown
  <2> QED BY <2>1, <2>3, <2>4, <2>5
<1>4. ASSUME NEW k \in 1 .. n PROVE seen_arg(as, k) /\ as[k] = shown_arg(k)
  <2>1. shows(shown_arg(k), arg(k))
    BY <1>1, <1>3, <1>4 DEF RootsShown
  <2>2. as[k] = shown_arg(k)
    BY <1>3, <1>4, <2>1 DEF shows
  <2>3. as[k][1] = "ref" => as[k][2] \in DOMAIN seen_graph
    BY <1>3, <1>4 DEF known_words, known_word
  <2>4. shown_graph = now_graph
    BY DEF shown_graph
  <2> QED BY <1>1, <1>3, <1>4, <2>2, <2>3, <2>4 DEF seen_arg, refers, shown_object
<1>5. n \in Nat
  BY <1>1
<1>6. as = [k \in 1 .. n |-> shown_arg(k)]
  <2>1. \A k \in 1 .. n : as[k] = shown_arg(k)
    BY <1>4
  <2> QED BY ONLY <1>2, <2>1
<1>7. Len(as) = n
  BY ONLY <1>2, <1>5
<1> QED BY <1>4, <1>6, <1>7

LEMMA BitsClear ==
  HeapInv /\ gc_idle => \A a \in DOMAIN mem : ~mem[a].marked /\ ~mem[a].enqueued
BY SoundnessImplies DEF HeapInv, BitsClearOutsideCollection

\* A call of the program returns: function f makes object o of its n arguments.
back(f, o, n, pops, as) ==
  /\ called({f}) /\ running = "program" /\ req.op = f /\ req.len \in Nat
  /\ gc_idle /\ Idle /\ View /\ Seen /\ RootsShown /\ pops_match(pops)
  /\ n \in 0 .. Len(stack) /\ n \in Nat
  /\ as = Runtime!args(seen_by_program, n) /\ as = [k \in 1 .. n |-> shown_arg(k)] /\ Len(as) = n
  /\ \A k \in 1 .. n : /\ seen_arg(as, k) /\ shows(shown_arg(k), arg(k))
                       /\ arg(k) \in references(DOMAIN mem)
  /\ o \in Object /\ ~o.marked /\ ~o.enqueued /\ (o.type = "STRING" => Len(o.words) = o.len)

LEMMA Returning ==
  ASSUME Observed, NEW f, f \notin {"set_args", "set_args_bstring"},
         NEW o, NEW n, NEW pops, leave(f, o, n, pops), called({f}) => ready(n, pops),
         NEW as, as = Runtime!args(seen_by_program, n)
  PROVE  back(f, o, n, pops, as)
<1>1. Frames /\ HeapInv /\ View /\ Seen
  BY Observing DEF Watched, Observed
<1>2. pc \in {"alloc", "retry"} /\ req.op = f
  <2>1. leave(f, o, n, pops)
    OBVIOUS
  <2> QED BY ONLY <2>1, Zenon DEF leave, leave_with
<1>3. called({f})
  BY <1>1, <1>2, WasCalled
<1>4. pops_match(pops) /\ n \in Nat /\ arguments(n)
  BY <1>3 DEF ready
<1>5. /\ gc_idle /\ Idle /\ RootsShown /\ req.len \in Nat
      /\ Len(stack) \in Nat /\ FrameWords \in Nat
      /\ \A k \in 1 .. n : /\ k \in 1 .. Len(stack) /\ arg(k) \in references(DOMAIN mem)
                           /\ shows(shown_arg(k), arg(k))
  BY <1>1, <1>2, <1>3, <1>4, ReturnOf
<1>6. n \in 0 .. Len(stack)
  BY <1>4, <1>5 DEF arguments
<1>7. /\ as = [k \in 1 .. n |-> shown_arg(k)] /\ Len(as) = n
      /\ \A k \in 1 .. n : seen_arg(as, k)
  BY <1>1, <1>5, <1>6, ArgsSeen
<1>8. o \in Object /\ ~o.marked /\ ~o.enqueued /\ (o.type = "STRING" => Len(o.words) = o.len)
  <2>1. place_object(o)
    BY <1>4 DEF leave, leave_with
  <2>2. heap.current \in DOMAIN mem' /\ mem'[heap.current] = o
    BY <2>1 DEF place_object
  <2>3. (HeapInv /\ gc_idle)'
    BY DEF Observed
  <2>4. (\A a \in DOMAIN mem : ~mem[a].marked /\ ~mem[a].enqueued)'
    BY <2>3, BitsClear, PTL
  <2>5. Idle'
    BY <2>3, IdleHeap, PTL
  <2> QED BY <2>2, <2>4, <2>5 DEF Idle, objects
<1> QED BY <1>1, <1>2, <1>3, <1>4, <1>5, <1>6, <1>7, <1>8 DEF back, called

LEMMA ObjectReturned ==
  ASSUME Observed, NEW f, NEW o, NEW n, NEW pops, leave(f, o, n, pops),
         NEW as, back(f, o, n, pops, as), o.id = cur_id,
         \A i \in fields(o) : o.words[i] \in references(DOMAIN mem),
         NEW a, a = abs_object(o),
         refs_of(a.words) \subseteq DOMAIN seen_graph, Runtime!result(f, seen_graph, as, a)
  PROVE  ShownStep
<1>1. sound_object(o)
  BY DEF back, sound_object
<1>2. /\ pops_match(pops) /\ running = "program" /\ n \in 0 .. Len(stack)
      /\ as = Runtime!args(seen_by_program, n)
  BY DEF back
<1> QED BY <1>1, <1>2, ReturnShown

-------------------------------------------------------------------------------
(* Returns of functions that make strings *)

characters(s) == [i \in DOMAIN s |-> <<"word", s[i]>>]

LEMMA StringMade ==
  ASSUME NEW o \in Object, o.type = "STRING", Len(o.words) = o.len, NEW a, a = abs_object(o)
  PROVE  /\ a = Runtime!string(characters(o.words)) /\ Runtime!fresh_string(a)
         /\ refs_of(a.words) = {} /\ fields(o) = {} /\ o.words \in Seq(Nat)
         /\ a.words = characters(o.words) /\ a.len = o.len /\ a.type = "STRING"
<1> PICK s : s = o.words OBVIOUS
<1> PICK w : w = characters(s) OBVIOUS
<1>1. fields(o) = {} /\ s \in Seq(Nat) /\ o.len \in Nat /\ DOMAIN s = 1 .. o.len
  BY StringShown
<1>2. abs_words(o) = w
  BY <1>1 DEF abs_words, characters
<1>3. a = [type |-> "STRING", len |-> o.len, words |-> w]
  BY <1>2 DEF abs_object
<1>4. DOMAIN w = 1 .. o.len /\ \A i \in DOMAIN w : w[i] = <<"word", s[i]>>
  BY <1>1 DEF characters
<1>5. Len(w) = o.len
  <2>1. w = [i \in 1 .. o.len |-> w[i]]
    BY <1>4 DEF characters
  <2> QED BY <1>1, <2>1
<1>6. a = Runtime!string(w)
  BY <1>3, <1>5 DEF Runtime!string, Runtime!object
<1>7. refs_of(w) = {}
  BY <1>4 DEF refs_of
<1>8. Runtime!refs(Runtime!range(w)) = {}
  BY <1>7, RuntimeValues
<1>9. a.words = w /\ a.len = o.len /\ a.type = "STRING"
  BY <1>3
<1> QED BY <1>1, <1>6, <1>7, <1>8, <1>9 DEF Runtime!fresh_string

LEMMA StringReturned ==
  ASSUME Observed, NEW f, NEW c, NEW o, o = new_object(c), NEW n, NEW pops, leave(f, o, n, pops),
         NEW as, back(f, o, n, pops, as), req.type = "STRING",
         Runtime!fresh_string(Runtime!string(characters(c))) =>
           Runtime!result(f, seen_graph, as, Runtime!string(characters(c)))
  PROVE  ShownStep
<1> PICK a : a = abs_object(o) OBVIOUS
<1>1. o.id = cur_id /\ o.type = "STRING" /\ o.words = c
  BY DEF new_object
<1>2. o \in Object /\ Len(o.words) = o.len
  BY <1>1 DEF back
<1>3. /\ a = Runtime!string(characters(c)) /\ Runtime!fresh_string(a)
      /\ refs_of(a.words) = {} /\ fields(o) = {}
  BY <1>1, <1>2, StringMade
<1> QED BY <1>1, <1>3, ObjectReturned

-------------------------------------------------------------------------------
(* Returns of functions that make objects of their arguments *)

\* A sequence of words behind a word that is no reference.
LEMMA BehindRefs ==
  ASSUME NEW k \in Nat, NEW v, v = [i \in 1 .. k + 1 |-> v[i]], v[1][1] # "ref",
         NEW as, as = Tail(v)
  PROVE  refs_of(v) \subseteq refs_of(as) /\ Len(v) = k + 1
<1>1. as = [i \in 1 .. k |-> v[i + 1]]
  BY ONLY k \in Nat, v = [i \in 1 .. k + 1 |-> v[i]], as = Tail(v), TailOf
<1>2. DOMAIN v = 1 .. k + 1 /\ DOMAIN as = 1 .. k
  BY <1>1
<1>3. ASSUME NEW i \in DOMAIN v, v[i][1] = "ref" PROVE v[i][2] \in refs_of(as)
  <2> PICK j : j = i - 1 OBVIOUS
  <2>1. i # 1
    BY <1>3
  <2>2. j \in 1 .. k /\ i = j + 1
    BY ONLY <1>2, <1>3, <2>1, j = i - 1, k \in Nat
  <2>3. as[j] = v[i]
    BY ONLY <1>1, <2>2
  <2> QED BY <1>2, <1>3, <2>2, <2>3 DEF refs_of
<1>4. refs_of(v) \subseteq refs_of(as)
  <2>1. ASSUME NEW x \in refs_of(v) PROVE x \in refs_of(as)
    <3>1. PICK i \in DOMAIN v : v[i][1] = "ref" /\ x = v[i][2]
      BY DEF refs_of
    <3> QED BY <1>3, <3>1
  <2> QED BY <2>1
<1>5. Len(v) = k + 1
  <2> PICK m : m = k + 1 OBVIOUS
  <2>1. m \in Nat /\ v = [i \in 1 .. m |-> v[i]]
    BY ONLY k \in Nat, m = k + 1, v = [i \in 1 .. k + 1 |-> v[i]]
  <2>2. Len([i \in 1 .. m |-> v[i]]) = m
    BY ONLY <2>1
  <2> QED BY ONLY <2>1, <2>2, m = k + 1
<1> QED BY <1>4, <1>5

LEMMA MembersReturned ==
  ASSUME Observed, NEW f, NEW n, NEW c, c = members(n), NEW o, NEW pops, leave(f, o, n, pops),
         NEW as, back(f, o, n, pops, as),
         \/ f = "Barray" /\ o = new_object(c) /\ req.type = "ARRAY" /\ req.len = n
         \/ f = "Bsexp" /\ o = new_object(<<raw_word>> \o c) /\ req.type = "SEXP" /\ req.len = n
         \/ f = "Bclosure" /\ o = new_object(<<raw_word>> \o c) /\ req.type = "CLOSURE" /\ req.len = n + 1
  PROVE  ShownStep
<1> PICK R : R = references(DOMAIN mem) OBVIOUS
<1>1. /\ n \in Nat /\ as = [k \in 1 .. n |-> shown_arg(k)] /\ Len(as) = n
      /\ \A k \in 1 .. n : seen_arg(as, k) /\ arg(k) \in R
  BY DEF back
<1>2. c = [k \in 1 .. n |-> c[k]] /\ \A k \in 1 .. n : c[k] = arg(k) /\ c[k] \in R
  BY <1>1 DEF members
<1>3. c \in Seq(R) /\ Len(c) = n
  BY ONLY <1>1, <1>2, FunctionIsSeq
<1>4. shown(c) = as
  <2>1. shown(c) = [k \in 1 .. n |-> abs_word(c[k])]
    BY <1>3 DEF shown
  <2>2. \A k \in 1 .. n : abs_word(c[k]) = as[k]
    BY <1>1, <1>2 DEF seen_arg
  <2>3. as = [k \in 1 .. n |-> as[k]]
    BY ONLY <1>1
  <2> QED BY ONLY <2>1, <2>2, <2>3
<1>5. refs_of(as) \subseteq DOMAIN seen_graph
  <2>1. DOMAIN as = 1 .. n /\ \A k \in 1 .. n : as[k][1] = "ref" => as[k][2] \in DOMAIN seen_graph
    BY <1>1 DEF seen_arg
  <2> QED BY <2>1 DEF refs_of
<1> PICK a : a = abs_object(o) OBVIOUS
<1> PICK v : v = abs_words(o) OBVIOUS
<1>6. CASE f = "Barray" /\ o = new_object(c) /\ req.type = "ARRAY" /\ req.len = n
  <2>1. /\ o.id = cur_id /\ a = [type |-> o.type, len |-> o.len, words |-> v]
        /\ o.type = "ARRAY" /\ o.len = n /\ o.words = c
        /\ fields(o) = first_field("ARRAY", n) .. Len(c) /\ shows_fields(o, c)
    BY <1>6, FreshShown DEF filled, abs_object
  <2>2. fields(o) = 1 .. n
    BY <1>3, <2>1 DEF first_field
  <2>3. v = as
    <3>1. v = [i \in DOMAIN c |-> v[i]] /\ \A i \in DOMAIN c : i \in fields(o) => v[i] = abs_word(c[i])
      BY <2>1 DEF shows_fields
    <3>2. DOMAIN c = 1 .. n
      BY ONLY <1>2
    <3>3. shown(c) = [i \in DOMAIN c |-> abs_word(c[i])]
      BY DEF shown
    <3> QED BY ONLY <1>4, <2>2, <3>1, <3>2, <3>3
  <2>4. a = Runtime!object("ARRAY", n, as) /\ a.words = as
    BY <2>1, <2>3 DEF Runtime!object
  <2>5. Runtime!result(f, seen_graph, as, a)
    BY <1>1, <1>6, <2>4 DEF Runtime!result
  <2>6. \A i \in fields(o) : o.words[i] \in references(DOMAIN mem)
    BY <1>2, <2>1, <2>2
  <2> QED BY <1>5, <2>1, <2>4, <2>5, <2>6, ObjectReturned
<1>7. CASE \/ f = "Bsexp" /\ o = new_object(<<raw_word>> \o c) /\ req.type = "SEXP" /\ req.len = n
           \/ f = "Bclosure" /\ o = new_object(<<raw_word>> \o c) /\ req.type = "CLOSURE" /\ req.len = n + 1
  <2> PICK e : e = <<raw_word>> \o c OBVIOUS
  <2>1. filled(o, e) /\ req.type \in {"SEXP", "CLOSURE"}
    BY <1>7 DEF filled
  <2>2. /\ \A i \in fields(o) : o.words[i] \in R
        /\ a.type = req.type /\ a.len = req.len /\ Tail(a.words) = as
    <3>1. /\ \A i \in fields(o) : o.words[i] \in R
          /\ abs_object(o).type = req.type /\ abs_object(o).len = req.len
          /\ Tail(abs_object(o).words) = shown(c)
      BY ONLY <1>3, <2>1, e = <<raw_word>> \o c, PrefixShown
    <3> QED BY <1>4, <3>1
  <2>3. /\ o.id = cur_id /\ a.words = v /\ shows_fields(o, e)
        /\ fields(o) = first_field(req.type, req.len) .. Len(e)
    BY <2>1, FreshShown
  <2>4. e[1] = raw_word /\ DOMAIN e = 1 .. n + 1
    BY ONLY <1>1, <1>3, e = <<raw_word>> \o c
  <2>5. v = [i \in 1 .. n + 1 |-> v[i]] /\ v[1][1] # "ref"
    <3>1. 1 \notin fields(o) /\ 1 \in 1 .. n + 1
      <4>1. first_field(req.type, req.len) = 2
        BY <2>1 DEF first_field
      <4> QED BY ONLY <1>1, <2>3, <4>1
    <3>2. v[1] = <<"word", raw_word>>
      BY <2>3, <2>4, <3>1 DEF shows_fields
    <3>3. v = [i \in DOMAIN e |-> v[i]]
      BY <2>3 DEF shows_fields
    <3> QED BY <2>4, <3>2, <3>3
  <2>6. refs_of(v) \subseteq refs_of(as) /\ Len(v) = n + 1
    <3>1. as = Tail(v)
      BY <2>2, <2>3
    <3> QED BY ONLY <1>1, <2>5, <3>1, BehindRefs
  <2>7. Runtime!result(f, seen_graph, as, a)
    BY <1>1, <1>7, <2>2, <2>3, <2>6 DEF Runtime!result, Runtime!has_members
  <2>8. refs_of(a.words) \subseteq DOMAIN seen_graph
    BY <1>5, <2>3, <2>6
  <2> QED BY <2>2, <2>3, <2>7, <2>8, ObjectReturned
<1> QED BY <1>6, <1>7

-------------------------------------------------------------------------------
(* Characters *)

LEMMA Characters ==
  ASSUME NEW s \in Seq(Nat), NEW w, w = characters(s)
  PROVE  /\ DOMAIN w = 1 .. Len(s) /\ Len(w) = Len(s) /\ w \in Seq({"word"} \X Nat)
         /\ \A i \in 1 .. Len(s) : w[i] = <<"word", s[i]>>
         /\ Runtime!text_length(w) = Len(c_text(s))
         /\ Len(c_text(s)) \in Nat /\ Len(c_text(s)) <= Len(s)
<1> PICK n : n = Len(s) OBVIOUS
<1> PICK T : T = {"word"} \X Nat OBVIOUS
<1>1. n \in Nat /\ DOMAIN s = 1 .. n /\ \A i \in 1 .. n : s[i] \in Nat
  OBVIOUS
<1>2. w = [i \in 1 .. n |-> <<"word", s[i]>>]
  BY <1>1 DEF characters
<1>3. DOMAIN w = 1 .. n /\ \A i \in 1 .. n : w[i] = <<"word", s[i]>> /\ w[i] \in T
  BY <1>1, <1>2
<1>4. w \in Seq(T) /\ Len(w) = n
  <2>1. w = [i \in 1 .. n |-> w[i]] /\ \A i \in 1 .. n : w[i] \in T
    BY ONLY <1>2, <1>3
  <2> QED BY ONLY <1>1, <2>1, FunctionIsSeq
<1>5. Len(c_text(s)) \in Nat /\ Len(c_text(s)) <= n /\ Len(c_text(s)) = text_length(w)
  <2>1. \A i \in 1 .. n : w[i] = <<"word", s[i]>>
    BY <1>3
  <2> QED BY ONLY s \in Seq(Nat), n = Len(s), <1>3, <2>1, TextShown
<1>6. Runtime!text_length(w) = text_length(w)
  <2> PICK S : S = {i \in DOMAIN w : \A j \in 1 .. i : w[j] # <<"word", 0>>} OBVIOUS
  <2>1. Runtime!Cardinality(S) = Cardinality(S)
    BY DEF Runtime!Cardinality, Cardinality
  <2>2. Runtime!text_length(w) = Runtime!Cardinality(S)
    BY DEF Runtime!text_length, Runtime!word
  <2> QED BY <2>1, <2>2 DEF text_length
<1> QED BY <1>3, <1>4, <1>5, <1>6

\* strncpy, which pads with zeros.
LEMMA Padded ==
  ASSUME NEW s \in Seq(Nat), NEW n \in Nat, NEW c, c = strncpy(s, n),
         NEW w, w = characters(s)
  PROVE  /\ characters(c) = Runtime!zero_padded(w, n)
         /\ c \in Seq(Nat) /\ Len(c) = n
<1> PICK k : k = Len(c_text(s)) OBVIOUS
<1>1. /\ k = Runtime!text_length(w) /\ k \in Nat /\ k <= Len(s) /\ Len(s) \in Nat
      /\ \A i \in 1 .. Len(s) : w[i] = <<"word", s[i]>>
  BY Characters
<1>2. c = [i \in 1 .. n |-> IF i <= k THEN s[i] ELSE 0]
  BY DEF strncpy
<1>3. DOMAIN c = 1 .. n
  BY <1>2
<1>4. characters(c) = [i \in 1 .. n |-> <<"word", c[i]>>]
  BY <1>3 DEF characters
<1>5. Runtime!zero_padded(w, n) = [i \in 1 .. n |-> IF i <= k THEN w[i] ELSE <<"word", 0>>]
  BY <1>1 DEF Runtime!zero_padded, Runtime!word
<1>6. \A i \in 1 .. n : <<"word", c[i]>> = IF i <= k THEN w[i] ELSE <<"word", 0>>
  <2>1. ASSUME NEW i \in 1 .. n, i <= k PROVE <<"word", c[i]>> = w[i]
    BY <1>1, <1>2, <2>1
  <2>2. ASSUME NEW i \in 1 .. n, ~(i <= k) PROVE c[i] = 0
    BY <1>2, <2>2
  <2> QED BY <2>1, <2>2
<1>7. characters(c) = Runtime!zero_padded(w, n)
  BY ONLY <1>4, <1>5, <1>6
<1> QED BY <1>7, Strncpy

\* Concatenation.
LEMMA Concat ==
  ASSUME NEW S, NEW u \in Seq(S), NEW v \in Seq(S), NEW z, z = u \o v,
         NEW m, m = Len(u), NEW n, n = Len(v)
  PROVE  /\ z \in Seq(S) /\ Len(z) = m + n /\ m \in Nat /\ n \in Nat
         /\ \A i \in 1 .. m : z[i] = u[i]
         /\ \A i \in 1 .. n : z[m + i] = v[i]
BY ONLY u \in Seq(S), v \in Seq(S), z = u \o v, m = Len(u), n = Len(v), ConcatProperties

LEMMA JoinedCharacters ==
  ASSUME NEW a \in Seq(Nat), NEW b \in Seq(Nat), NEW c, c = a \o b
  PROVE  characters(c) = characters(a) \o characters(b)
<1> PICK T : T = {"word"} \X Nat OBVIOUS
<1> PICK u : u = characters(a) OBVIOUS
<1> PICK v : v = characters(b) OBVIOUS
<1> PICK w : w = characters(c) OBVIOUS
<1> PICK z : z = u \o v OBVIOUS
<1> PICK m : m = Len(a) OBVIOUS
<1> PICK n : n = Len(b) OBVIOUS
<1>1. /\ c \in Seq(Nat) /\ Len(c) = m + n /\ m \in Nat /\ n \in Nat
      /\ \A i \in 1 .. m : c[i] = a[i]
      /\ \A i \in 1 .. n : c[m + i] = b[i]
  BY ONLY a \in Seq(Nat), b \in Seq(Nat), c = a \o b, m = Len(a), n = Len(b), Concat
<1>2. u \in Seq(T) /\ Len(u) = m /\ \A i \in 1 .. m : u[i] = <<"word", a[i]>>
  BY Characters
<1>3. v \in Seq(T) /\ Len(v) = n /\ \A i \in 1 .. n : v[i] = <<"word", b[i]>>
  BY Characters
<1>4. w \in Seq(T) /\ Len(w) = m + n /\ \A i \in 1 .. m + n : w[i] = <<"word", c[i]>>
  <2>1. w \in Seq(T) /\ Len(w) = Len(c) /\ \A i \in 1 .. Len(c) : w[i] = <<"word", c[i]>>
    BY <1>1, Characters
  <2> QED BY ONLY <1>1, <2>1
<1>5. /\ z \in Seq(T) /\ Len(z) = m + n
      /\ \A i \in 1 .. m : z[i] = u[i]
      /\ \A i \in 1 .. n : z[m + i] = v[i]
  <2>1. u \in Seq(T) /\ v \in Seq(T) /\ m = Len(u) /\ n = Len(v)
    BY <1>2, <1>3
  <2> QED BY ONLY <2>1, z = u \o v, Concat
<1>6. ASSUME NEW i \in 1 .. m + n PROVE w[i] = z[i]
  <2>1. CASE i <= m
    <3>1. i \in 1 .. m
      BY ONLY <1>1, <1>6, <2>1
    <3>2. z[i] = u[i] /\ c[i] = a[i] /\ u[i] = <<"word", a[i]>>
      BY ONLY <1>1, <1>2, <1>5, <3>1
    <3>3. w[i] = <<"word", c[i]>>
      BY ONLY <1>4, <1>6
    <3> QED BY ONLY <3>2, <3>3
  <2>2. CASE ~(i <= m)
    <3> PICK j : j = i - m OBVIOUS
    <3>1. j \in 1 .. n /\ i = m + j
      BY ONLY <1>1, <1>6, <2>2, j = i - m
    <3>2. z[i] = v[j] /\ c[i] = b[j] /\ v[j] = <<"word", b[j]>>
      BY ONLY <1>1, <1>3, <1>5, <3>1
    <3>3. w[i] = <<"word", c[i]>>
      BY ONLY <1>4, <1>6
    <3> QED BY ONLY <3>2, <3>3
  <2> QED BY <2>1, <2>2
<1>7. w = z
  BY ONLY <1>1, <1>4, <1>5, <1>6, SeqEqual
<1> QED BY <1>7

\* The characters from one on, up to the last.
from_to(s, m, n)   == SubSeq(s, m + 1, n)
inside(s, m, n, l) == m <= n /\ n <= Len(s) /\ l = n - m

LEMMA Sub ==
  ASSUME NEW S, NEW s \in Seq(S), NEW m \in Nat, NEW n \in Nat, NEW l, inside(s, m, n, l),
         NEW c, c = from_to(s, m, n)
  PROVE  c \in Seq(S) /\ Len(c) = l /\ \A i \in 1 .. l : c[i] = s[m + i]
<1> PICK a : a = m + 1 OBVIOUS
<1> PICK x : x = Len(s) OBVIOUS
<1>0. m <= n /\ n <= x /\ l = n - m
  BY DEF inside
<1>1. /\ a \in 1 .. x + 1 /\ n \in a - 1 .. x /\ l \in Nat /\ n - a + 1 = l /\ a \in Int /\ n \in Int
      /\ \A i \in 1 .. l : a + i - 1 = m + i
  BY ONLY m \in Nat, n \in Nat, <1>0, a = m + 1, s \in Seq(S), x = Len(s)
<1>2. \A i \in a .. n : s[i] \in S
  BY ONLY <1>1, s \in Seq(S), x = Len(s)
<1>3. /\ c \in Seq(S)
      /\ Len(c) = IF a <= n THEN n - a + 1 ELSE 0
      /\ \A i \in 1 .. n - a + 1 : c[i] = s[a + i - 1]
  <2>1. c = SubSeq(s, a, n)
    BY DEF from_to
  <2> QED BY ONLY <1>1, <1>2, <2>1, SubSeqProperties
<1>4. Len(c) = l
  BY ONLY <1>1, <1>3
<1>5. \A i \in 1 .. l : c[i] = s[m + i]
  BY ONLY <1>1, <1>3
<1> QED BY <1>3, <1>4, <1>5

LEMMA SubCharacters ==
  ASSUME NEW s \in Seq(Nat), NEW m \in Nat, NEW n \in Nat, NEW l, inside(s, m, n, l),
         NEW c, c = from_to(s, m, n)
  PROVE  /\ characters(c) = from_to(characters(s), m, n)
         /\ c \in Seq(Nat) /\ Len(c) = l /\ \A i \in 1 .. l : c[i] = s[m + i]
<1> PICK T : T = {"word"} \X Nat OBVIOUS
<1> PICK u : u = characters(s) OBVIOUS
<1> PICK w : w = characters(c) OBVIOUS
<1> PICK z : z = from_to(u, m, n) OBVIOUS
<1>0. m <= n /\ n <= Len(s) /\ l = n - m
  BY DEF inside
<1>1. /\ c \in Seq(Nat) /\ Len(c) = l /\ \A i \in 1 .. l : c[i] = s[m + i]
  BY ONLY s \in Seq(Nat), m \in Nat, n \in Nat, inside(s, m, n, l), c = from_to(s, m, n), Sub
<1>2. u \in Seq(T) /\ Len(u) = Len(s) /\ \A i \in 1 .. Len(s) : u[i] = <<"word", s[i]>>
  BY Characters
<1>3. w \in Seq(T) /\ Len(w) = l /\ \A i \in 1 .. l : w[i] = <<"word", c[i]>>
  <2>1. w \in Seq(T) /\ Len(w) = Len(c) /\ \A i \in 1 .. Len(c) : w[i] = <<"word", c[i]>>
    BY <1>1, Characters
  <2> QED BY ONLY <1>1, <2>1
<1>4. z \in Seq(T) /\ Len(z) = l /\ \A i \in 1 .. l : z[i] = u[m + i]
  <2>1. u \in Seq(T) /\ inside(u, m, n, l)
    BY <1>2 DEF inside
  <2> QED BY ONLY <2>1, m \in Nat, n \in Nat, z = from_to(u, m, n), Sub
<1>5. ASSUME NEW i \in 1 .. l PROVE w[i] = z[i]
  <2>1. m + i \in 1 .. Len(s)
    <3> PICK x : x = Len(s) OBVIOUS
    <3>1. x \in Nat /\ n <= x
      BY <1>0
    <3>2. m + i \in 1 .. x
      BY ONLY <3>1, m \in Nat, n \in Nat, <1>0, i \in 1 .. l
    <3> QED BY <3>2
  <2> QED BY ONLY <1>1, <1>2, <1>3, <1>4, <2>1, <1>5
<1>6. l \in Nat
  BY ONLY m \in Nat, n \in Nat, <1>0
<1>7. w = z
  BY ONLY <1>3, <1>4, <1>5, <1>6, SeqEqual
<1> QED BY <1>1, <1>7

-------------------------------------------------------------------------------
(* Returns, function by function *)

\* An integer and a string among the arguments.
LEMMA IntegerArgument ==
  ASSUME NEW as, NEW k, NEW n \in Nat, seen_arg(as, k), integer_shown(shown_arg(k), n)
  PROVE  Runtime!int(as, k) = n
<1>1. as[k] = <<"word", BOX(n)>>
  BY DEF seen_arg, integer_shown
<1>2. as[k][2] = 2 * n + 1
  BY <1>1 DEF BOX
<1>3. (2 * n + 1) \div 2 = n
  OBVIOUS
<1> QED BY <1>2, <1>3 DEF Runtime!int, Runtime!UNBOX

LEMMA StringArgument ==
  ASSUME Idle, NEW as, NEW k, seen_arg(as, k), shows(shown_arg(k), arg(k)), string_shown(shown_arg(k)),
         NEW p, shows(shown_arg(k), p), NEW o, o = object_at(p),
         NEW d, d = Runtime!obj(seen_graph, as, k)
  PROVE  /\ o.words \in Seq(Nat) /\ o.len \in Nat /\ Len(o.words) = o.len
         /\ d.words = characters(o.words) /\ d.len = o.len /\ o.len = shown_object(shown_arg(k)).len
<1> PICK v : v = shown_arg(k) OBVIOUS
<1>1. /\ o.words \in Seq(Nat) /\ o.len \in Nat /\ Len(o.words) = o.len
      /\ o.len = shown_object(v).len /\ shown_object(v) = abs_object(o) /\ is_string(p)
  BY SeenString
<1>2. d = abs_object(o)
  <2>1. as[k] = v /\ refers(v) /\ seen_graph[as[k][2]] = shown_object(as[k])
    BY DEF seen_arg, string_shown
  <2> QED BY <1>1, <2>1 DEF Runtime!obj
<1>3. o \in Object /\ o.type = "STRING"
  BY <1>1, StringArg
<1>4. d.words = characters(o.words) /\ d.len = o.len
  BY <1>1, <1>2, <1>3, StringMade
<1> QED BY <1>1, <1>4

LEMMA ArrayShown ==
  ASSUME Observed, Requested, LmakeArray_return PROVE ShownStep
<1> PICK f : f = "LmakeArray" OBVIOUS
<1> PICK n : n = req.len OBVIOUS
<1> PICK c : c = [i \in 1 .. n |-> BOX(0)] OBVIOUS
<1> PICK o : o = new_object(c) OBVIOUS
<1> PICK pops : pops = << >> OBVIOUS
<1> PICK as : as = Runtime!args(seen_by_program, 1) OBVIOUS
<1> PICK a : a = abs_object(o) OBVIOUS
<1> PICK v : v = abs_words(o) OBVIOUS
<1>1. leave(f, o, 1, pops)
  BY DEF LmakeArray_return
<1>2. called({f}) => ready(1, pops)
  BY Ready DEF Observed
<1>3. back(f, o, 1, pops, as)
  BY <1>1, <1>2, Returning
<1>4. n \in Nat /\ req.type = "ARRAY" /\ Runtime!int(as, 1) = n /\ Len(as) = 1
  <2>1. /\ called({"LmakeArray"}) /\ n \in Nat /\ Len(as) = 1 /\ seen_arg(as, 1)
    BY <1>3 DEF back
  <2>2. req.type = "ARRAY" /\ integer_shown(shown_arg(1), n)
    BY <2>1 DEF Requested
  <2> QED BY <2>1, <2>2, IntegerArgument
<1>5. DOMAIN c = 1 .. n /\ Len(c) = n /\ \A i \in 1 .. n : c[i] = BOX(0)
  BY ONLY <1>4, c = [i \in 1 .. n |-> BOX(0)]
<1>6. /\ o.id = cur_id /\ a = [type |-> o.type, len |-> o.len, words |-> v]
      /\ o.type = "ARRAY" /\ o.len = n /\ o.words = c
      /\ fields(o) = first_field("ARRAY", n) .. Len(c) /\ shows_fields(o, c)
  <2>1. filled(o, c)
    BY DEF filled
  <2>2. /\ o.id = cur_id /\ o.type = req.type /\ o.len = req.len /\ o.words = c
        /\ fields(o) = first_field(req.type, req.len) .. Len(c) /\ shows_fields(o, c)
    BY ONLY <2>1, FreshShown
  <2>3. a = [type |-> o.type, len |-> o.len, words |-> v]
    BY DEF abs_object
  <2> QED BY <1>4, <2>2, <2>3
<1>7. fields(o) = 1 .. n
  BY <1>5, <1>6 DEF first_field
<1>8. abs_word(BOX(0)) = <<"word", BOX(0)>>
  BY DEF abs_word, is_valid_heap_pointer, UNBOXED, BOX
<1> PICK z : z = <<"word", BOX(0)>> OBVIOUS
<1>9. v = [i \in 1 .. n |-> z]
  <2>1. v = [i \in DOMAIN c |-> v[i]] /\ \A i \in DOMAIN c : i \in fields(o) => v[i] = abs_word(c[i])
    BY <1>6 DEF shows_fields
  <2> QED BY ONLY <1>5, <1>7, <1>8, <2>1, z = <<"word", BOX(0)>>
<1>10. a = Runtime!object("ARRAY", n, [i \in 1 .. n |-> Runtime!zero]) /\ a.words = v
  <2>1. Runtime!zero = z
    BY DEF Runtime!zero, Runtime!word, Runtime!BOX, BOX
  <2>2. v = [i \in 1 .. n |-> Runtime!zero]
    BY <1>9, <2>1
  <2> PICK u : u = [i \in 1 .. n |-> Runtime!zero] OBVIOUS
  <2>3. a = [type |-> "ARRAY", len |-> n, words |-> v]
    BY <1>6
  <2>4. Runtime!object("ARRAY", n, u) = [type |-> "ARRAY", len |-> n, words |-> u]
    BY DEF Runtime!object
  <2>5. u = v
    BY ONLY <2>2, u = [i \in 1 .. n |-> Runtime!zero]
  <2>6. a = Runtime!object("ARRAY", n, u)
    BY ONLY <2>3, <2>4, <2>5
  <2>7. Runtime!object("ARRAY", n, u) = Runtime!object("ARRAY", n, [i \in 1 .. n |-> Runtime!zero])
    BY ONLY u = [i \in 1 .. n |-> Runtime!zero], Zenon
  <2>8. a.words = v
    BY ONLY <2>3
  <2> QED BY ONLY <2>6, <2>7, <2>8
<1>11. refs_of(v) = {}
  <2>1. DOMAIN v = 1 .. n /\ \A i \in DOMAIN v : v[i] = z
    BY ONLY <1>9
  <2>2. z[1] # "ref"
    OBVIOUS
  <2> QED BY <2>1, <2>2 DEF refs_of
<1>12. Runtime!result(f, seen_graph, as, a)
  BY <1>4, <1>10 DEF Runtime!result
<1>13. \A i \in fields(o) : o.words[i] \in references(DOMAIN mem)
  <2>1. BOX(0) \in references(DOMAIN mem)
    BY PlainWords
  <2> QED BY <1>5, <1>6, <1>7, <2>1
<1> QED BY <1>1, <1>3, <1>6, <1>10, <1>11, <1>12, <1>13, ObjectReturned

LEMMA MembersShown ==
  ASSUME Observed, Requested, Barray_return \/ Bsexp_return \/ Bclosure_return PROVE ShownStep
<1>1. CASE Barray_return \/ Bsexp_return
  <2> PICK n : n = req.len OBVIOUS
  <2> PICK c : c = members(n) OBVIOUS
  <2> PICK pops : pops = << >> OBVIOUS
  <2> PICK as : as = Runtime!args(seen_by_program, n) OBVIOUS
  <2>1. PICK f, o : /\ leave(f, o, n, pops)
                    /\ \/ f = "Barray" /\ o = new_object(c)
                       \/ f = "Bsexp" /\ o = new_object(<<raw_word>> \o c)
    BY <1>1 DEF Barray_return, Bsexp_return
  <2>2. called({f}) => ready(n, pops)
    BY <2>1, Ready DEF Observed
  <2>3. f \notin {"set_args", "set_args_bstring"}
    BY <2>1
  <2>4. back(f, o, n, pops, as)
    BY <2>1, <2>2, <2>3, Returning
  <2>5. called({f})
    BY <2>4 DEF back
  <2>6. \/ f = "Barray" /\ req.type = "ARRAY" /\ o = new_object(c)
        \/ f = "Bsexp" /\ req.type = "SEXP" /\ o = new_object(<<raw_word>> \o c)
    BY <2>1, <2>5 DEF Requested
  <2> QED BY <2>1, <2>4, <2>6, MembersReturned
<1>2. CASE Bclosure_return
  <2> PICK f : f = "Bclosure" OBVIOUS
  <2> PICK n : n = req.len - 1 OBVIOUS
  <2> PICK c : c = members(n) OBVIOUS
  <2> PICK o : o = new_object(<<raw_word>> \o c) OBVIOUS
  <2> PICK pops : pops = captured_cells_popped(n) OBVIOUS
  <2> PICK as : as = Runtime!args(seen_by_program, n) OBVIOUS
  <2>1. leave(f, o, n, pops)
    BY <1>2 DEF Bclosure_return
  <2>2. called({f}) => ready(n, pops)
    BY Ready DEF Observed
  <2>3. back(f, o, n, pops, as)
    BY <2>1, <2>2, Returning
  <2>4. called({"Bclosure"}) /\ n \in Nat /\ req.len \in Nat
    BY <2>3 DEF back
  <2>5. req.type = "CLOSURE"
    BY <2>4 DEF Requested
  <2>6. req.len = n + 1
    BY ONLY <2>4, n = req.len - 1
  <2> QED BY <2>1, <2>3, <2>5, <2>6, MembersReturned
<1> QED BY <1>1, <1>2

LEMMA MakeStringShown ==
  ASSUME Observed, Requested, LmakeString_return PROVE ShownStep
<1> PICK f : f = "LmakeString" OBVIOUS
<1> PICK n : n = req.len OBVIOUS
<1> PICK c : c = [i \in 1 .. n |-> 0] OBVIOUS
<1> PICK o : o = new_object(c) OBVIOUS
<1> PICK pops : pops = << >> OBVIOUS
<1> PICK as : as = Runtime!args(seen_by_program, 1) OBVIOUS
<1> PICK w : w = [i \in 1 .. n |-> Runtime!word(0)] OBVIOUS
<1>1. leave(f, o, 1, pops)
  BY DEF LmakeString_return
<1>2. called({f}) => ready(1, pops)
  BY Ready DEF Observed
<1>3. back(f, o, 1, pops, as)
  BY <1>1, <1>2, Returning
<1>4. n \in Nat /\ req.type = "STRING" /\ Runtime!int(as, 1) = n /\ Len(as) = 1
  <2>1. /\ called({"LmakeString"}) /\ n \in Nat /\ Len(as) = 1 /\ seen_arg(as, 1)
    BY <1>3 DEF back
  <2>2. req.type = "STRING" /\ integer_shown(shown_arg(1), n)
    BY <2>1 DEF Requested
  <2> QED BY <2>1, <2>2, IntegerArgument
<1>5. characters(c) = w
  <2>1. DOMAIN c = 1 .. n /\ \A i \in 1 .. n : c[i] = 0
    BY ONLY c = [i \in 1 .. n |-> 0]
  <2>2. Runtime!word(0) = <<"word", 0>>
    BY DEF Runtime!word
  <2>3. characters(c) = [i \in DOMAIN c |-> <<"word", c[i]>>]
    BY DEF characters
  <2> QED BY ONLY <2>1, <2>2, <2>3, w = [i \in 1 .. n |-> Runtime!word(0)]
<1>6. Runtime!result(f, seen_graph, as, Runtime!string(w))
  BY <1>4 DEF Runtime!result
<1> QED BY <1>1, <1>3, <1>4, <1>5, <1>6, StringReturned

LEMMA CloneStringShown ==
  ASSUME Observed, Requested, Lclone_string_return PROVE ShownStep
<1> PICK f : f = "Lclone_string" OBVIOUS
<1> PICK p : p = locals.Bstring_p OBVIOUS
<1> PICK n : n = req.len OBVIOUS
<1> PICK s : s = object_at(p).words OBVIOUS
<1> PICK c : c = strncpy(s, n) OBVIOUS
<1> PICK o : o = new_object(c) OBVIOUS
<1> PICK pops : pops = <<buffer, arg_cell(1)>> OBVIOUS
<1> PICK as : as = Runtime!args(seen_by_program, 1) OBVIOUS
<1> PICK d : d = Runtime!obj(seen_graph, as, 1) OBVIOUS
<1> PICK w : w = characters(s) OBVIOUS
<1>1. leave(f, o, 1, pops)
  BY DEF Lclone_string_return, buffer
<1>2. called({f}) => ready(1, pops)
  BY Ready DEF Observed
<1>3. back(f, o, 1, pops, as)
  BY <1>1, <1>2, Returning
<1>4. /\ called({"Lclone_string"}) /\ n \in Nat /\ Len(as) = 1 /\ seen_arg(as, 1)
      /\ Idle /\ RootsShown /\ shows(shown_arg(1), arg(1))
  BY <1>3 DEF back
<1>5. /\ req.type = "STRING" /\ string_shown(shown_arg(1)) /\ shown_cell(3) = shown_arg(1)
      /\ n = text_of(shown_arg(1))
  BY <1>4 DEF Requested
<1>6. shows(shown_arg(1), p)
  <2>1. extra = <<sysargs, arg_cell(1), buffer>>
    BY <1>4 DEF Observed, Frames, CallPool, called, arg_and_buffer
  <2>2. cell_word(extra[3]) = p /\ 3 \in 1 .. Len(extra)
    BY <2>1 DEF cell_word, buffer, local_cell
  <2> QED BY <1>4, <1>5, <2>2 DEF RootsShown
<1>7. s \in Seq(Nat) /\ d.words = w
  BY <1>4, <1>5, <1>6, StringArgument
<1>8. n = Runtime!text_length(w) /\ n <= Len(s) /\ Len(s) \in Nat /\ n = Len(c_text(s))
  <2>1. Runtime!text_length(w) = Len(c_text(s)) /\ Len(c_text(s)) <= Len(s) /\ Len(s) \in Nat
    BY <1>7, Characters
  <2>2. n = text_length(w)
    <3>1. shown_object(shown_arg(1)) = d
      BY <1>4, <1>5 DEF seen_arg, string_shown, Runtime!obj
    <3> QED BY <1>5, <1>7, <3>1 DEF text_of
  <2>3. Len(c_text(s)) = text_length(w)
    <3> PICK m : m = Len(s) OBVIOUS
    <3>1. DOMAIN w = 1 .. m /\ \A i \in 1 .. m : w[i] = <<"word", s[i]>>
      BY <1>7, Characters
    <3> QED BY ONLY <1>7, <3>1, m = Len(s), TextShown
  <2> QED BY <2>1, <2>2, <2>3
<1>9. characters(c) = SubSeq(w, 1, n)
  <2> PICK t : t = SubSeq(s, 1, n) OBVIOUS
  <2>1. /\ characters(t) = SubSeq(w, 0 + 1, n) /\ t \in Seq(Nat) /\ Len(t) = n - 0
        /\ \A i \in 1 .. n - 0 : t[i] = s[0 + i]
    <3> PICK z : z = 0 OBVIOUS
    <3> PICK k : k = n OBVIOUS
    <3>1. t = from_to(s, z, n) /\ z \in Nat /\ n \in Nat /\ inside(s, z, n, k) /\ s \in Seq(Nat)
      BY <1>4, <1>7, <1>8 DEF from_to, inside
    <3>2. /\ characters(t) = from_to(characters(s), z, n) /\ t \in Seq(Nat) /\ Len(t) = k
          /\ \A i \in 1 .. k : t[i] = s[z + i]
      BY ONLY <3>1, SubCharacters
    <3> QED BY <3>1, <3>2 DEF from_to
  <2>2. c = [i \in 1 .. n |-> IF i <= n THEN s[i] ELSE 0]
    BY <1>8 DEF strncpy
  <2>3. c = t
    <3>1. c = [i \in 1 .. n |-> c[i]] /\ \A i \in 1 .. n : c[i] = s[i] /\ s[i] \in Nat
      BY <1>4, <1>7, <1>8, <2>2
    <3>2. c \in Seq(Nat) /\ Len(c) = n
      BY ONLY <1>4, <3>1, FunctionIsSeq
    <3>3. Len(t) = n /\ \A i \in 1 .. n : c[i] = t[i]
      BY ONLY <1>4, <2>1, <3>1
    <3> QED BY ONLY <1>4, <2>1, <3>2, <3>3, SeqEqual
  <2> QED BY <2>1, <2>3
<1>10. Runtime!result(f, seen_graph, as, Runtime!string(SubSeq(w, 1, n)))
  BY <1>4, <1>7, <1>8 DEF Runtime!result
<1> QED BY <1>1, <1>3, <1>5, <1>9, <1>10, StringReturned

LEMMA ConcatShown ==
  ASSUME Observed, Requested, Li__Infix_4343_return PROVE ShownStep
<1> PICK f : f = "Li__Infix_4343" OBVIOUS
<1> PICK x, y : x = object_at(arg(1)) /\ y = object_at(arg(2)) OBVIOUS
<1> PICK a, b : a = strncpy(x.words, x.len) /\ b = strncpy(y.words, y.len) OBVIOUS
<1> PICK c : c = a \o b OBVIOUS
<1> PICK o : o = new_object(c) OBVIOUS
<1> PICK pops : pops = <<arg_cell(2), arg_cell(1)>> OBVIOUS
<1> PICK as : as = Runtime!args(seen_by_program, 2) OBVIOUS
<1> PICK d : d = Runtime!obj(seen_graph, as, 1) OBVIOUS
<1> PICK e : e = Runtime!obj(seen_graph, as, 2) OBVIOUS
<1>1. leave(f, o, 2, pops)
  BY DEF Li__Infix_4343_return, pops_of_4343
<1>2. called({f}) => ready(2, pops)
  BY Ready DEF Observed
<1>3. back(f, o, 2, pops, as)
  BY <1>1, <1>2, Returning
<1>4. /\ called({"Li__Infix_4343"}) /\ Len(as) = 2 /\ seen_arg(as, 1) /\ seen_arg(as, 2)
      /\ Idle /\ shows(shown_arg(1), arg(1)) /\ shows(shown_arg(2), arg(2))
  BY <1>3 DEF back
<1>5. req.type = "STRING" /\ string_shown(shown_arg(1)) /\ string_shown(shown_arg(2))
  BY <1>4 DEF Requested
<1>6. x.words \in Seq(Nat) /\ x.len \in Nat /\ d.words = characters(x.words) /\ d.len = x.len
  BY <1>4, <1>5, StringArgument
<1>7. y.words \in Seq(Nat) /\ y.len \in Nat /\ e.words = characters(y.words) /\ e.len = y.len
  BY <1>4, <1>5, StringArgument
<1>8. characters(a) = Runtime!zero_padded(d.words, d.len) /\ a \in Seq(Nat)
  <2> PICK t, l, w : t = x.words /\ l = x.len /\ w = d.words OBVIOUS
  <2>1. t \in Seq(Nat) /\ l \in Nat /\ a = strncpy(t, l) /\ w = characters(t)
    BY <1>6
  <2>2. characters(a) = Runtime!zero_padded(w, l) /\ a \in Seq(Nat)
    BY ONLY <2>1, Padded
  <2> QED BY <1>6, <2>2
<1>9. characters(b) = Runtime!zero_padded(e.words, e.len) /\ b \in Seq(Nat)
  <2> PICK t, l, w : t = y.words /\ l = y.len /\ w = e.words OBVIOUS
  <2>1. t \in Seq(Nat) /\ l \in Nat /\ b = strncpy(t, l) /\ w = characters(t)
    BY <1>7
  <2>2. characters(b) = Runtime!zero_padded(w, l) /\ b \in Seq(Nat)
    BY ONLY <2>1, Padded
  <2> QED BY <1>7, <2>2
<1>10. characters(c) = Runtime!zero_padded(d.words, d.len) \o Runtime!zero_padded(e.words, e.len)
  <2>1. a \in Seq(Nat) /\ b \in Seq(Nat) /\ c = a \o b
    BY <1>8, <1>9
  <2>2. characters(c) = characters(a) \o characters(b)
    BY ONLY <2>1, JoinedCharacters
  <2> QED BY <1>8, <1>9, <2>2
<1>11. Runtime!result(f, seen_graph, as, Runtime!string(characters(c)))
  BY <1>4, <1>10 DEF Runtime!result
<1> QED BY <1>1, <1>3, <1>5, <1>11, StringReturned

LEMMA SubstringShown ==
  ASSUME Observed, Requested, Lsubstring_return PROVE ShownStep
<1> PICK f : f = "Lsubstring" OBVIOUS
<1> PICK x : x = object_at(arg(1)) OBVIOUS
<1> PICK pp : pp = UNBOX(arg(2)) OBVIOUS
<1> PICK n : n = req.len OBVIOUS
<1> PICK s : s = SubSeq(x.words, pp + 1, x.len) OBVIOUS
<1> PICK c : c = strncpy(s, n) OBVIOUS
<1> PICK o : o = new_object(c) OBVIOUS
<1> PICK pops : pops = <<arg_cell(1)>> OBVIOUS
<1> PICK as : as = Runtime!args(seen_by_program, 3) OBVIOUS
<1> PICK d : d = Runtime!obj(seen_graph, as, 1) OBVIOUS
<1>1. leave(f, o, 3, pops)
  BY DEF Lsubstring_return, substring
<1>2. called({f}) => ready(3, pops)
  BY Ready DEF Observed
<1>3. back(f, o, 3, pops, as)
  BY <1>1, <1>2, Returning
<1>4. /\ called({"Lsubstring"}) /\ n \in Nat /\ Len(as) = 3
      /\ seen_arg(as, 1) /\ seen_arg(as, 2) /\ seen_arg(as, 3)
      /\ Idle /\ shows(shown_arg(1), arg(1)) /\ shows(shown_arg(2), arg(2))
  BY <1>3 DEF back
<1>5. /\ req.type = "STRING" /\ string_shown(shown_arg(1)) /\ integer_shown(shown_arg(3), n)
      /\ \E k \in 0 .. shown_object(shown_arg(1)).len :
           /\ integer_shown(shown_arg(2), k)
           /\ k + n <= shown_object(shown_arg(1)).len
  BY <1>4 DEF Requested
<1>6. /\ x.words \in Seq(Nat) /\ x.len \in Nat /\ Len(x.words) = x.len
      /\ x.len = shown_object(shown_arg(1)).len
      /\ d.words = characters(x.words) /\ d.len = x.len
  BY <1>4, <1>5, StringArgument
<1>7. PICK k \in 0 .. x.len : integer_shown(shown_arg(2), k)
  BY <1>5, <1>6
<1>8. k \in Nat /\ pp = k /\ Runtime!int(as, 2) = k /\ Runtime!int(as, 3) = n
  <2>1. arg(2) = BOX(k) /\ k \in Nat
    BY <1>4, <1>6, <1>7 DEF shows
  <2>2. pp = k
    BY <2>1 DEF UNBOX, BOX
  <2> QED BY <1>4, <1>5, <1>7, <2>1, <2>2, IntegerArgument
<1>9. characters(s) = SubSeq(d.words, k + 1, d.len) /\ s \in Seq(Nat)
  <2> PICK t : t = x.words OBVIOUS
  <2> PICK l : l = x.len OBVIOUS
  <2>1. t \in Seq(Nat) /\ l \in Nat /\ Len(t) = l /\ d.words = characters(t) /\ d.len = l
    BY <1>6
  <2>2. k \in Nat /\ k <= l /\ l <= Len(t)
    BY ONLY <1>7, <2>1, l = x.len
  <2>3. s = from_to(t, k, l)
    BY <1>8 DEF from_to
  <2> PICK m : m = l - k OBVIOUS
  <2>4. inside(t, k, l, m)
    BY <2>2 DEF inside
  <2>5. characters(s) = from_to(characters(t), k, l) /\ s \in Seq(Nat)
    BY ONLY <2>1, <2>2, <2>3, <2>4, SubCharacters
  <2> QED BY <2>1, <2>5 DEF from_to
<1>10. characters(c) = Runtime!zero_padded(SubSeq(d.words, k + 1, d.len), n)
  <2> PICK w : w = SubSeq(d.words, k + 1, d.len) OBVIOUS
  <2>1. s \in Seq(Nat) /\ n \in Nat /\ c = strncpy(s, n) /\ w = characters(s)
    BY <1>4, <1>9
  <2>2. characters(c) = Runtime!zero_padded(w, n)
    BY ONLY <2>1, Padded
  <2> QED BY <2>2
<1>11. Runtime!result(f, seen_graph, as, Runtime!string(characters(c)))
  BY <1>4, <1>8, <1>10 DEF Runtime!result
<1> QED BY <1>1, <1>3, <1>5, <1>11, StringReturned

LEMMA CloneShown ==
  ASSUME Observed, Requested, Lclone_return PROVE ShownStep
<1> PICK f : f = "Lclone" OBVIOUS
<1> PICK p : p = arg(1) OBVIOUS
<1> PICK q : q = object_at(p) OBVIOUS
<1> PICK o : o = memcpy(p) OBVIOUS
<1> PICK pops : pops = <<arg_cell(1)>> OBVIOUS
<1> PICK as : as = Runtime!args(seen_by_program, 1) OBVIOUS
<1> PICK v : v = shown_arg(1) OBVIOUS
<1> PICK a : a = abs_object(o) OBVIOUS
<1>1. leave(f, o, 1, pops)
  BY DEF Lclone_return
<1>2. called({f}) => ready(1, pops)
  BY Ready DEF Observed
<1>3. back(f, o, 1, pops, as)
  BY <1>1, <1>2, Returning
<1>4. /\ called({"Lclone"}) /\ Len(as) = 1 /\ seen_arg(as, 1) /\ Idle /\ Seen /\ shows(v, p)
  BY <1>3 DEF back
<1>5. refers(v)
  BY <1>4 DEF Requested
<1>6. /\ shown_object(v) = abs_object(q) /\ is_object(p) /\ as[1] = v
      /\ v[2] \in DOMAIN seen_graph /\ seen_graph[v[2]] = abs_object(q)
  BY <1>4, <1>5 DEF shows, seen_arg, refers
<1>7. q \in Object /\ \A i \in fields(q) : q.words[i] \in references(DOMAIN mem)
  BY <1>4, <1>6 DEF Idle, objects, fields_in, object_at, is_object
<1>8. o.id = cur_id /\ o.type = q.type /\ o.len = q.len /\ o.words = q.words
  <2>1. o = [q EXCEPT !.id = cur_id]
    BY DEF memcpy
  <2> QED BY <1>7, <2>1 DEF Object
<1>9. fields(o) = fields(q) /\ a = abs_object(q)
  BY <1>8 DEF fields, abs_object, abs_words
<1>10. refs_of(a.words) \subseteq DOMAIN seen_graph
  BY <1>4, <1>6, <1>9 DEF Seen, whole, closed_graph
<1>11. Runtime!result(f, seen_graph, as, a)
  BY <1>4, <1>6, <1>9 DEF Runtime!result, Runtime!obj
<1>12. \A i \in fields(o) : o.words[i] \in references(DOMAIN mem)
  BY <1>7, <1>8, <1>9
<1> QED BY <1>1, <1>3, <1>8, <1>10, <1>11, <1>12, ObjectReturned

\* The text of a C buffer or of a file.
LEMMA TextReturned ==
  ASSUME Observed, Requested, NEW f \in the_buffer \cup {"Lstring", "Lstringcat", "Lfread"},
         NEW n, n = IF f \in {"Bstring", "LreadLine"} THEN 0 ELSE 1,
         NEW s, NEW pops, leave(f, new_object(s), n, pops), called({f}) => ready(n, pops)
  PROVE  ShownStep
<1> PICK o : o = new_object(s) OBVIOUS
<1> PICK as : as = Runtime!args(seen_by_program, n) OBVIOUS
<1>1. leave(f, o, n, pops)
  OBVIOUS
<1>2. back(f, o, n, pops, as)
  <2>1. f \notin {"set_args", "set_args_bstring"}
    BY DEF the_buffer
  <2> QED BY <1>1, <2>1, Returning
<1>3. called(the_buffer \cup {"Lstring", "Lstringcat", "Lfread"}) /\ Len(as) = n
  BY <1>2 DEF back, called
<1>4. req.type = "STRING"
  BY <1>3 DEF Requested
<1>5. f \in DOMAIN Runtime!printing /\ n = Runtime!printing[f]
  BY DEF the_buffer, Runtime!printing
<1> PICK w : w = Runtime!string(characters(s)) OBVIOUS
<1>6. Runtime!fresh_string(w) => Runtime!result(f, seen_graph, as, w)
  BY <1>3, <1>5 DEF Runtime!result
<1> QED BY <1>1, <1>2, <1>4, <1>6, StringReturned

LEMMA BufferShown ==
  ASSUME Observed, Requested,
         NEW f \in the_buffer \cup {"Lstring", "Lstringcat"}, NEW n, NEW pops,
         bstring_leave(f, n, pops),
         \/ f \in {"Bstring", "LreadLine"} /\ n = 0 /\ pops = << >>
         \/ f = "LgetEnv" /\ n = 1 /\ pops = << >>
         \/ f \in {"Lstring", "Lstringcat"} /\ n = 1 /\ pops = <<arg_cell(1)>>
  PROVE  ShownStep
<1> PICK all : all = <<buffer>> \o pops OBVIOUS
<1>1. PICK s : leave(f, new_object(s), n, all)
  BY DEF bstring_leave, buffer
<1>2. called({f}) => ready(n, all)
  <2>1. all = IF f \in {"Lstring", "Lstringcat"} THEN <<buffer, arg_cell(1)>> ELSE <<buffer>>
    BY Concatenated
  <2> QED BY <2>1, Ready DEF the_buffer, Observed
<1>3. n = IF f \in {"Bstring", "LreadLine"} THEN 0 ELSE 1
  OBVIOUS
<1>4. f \in the_buffer \cup {"Lstring", "Lstringcat", "Lfread"}
  OBVIOUS
<1> QED BY <1>1, <1>2, <1>3, <1>4, TextReturned

LEMMA BuffersShown ==
  ASSUME Observed, Requested,
         \/ Bstring_return \/ LgetEnv_return \/ LreadLine_return
         \/ Lstring_return \/ Lstringcat_return
  PROVE  ShownStep
<1>1. CASE Bstring_return
  BY <1>1, BufferShown DEF Bstring_return, the_buffer
<1>2. CASE LgetEnv_return
  BY <1>2, BufferShown DEF LgetEnv_return, the_buffer
<1>3. CASE LreadLine_return
  BY <1>3, BufferShown DEF LreadLine_return, the_buffer
<1>4. CASE Lstring_return
  BY <1>4, BufferShown DEF Lstring_return
<1>5. CASE Lstringcat_return
  BY <1>5, BufferShown DEF Lstringcat_return
<1> QED BY <1>1, <1>2, <1>3, <1>4, <1>5

\* A return that fails stops the program.
LEMMA LeaveStops ==
  ASSUME Leave, pc' = "failed" PROVE \E f, why : stop(f, why)
<1>1. ASSUME NEW f, NEW o, NEW pops, NEW s, NEW ls, leave_with(f, o, pops, s, ls)
      PROVE  \E g, why : stop(g, why)
  <2>1. ~place_object(o)
    BY DEF place_object
  <2>2. CASE pops_match(pops)
    BY <1>1, <2>1, <2>2 DEF leave_with
  <2>3. CASE ~pops_match(pops)
    BY <1>1, <2>3, Zenon DEF leave_with
  <2> QED BY <2>2, <2>3
<1>2. ASSUME NEW f, NEW o, NEW n, NEW pops, leave(f, o, n, pops) PROVE \E g, why : stop(g, why)
  BY <1>1, <1>2, Zenon DEF leave
<1>3. ASSUME NEW f, NEW n, NEW pops, bstring_leave(f, n, pops) PROVE \E g, why : stop(g, why)
  BY <1>2, <1>3, Zenon DEF bstring_leave
<1>4. Bclosure_overflow => \E g, why : stop(g, why)
  BY Zenon DEF Bclosure_overflow
<1>5. Lfread_return => \E g, why : stop(g, why)
  BY <1>2, Zenon DEF Lfread_return
<1> QED BY <1>2, <1>3, <1>4, <1>5, Zenon DEF Leave, LmakeArray_return, Barray_return, Bsexp_return,
     Bclosure_return, Ls__Infix_58_return, Lclone_return, Lclone_string_return,
     LmakeString_return, Li__Infix_4343_return, Lsubstring_return, Bstring_return,
     LgetEnv_return, LreadLine_return, Lstring_return, Lstringcat_return, Lsprintf_return

\* A step of Leave that does not fail is the return of a function.
LEMMA LeaveShown ==
  ASSUME Observed, Requested, Leave PROVE ShownStep
<1>1. gc_idle
  BY DEF Observed
<1>2. CASE Ls__Infix_58_return \/ Lsprintf_return
  <2>0. \/ pc \in {"alloc", "retry"} /\ req.op = "Ls__Infix_58"
        \/ pc \in {"alloc", "retry"} /\ req.op = "Lsprintf"
    BY <1>2, Zenon DEF Ls__Infix_58_return, Lsprintf_return, bstring_leave, leave, leave_with
  <2>1. PICK f \in {"Ls__Infix_58", "Lsprintf"} : pc \in {"alloc", "retry"} /\ req.op = f
    BY <2>0
  <2>2. called({f})
    BY <2>1, WasCalled DEF Observed
  <2> QED BY <2>2 DEF Requested, called
<1>3. CASE Bclosure_overflow
  <2>1. PICK f, why : stop(f, why)
    BY <1>3, Zenon DEF Bclosure_overflow
  <2> QED BY <1>1, <2>1, StopShown
<1>4. CASE Lfread_return
  <2>1. CASE stop("Lfread", "failure")
    BY <1>1, <2>1, StopShown
  <2>2. CASE \E s \in Strings : Len(s) = req.len /\ leave("Lfread", new_object(s), 1, << >>)
    <3> PICK f : f = "Lfread" OBVIOUS
    <3> PICK pops : pops = << >> OBVIOUS
    <3> PICK n : n = 1 OBVIOUS
    <3>1. PICK s : leave(f, new_object(s), n, pops)
      BY <2>2
    <3>2. called({f}) => ready(n, pops)
      BY Ready DEF Observed
    <3>3. /\ f \in the_buffer \cup {"Lstring", "Lstringcat", "Lfread"}
          /\ n = IF f \in {"Bstring", "LreadLine"} THEN 0 ELSE 1
      OBVIOUS
    <3> QED BY <3>1, <3>2, <3>3, TextReturned
  <2> QED BY <1>4, <2>1, <2>2 DEF Lfread_return
<1>5. CASE \/ Bstring_return \/ LgetEnv_return \/ LreadLine_return
           \/ Lstring_return \/ Lstringcat_return
  BY <1>5, BuffersShown
<1>6. CASE LmakeArray_return
  BY <1>6, ArrayShown
<1>7. CASE Barray_return \/ Bsexp_return \/ Bclosure_return
  BY <1>7, MembersShown
<1>8. CASE Lclone_return
  BY <1>8, CloneShown
<1>9. CASE Lclone_string_return
  BY <1>9, CloneStringShown
<1>10. CASE LmakeString_return
  BY <1>10, MakeStringShown
<1>11. CASE Li__Infix_4343_return
  BY <1>11, ConcatShown
<1>12. CASE Lsubstring_return
  BY <1>12, SubstringShown
<1> QED BY <1>2, <1>3, <1>4, <1>5, <1>6, <1>7, <1>8, <1>9, <1>10, <1>11, <1>12 DEF Leave

LEMMA LeaveGoes ==
  ASSUME Leave PROVE pc \in {"alloc", "retry"} /\ (pc' = "failed" \/ pc' = "run")
<1>1. ASSUME NEW f, NEW why, stop(f, why) PROVE pc' = "failed"
  BY <1>1 DEF stop, failure
<1>2. ASSUME NEW f, NEW o, NEW n, NEW pops, leave(f, o, n, pops)
      PROVE  pc \in {"alloc", "retry"} /\ (pc' = "failed" \/ pc' = "run")
  <2>1. pc \in {"alloc", "retry"} /\ (place_object(o) \/ stop(f, "pool mismatch"))
    BY <1>2, Zenon DEF leave, leave_with
  <2>2. place_object(o) => pc' = "run"
    BY DEF place_object
  <2> QED BY <1>1, <2>1, <2>2, Zenon
<1>3. ASSUME NEW f, NEW n, NEW pops, bstring_leave(f, n, pops)
      PROVE  pc \in {"alloc", "retry"} /\ (pc' = "failed" \/ pc' = "run")
  BY <1>2, <1>3, Zenon DEF bstring_leave
<1>4. Bclosure_overflow => pc \in {"alloc", "retry"} /\ pc' = "failed"
  BY <1>1, Zenon DEF Bclosure_overflow
<1>5. Lfread_return => pc \in {"alloc", "retry"} /\ (pc' = "failed" \/ pc' = "run")
  BY <1>1, <1>2, Zenon DEF Lfread_return
<1> QED BY <1>2, <1>3, <1>4, <1>5, Zenon DEF Leave, LmakeArray_return, Barray_return, Bsexp_return,
     Bclosure_return, Ls__Infix_58_return, Lclone_return, Lclone_string_return,
     LmakeString_return, Li__Infix_4343_return, Lsubstring_return, Bstring_return,
     LgetEnv_return, LreadLine_return, Lstring_return, Lstringcat_return, Lsprintf_return

LEMMA LeaveStepShown ==
  ASSUME Frames, HeapInv, Frames', HeapInv', Requested, Leave PROVE ShownStep
<1>1. pc \in {"alloc", "retry"} /\ (pc' = "failed" \/ pc' = "run")
  BY LeaveGoes
<1>2. gc_idle
  BY <1>1 DEF gc_idle
<1>3. CASE pc' = "failed"
  <2>1. PICK f, why : stop(f, why)
    BY <1>3, LeaveStops
  <2> QED BY <1>2, <2>1, StopShown
<1>4. CASE pc' = "run"
  <2>1. Observed
    BY <1>1, <1>4 DEF Observed, gc_idle
  <2> QED BY <2>1, LeaveShown
<1> QED BY <1>1, <1>3, <1>4

-------------------------------------------------------------------------------
(* The array of the arguments of the program *)

\* Until the program runs it sees nothing.
Unseen == running # "program" => refs_of(seen_by_program) = {}

LEMMA StaysUnseen ==
  ASSUME Watched, Watched', Unseen, running # "program", running' # "program",
         UNCHANGED <<stack, statics>>,
         \A q \in references(live_objects) : abs_word(q)' = abs_word(q)
  PROVE  Unseen' /\ UNCHANGED <<seen_by_program, seen_graph>>
<1> PICK R : R = references(live_objects) OBVIOUS
<1>1. stack \in Seq(R) /\ statics \in Seq(R) /\ \A q \in R : abs_word(q)' = abs_word(q)
  BY DEF Watched, View, roots_in
<1>2. shown(statics)' = shown(statics) /\ shown(stack)' = shown(stack)
  <2>1. /\ \A j \in DOMAIN statics : abs_word(statics[j])' = abs_word(statics[j])
        /\ \A j \in DOMAIN stack : abs_word(stack[j])' = abs_word(stack[j])
    BY <1>1
  <2> QED BY <2>1 DEF shown
<1>3. first_seen' = first_seen
  BY DEF first_seen, sysargs_root
<1>4. seen_by_program = joined(<<first_seen>> \o shown(statics), shown(stack), << >>)
  BY DEF Watched, Seen
<1>5. seen_by_program' = joined(<<first_seen'>> \o shown(statics)', shown(stack)', << >>)
  BY DEF Watched, Seen
<1>6. seen_by_program' = seen_by_program
  BY <1>2, <1>3, <1>4, <1>5
<1>7. refs_of(seen_by_program) = {} /\ refs_of(seen_by_program') = {}
  BY <1>6 DEF Unseen
<1>8. whole(seen_by_program, seen_graph) /\ whole(seen_by_program', seen_graph')
  BY DEF Watched, Seen
<1>9. seen_graph = << >> /\ seen_graph' = << >>
  BY <1>7, <1>8, NothingReached
<1>10. Unseen'
  BY <1>7 DEF Unseen, refs_of
<1> QED BY <1>6, <1>9, <1>10

\* set_args has its array, and has neither failed nor finished.
looping == running = "set_args" /\ pc # "failed" /\ ~(in_call /\ req.op = "set_args")

\* The array at p, of n words, of which the first i are different strings and
\* the others still 0; and what its value v shows of it.
partly_filled(p, n, i) ==
  /\ is_object(p)
  /\ LET o == object_at(p) IN
       /\ o.type = "ARRAY" /\ o.len = n /\ Len(o.words) = n
       /\ \A j \in 1 .. i : is_string(o.words[j])
       /\ \A j, k \in 1 .. i : o.words[j] = o.words[k] => j = k
       /\ \A j \in i + 1 .. n : o.words[j] = BOX(0)
shown_filled(v, n, i) ==
  /\ refers(v)
  /\ LET o == shown_object(v) IN
       /\ o.type = "ARRAY" /\ o.len = n /\ DOMAIN o.words = 1 .. n
       /\ \A j \in 1 .. i : string_shown(o.words[j])
       /\ \A j, k \in 1 .. i : o.words[j] = o.words[k] => j = k
       /\ \A j \in i + 1 .. n : integer_shown(o.words[j], 0)

counters == /\ {"set_args_n", "set_args_i", "set_args_p"} \subseteq DOMAIN locals
            /\ locals.set_args_n \in Nat /\ locals.set_args_i \in 0 .. locals.set_args_n
            /\ in_call \/ "Bstring_s" \in DOMAIN locals => locals.set_args_i < locals.set_args_n
\* Bstring has returned another string.
next_string ==
  pc = "run" /\ "Bstring_s" \in DOMAIN locals =>
    /\ is_string(locals.Bstring_s)
    /\ \A j \in 1 .. locals.set_args_i : object_at(locals.set_args_p).words[j] # locals.Bstring_s

Filled == looping => /\ counters /\ next_string
                     /\ partly_filled(locals.set_args_p, locals.set_args_n, locals.set_args_i)
Filling == looping => /\ counters /\ next_string
                      /\ shown_filled(shown_cell(1), locals.set_args_n, locals.set_args_i)

LEMMA ArrayWords ==
  ASSUME Idle, gc_idle, NEW p, NEW v, shows(v, p), is_object(p), NEW o, o = object_at(p),
         o.type = "ARRAY", NEW s, s = abs_object(o).words
  PROVE  /\ o \in Object /\ o.words \in Seq(Nat) /\ DOMAIN s = 1 .. Len(o.words)
         /\ DOMAIN o.words = 1 .. Len(o.words)
         /\ \A j \in 1 .. Len(o.words) : shows(s[j], o.words[j])
<1> PICK a : a = TO_DATA(p) OBVIOUS
<1>1. a \in live_objects /\ a \in DOMAIN mem /\ o = mem[a] /\ View /\ gc_idle
  BY DEF shows, Idle, View, object_at
<1>2. o \in Object /\ o.words \in Seq(Nat) /\ DOMAIN o.words = 1 .. Len(o.words)
  BY <1>1, FieldsAreWords DEF Idle, objects
<1>3. fields(o) = 1 .. Len(o.words)
  BY DEF fields, first_field
<1>4. s = [j \in DOMAIN o.words |-> IF j \in fields(o) THEN abs_word(o.words[j]) ELSE <<"word", o.words[j]>>]
  BY DEF abs_object, abs_words
<1>5. \A j \in 1 .. Len(o.words) : o.words[j] \in references(live_objects)
  BY <1>1, <1>3 DEF View, fields_in
<1>6. DOMAIN s = 1 .. Len(o.words) /\ \A j \in 1 .. Len(o.words) : s[j] = abs_word(o.words[j])
  BY <1>2, <1>3, <1>4
<1> QED BY <1>1, <1>2, <1>5, <1>6, Shows

LEMMA SameReference ==
  ASSUME Idle, NEW v, NEW p, NEW q, shows(v, p), shows(v, q), is_object(p) PROVE p = q
<1>1. is_object(q) /\ refers(v) /\ p \in Nat /\ q \in Nat
  BY DEF shows
<1>2. v = <<"ref", object_at(p).id>> /\ v = <<"ref", object_at(q).id>>
  <2>1. v = abs_word(p) /\ v = abs_word(q) /\ v[1] = "ref"
    BY <1>1 DEF shows, refers
  <2> QED BY <2>1 DEF abs_word
<1>3. mem[TO_DATA(p)].id = mem[TO_DATA(q)].id
  BY <1>2 DEF object_at
<1>4. TO_DATA(p) = TO_DATA(q)
  BY <1>1, <1>3 DEF Idle, View, distinct, is_object
<1> QED BY ONLY <1>1, <1>4 DEF TO_DATA, DATA_HEADER_SZ

LEMMA FilledShown ==
  ASSUME Idle, gc_idle, NEW p, NEW v, shows(v, p), NEW n \in Nat, NEW i \in 0 .. n
  PROVE  shown_filled(v, n, i) <=> partly_filled(p, n, i)
<1> PICK o : o = object_at(p) OBVIOUS
<1> PICK s : s = abs_object(o).words OBVIOUS
<1>1. refers(v) <=> is_object(p)
  BY DEF shows
<1> SUFFICES ASSUME is_object(p) PROVE shown_filled(v, n, i) <=> partly_filled(p, n, i)
  BY <1>1 DEF shown_filled, partly_filled
<1>2. refers(v) /\ shown_object(v) = abs_object(o) /\ abs_object(o) = [type |-> o.type, len |-> o.len, words |-> s]
  BY DEF shows, abs_object
<1>3. shown_object(v).type = o.type /\ shown_object(v).len = o.len /\ shown_object(v).words = s
  BY <1>2
<1> SUFFICES ASSUME o.type = "ARRAY" PROVE shown_filled(v, n, i) <=> partly_filled(p, n, i)
  BY <1>3 DEF shown_filled, partly_filled
<1>4. /\ o.words \in Seq(Nat) /\ DOMAIN s = 1 .. Len(o.words)
      /\ \A j \in 1 .. Len(o.words) : shows(s[j], o.words[j])
  BY ArrayWords
<1>5. Len(o.words) = n <=> DOMAIN s = 1 .. n
  <2> PICK m \in Nat : m = Len(o.words)
    BY <1>4
  <2>1. (1 .. m = 1 .. n) <=> m = n
    <3>1. ASSUME 1 .. m = 1 .. n PROVE m = n
      <4>1. m \in 1 .. m \/ m = 0
        BY ONLY m \in Nat
      <4>2. n \in 1 .. n \/ n = 0
        BY ONLY n \in Nat
      <4>3. m <= n /\ n <= m
        BY ONLY <3>1, <4>1, <4>2, m \in Nat, n \in Nat
      <4> QED BY ONLY <4>3, m \in Nat, n \in Nat
    <3> QED BY <3>1
  <2> QED BY <1>4, <2>1
<1> SUFFICES ASSUME Len(o.words) = n PROVE shown_filled(v, n, i) <=> partly_filled(p, n, i)
  BY <1>3, <1>5 DEF shown_filled, partly_filled
<1>6. \A j \in 1 .. n : shows(s[j], o.words[j])
  BY <1>4
<1>7. ASSUME NEW j \in 1 .. n
      PROVE  /\ string_shown(s[j]) <=> is_string(o.words[j])
             /\ integer_shown(s[j], 0) <=> o.words[j] = BOX(0)
  <2> PICK q : q = o.words[j] OBVIOUS
  <2>1. shows(s[j], q)
    BY <1>6
  <2>2. string_shown(s[j]) <=> is_string(q)
    <3>1. refers(s[j]) <=> is_object(q)
      BY <2>1 DEF shows
    <3>2. is_object(q) => shown_object(s[j]).type = object_at(q).type
      BY <2>1 DEF shows, abs_object
    <3> QED BY <3>1, <3>2 DEF string_shown, is_string
  <2>3. integer_shown(s[j], 0) => q = BOX(0)
    BY <2>1 DEF shows
  <2>4. q = BOX(0) => integer_shown(s[j], 0)
    <3>1. UNBOXED(BOX(0))
      BY DEF UNBOXED, BOX
    <3>2. q = BOX(0) => ~is_object(q)
      BY <2>1, <3>1 DEF shows
    <3> QED BY <2>1, <3>2 DEF shows, integer_shown
  <2> QED BY <2>2, <2>3, <2>4
<1>8. ASSUME NEW j \in 1 .. n, NEW k \in 1 .. n, is_string(o.words[j]), is_string(o.words[k])
      PROVE  s[j] = s[k] <=> o.words[j] = o.words[k]
  <2>1. shows(s[j], o.words[j]) /\ shows(s[k], o.words[k]) /\ is_object(o.words[j])
    BY <1>6, <1>8 DEF is_string
  <2>2. s[j] = s[k] => o.words[j] = o.words[k]
    BY <2>1, SameReference
  <2>3. o.words[j] = o.words[k] => s[j] = s[k]
    BY <2>1 DEF shows
  <2> QED BY <2>2, <2>3
<1>9. 1 .. i \subseteq 1 .. n /\ i + 1 .. n \subseteq 1 .. n
  OBVIOUS
<1>10. (\A j \in 1 .. i : string_shown(s[j])) <=> \A j \in 1 .. i : is_string(o.words[j])
  BY <1>7, <1>9
<1>11. (\A j \in i + 1 .. n : integer_shown(s[j], 0)) <=> \A j \in i + 1 .. n : o.words[j] = BOX(0)
  BY <1>7, <1>9
<1>12. (\A j \in 1 .. i : is_string(o.words[j])) =>
         ((\A j, k \in 1 .. i : s[j] = s[k] => j = k) <=>
          (\A j, k \in 1 .. i : o.words[j] = o.words[k] => j = k))
  BY <1>8, <1>9
<1> QED BY <1>2, <1>3, <1>4, <1>10, <1>11, <1>12 DEF shown_filled, partly_filled

\* In the loop the first cell of the pool is that of the array.
LEMMA LoopShown ==
  Frames /\ HeapInv /\ gc_idle /\ looping => Idle /\ shows(shown_cell(1), locals.set_args_p)
<1> SUFFICES ASSUME Frames, HeapInv, gc_idle, looping
             PROVE  Idle /\ shows(shown_cell(1), locals.set_args_p)
  OBVIOUS
<1>1. Idle /\ RootsShown
  BY IdleHeap, IdleShown
<1>2. extra = <<set_args_cell>> \/ extra = <<set_args_cell, buffer>>
  BY DEF looping, in_call, Frames, Pool, SetArgsPool
<1>3. 1 \in 1 .. Len(extra) /\ extra[1] = <<"local", "set_args_p">>
  BY <1>2 DEF set_args_cell, local_cell
<1> QED BY <1>1, <1>3 DEF RootsShown, cell_word

LEMMA FillingIsFilled == Frames /\ HeapInv /\ gc_idle => (Filling <=> Filled)
<1> SUFFICES ASSUME Frames, HeapInv, gc_idle, looping, counters
             PROVE  shown_filled(shown_cell(1), locals.set_args_n, locals.set_args_i)
                      <=> partly_filled(locals.set_args_p, locals.set_args_n, locals.set_args_i)
  BY Zenon DEF Filling, Filled
<1>1. Idle /\ shows(shown_cell(1), locals.set_args_p)
  BY LoopShown
<1> QED BY <1>1, FilledShown DEF counters

\* The collector writes to registered variables only.
LEMMA CountersKept ==
  ASSUME PoolLoop, CollectStep, extra = <<set_args_cell, buffer>>,
         {"set_args_n", "set_args_i"} \subseteq DOMAIN locals
  PROVE  locals'.set_args_n = locals.set_args_n /\ locals'.set_args_i = locals.set_args_i
<1>1. CASE locals' = locals
  BY <1>1
<1>2. CASE fix_extra_root
  <2>1. /\ pc = "fix_extra_roots" /\ gc.idx <= Len(extra)
        /\ \/ locals' = locals
           \/ extra[gc.idx][1] # "stack" /\ \E w : locals' = [locals EXCEPT ![extra[gc.idx][2]] = w]
    BY <1>2 DEF fix_extra_root
  <2>2. gc.idx \in {1, 2}
    <3>1. Len(extra) = 2
      OBVIOUS
    <3>2. gc.idx \in Nat /\ gc.idx >= 1 /\ gc.idx <= 2
      BY <2>1, <3>1 DEF PoolLoop
    <3> QED BY ONLY <3>2
  <2>3. extra[1][2] = "set_args_p" /\ extra[2][2] = "Bstring_p"
    BY DEF set_args_cell, buffer, local_cell
  <2>4. ASSUME NEW x, NEW w, x \notin {"set_args_n", "set_args_i"}, locals' = [locals EXCEPT ![x] = w]
        PROVE  locals'.set_args_n = locals.set_args_n /\ locals'.set_args_i = locals.set_args_i
    BY <2>4
  <2> QED BY <2>1, <2>2, <2>3, <2>4
<1> QED BY <1>1, <1>2, RootsFixed

LEMMA CollectorFills ==
  ASSUME Frames, HeapInv, Frames', HeapInv', Filling, CollectStep, UNCHANGED <<running, exit>>
  PROVE  Filling'
<1>1. /\ pc \notin {"run", "failed"} /\ pc' \notin {"run", "failed"} /\ in_call /\ in_call'
      /\ req' = req /\ DOMAIN statics' = DOMAIN statics /\ DOMAIN locals' = DOMAIN locals
  BY CollectorKeeps DEF marking, compacting, in_call
<1> SUFFICES ASSUME looping'
             PROVE  /\ counters' /\ next_string'
                    /\ shown_filled(shown_cell(1), locals.set_args_n, locals.set_args_i)'
  BY DEF Filling
<1>2. looping /\ extra = <<set_args_cell, buffer>>
  BY <1>1 DEF looping, Frames, SetArgsPool
<1>3. counters /\ shown_filled(shown_cell(1), locals.set_args_n, locals.set_args_i)
  BY <1>2 DEF Filling
<1>4. locals'.set_args_n = locals.set_args_n /\ locals'.set_args_i = locals.set_args_i
  BY <1>2, <1>3, CountersKept DEF counters, Frames
<1>5. counters'
  BY <1>1, <1>3, <1>4 DEF counters
<1>6. next_string'
  BY <1>1 DEF next_string
<1>7. Len(stack') = Len(stack)
  BY CollectorFrame DEF Frames
<1>8. Len(statics') = Len(statics)
  <2>1. statics \in Seq(Word) /\ statics' \in Seq(Word)
    BY DEF HeapInv, Soundness, Typed, ClientTypeOK, Word
  <2> QED BY <1>1, <2>1, SameLength
<1>9. UNCHANGED <<shown_roots, shown_graph>>
  BY CollectorShows DEF HeapInv
<1>10. /\ shown_cell(1)' = shown_cell(1)
       /\ \A v : refers(v)' = refers(v) /\ shown_object(v)' = shown_object(v)
       /\ \A v : string_shown(v)' = string_shown(v)
  BY <1>7, <1>8, <1>9 DEF shown_cell, refers, shown_object, string_shown
<1>11. shown_filled(shown_cell(1), locals.set_args_n, locals.set_args_i)'
  BY <1>3, <1>4, <1>10 DEF shown_filled, integer_shown
<1> QED BY <1>5, <1>6, <1>11

\* What a step of set_args has to show.
Prepared == Filling' /\ Unseen' /\ ShownStep

LEMMA NowFilled == ASSUME Frames', HeapInv', gc_idle', Filled' PROVE Filling'
<1>1. (Frames /\ HeapInv /\ gc_idle => (Filling <=> Filled))'
  BY FillingIsFilled, PTL
<1> QED BY <1>1

LEMMA NowEnded == ASSUME pc' = "failed" PROVE Filling'
BY DEF Filling, looping

LEMMA SetArgsStopped ==
  ASSUME gc_idle, Unseen, NEW f, NEW why, stop(f, why) PROVE Prepared
<1>1. UNCHANGED <<seen_by_program, seen_graph>> /\ pc' = "failed" /\ running' = running
  BY StopSeen DEF stop, failure
<1>2. Unseen'
  BY <1>1 DEF Unseen, refs_of
<1> QED BY <1>1, <1>2, NowEnded, StopShown DEF Prepared

\* Steps of set_args between calls and its own returns do not show.
LEMMA SetArgsHidden ==
  ASSUME Observed, Unseen, Filling', running # "program", running' # "program",
         UNCHANGED <<stack, statics>>, req' = req \/ UNCHANGED <<heap, mem>>,
         \A q \in references(live_objects) : abs_word(q)' = abs_word(q)
  PROVE  Prepared
<1>1. Watched /\ Watched'
  BY Observing
<1>2. Unseen' /\ UNCHANGED <<seen_by_program, seen_graph>>
  BY <1>1, StaysUnseen
<1>3. SysargsKept
  BY DEF SysargsKept
<1>4. CASE req' = req
  BY <1>2, <1>4 DEF Prepared, ShownStep
<1>5. CASE UNCHANGED <<heap, mem>>
  BY <1>1, <1>2, <1>3, <1>5, CallShown DEF Prepared, ShownStep
<1> QED BY <1>4, <1>5

LEMMA SetArgsStarts ==
  ASSUME Frames, HeapInv, Frames', HeapInv', Unseen, set_args PROVE Prepared
<1>1. PICK argc \in Argc :
        /\ pc = "run" /\ running = "start" /\ request("set_args", "ARRAY", argc)
        /\ running' = "set_args" /\ UNCHANGED <<stack, statics, locals, extra, exit>>
  BY DEF set_args
<1>2. UNCHANGED <<heap, mem>> /\ pc' = "alloc" /\ req'.op = "set_args"
  BY <1>1 DEF request
<1>3. Observed
  BY <1>1, <1>2 DEF Observed, gc_idle
<1>4. Filling'
  BY <1>2 DEF Filling, looping, in_call
<1>5. \A q : abs_word(q)' = abs_word(q)
  BY <1>2, StableValues
<1> QED BY <1>1, <1>2, <1>3, <1>4, <1>5, SetArgsHidden

LEMMA SetArgsArrayFills ==
  ASSUME Frames, HeapInv, Frames', HeapInv', Handing, Unseen, set_args_array PROVE Prepared
<1> PICK p : p = new_address OBVIOUS
<1> PICK n : n = req.len OBVIOUS
<1> PICK c : c = [i \in 1 .. n |-> BOX(0)] OBVIOUS
<1> PICK o : o = new_object(c) OBVIOUS
<1> PICK at : at = heap.current OBVIOUS
<1>1. /\ req.op = "set_args" /\ place_object(o) /\ pc \in {"alloc", "retry"} /\ pc' = "run"
      /\ locals' = [set_args_n |-> n, set_args_i |-> 0, set_args_p |-> p]
      /\ UNCHANGED <<stack, statics, req, running>>
  BY DEF set_args_array, allocated, place_object
<1>2. running = "set_args" /\ req.type = "ARRAY"
  BY <1>1, SetArgsCalled DEF Handing
<1>3. Observed /\ Idle
  BY <1>1, IdleHeap DEF Observed, gc_idle
<1>4. Watched /\ Watched'
  BY <1>3, Observing
<1>5. placed(o, at, p)
  BY <1>1 DEF placed, place_object, new_object
<1>6. /\ mem'[at] = o /\ at \in DOMAIN mem' /\ TO_DATA(p) = at
      /\ \A q \in references(DOMAIN mem) : abs_word(q)' = abs_word(q)
  <2>1. View /\ View'
    BY <1>4 DEF Watched
  <2>2. /\ DOMAIN mem' = DOMAIN mem \cup {at} /\ mem'[at] = o /\ TO_DATA(p) = at
        /\ \A q \in references(DOMAIN mem) : abs_word(q)' = abs_word(q)
    BY ONLY <1>5, <2>1, NewValues
  <2> QED BY <2>2
<1>7. \A q \in references(live_objects) : abs_word(q)' = abs_word(q)
  BY <1>4, <1>6 DEF Watched, View, references
<1>8. n \in Nat /\ 0 \in 0 .. n
  BY <1>3 DEF Idle, ClientTypeOK
<1>9. o.type = "ARRAY" /\ o.len = n /\ o.words = c /\ Len(c) = n
  BY <1>2, <1>8 DEF new_object
<1>10. /\ {"set_args_n", "set_args_i", "set_args_p"} \subseteq DOMAIN locals'
       /\ locals'.set_args_n = n /\ locals'.set_args_i = 0 /\ locals'.set_args_p = p
       /\ "Bstring_s" \notin DOMAIN locals'
  BY <1>1
<1>11. counters' /\ next_string'
  BY <1>1, <1>8, <1>10 DEF counters, next_string, in_call
<1>12. partly_filled(p, n, 0)'
  <2>1. is_object(p)' /\ object_at(p)' = o
    BY <1>6 DEF is_object, object_at
  <2>2. \A j \in 0 + 1 .. n : o.words[j] = BOX(0)
    <3>1. 0 + 1 .. n = 1 .. n
      BY <1>8
    <3>2. \A j \in 1 .. n : c[j] = BOX(0)
      OBVIOUS
    <3> QED BY <1>9, <3>1, <3>2
  <2>3. 1 .. 0 = {}
    OBVIOUS
  <2> QED BY <1>9, <2>1, <2>2, <2>3 DEF partly_filled
<1>13. Filled'
  BY <1>10, <1>11, <1>12 DEF Filled
<1>14. Filling'
  BY <1>3, <1>13, NowFilled DEF Observed
<1> QED BY <1>1, <1>2, <1>3, <1>7, <1>14, SetArgsHidden

LEMMA SetArgsBstringFills ==
  ASSUME Frames, HeapInv, Frames', HeapInv', Filling, Unseen, set_args_bstring PROVE Prepared
<1> PICK ls : ls = [x \in {"Bstring_p"} |-> foreign_addr] OBVIOUS
<1> PICK f : f = "set_args_bstring" OBVIOUS
<1> PICK p : p = locals.set_args_p OBVIOUS
<1> PICK n : n = locals.set_args_n OBVIOUS
<1> PICK i : i = locals.set_args_i OBVIOUS
<1>1. PICK s \in Strings : bstring(f, s, << >>, << >>)
  BY DEF set_args_bstring
<1> PICK len : len = Len(s) OBVIOUS
<1> PICK cells : cells = << >> \o <<local_cell("Bstring_p")>> OBVIOUS
<1>2. /\ pc = "run" /\ running = "set_args" /\ "Bstring_s" \notin DOMAIN locals /\ i < n
      /\ gc_idle /\ looping
  BY DEF set_args_bstring, in_loop, returned, gc_idle, looping, in_call
<1>3. enter(f, "STRING", len, cells, ls)
  <2>1. [x \in DOMAIN << >> \cup {"Bstring_p"} |-> IF x = "Bstring_p" THEN foreign_addr ELSE << >>[x]] = ls
    <3>1. DOMAIN << >> \cup {"Bstring_p"} = {"Bstring_p"}
      OBVIOUS
    <3> QED BY <3>1
  <2> QED BY <1>1, <2>1 DEF bstring
<1>4. CASE stop(f, "pool overflow")
  <2>1. PICK g, why : stop(g, why)
    BY <1>4, Zenon
  <2> QED BY ONLY <1>2, <2>1, Unseen, SetArgsStopped
<1>5. CASE /\ request(f, "STRING", len) /\ locals' = with_locals(ls)
           /\ UNCHANGED <<stack, statics, running>>
  <2>1. UNCHANGED <<heap, mem>> /\ pc' = "alloc" /\ req'.op = f
    BY <1>5 DEF request
  <2>2. Observed
    BY <1>2, <2>1 DEF Observed, gc_idle
  <2>3. Filled
    BY <1>2, FillingIsFilled
  <2>4. counters /\ partly_filled(p, n, i)
    BY <1>2, <2>3 DEF Filled
  <2>5. /\ locals'.set_args_p = p /\ locals'.set_args_n = n /\ locals'.set_args_i = i
        /\ {"set_args_n", "set_args_i", "set_args_p"} \subseteq DOMAIN locals'
    <3>1. \A x \in {"set_args_n", "set_args_i", "set_args_p"} :
            x \in DOMAIN locals' /\ locals'[x] = locals[x]
      BY <1>5, <2>4 DEF counters, with_locals
    <3> QED BY <3>1
  <2>6. counters' /\ next_string'
    BY <1>2, <2>1, <2>4, <2>5 DEF counters, next_string
  <2>7. partly_filled(p, n, i)'
    BY <2>1, <2>4 DEF partly_filled, is_object, is_string, object_at
  <2>8. Filled'
    BY <2>5, <2>6, <2>7 DEF Filled
  <2>9. Filling'
    BY <2>2, <2>8, NowFilled DEF Observed
  <2>10. \A q : abs_word(q)' = abs_word(q)
    BY <2>1, StableValues
  <2> QED BY <1>2, <1>5, <2>1, <2>2, <2>9, <2>10, SetArgsHidden
<1>6. CASE pool_overflow(cells)
  BY <1>3, <1>4, <1>6, Zenon DEF enter
<1>7. CASE ~pool_overflow(cells)
  BY <1>3, <1>5, <1>7, Zenon DEF enter
<1> QED BY <1>6, <1>7

LEMMA SetArgsReturnFills ==
  ASSUME Frames, HeapInv, Frames', HeapInv', Handing, Filling, Unseen, set_args_bstring_return
  PROVE  Prepared
<1> PICK f : f = "set_args_bstring" OBVIOUS
<1> PICK r : r = new_address OBVIOUS
<1> PICK at : at = heap.current OBVIOUS
<1> PICK ls : ls = [x \in (DOMAIN locals \ {"Bstring_p"}) \cup {"Bstring_s"} |->
                      IF x = "Bstring_s" THEN r ELSE locals[x]]
  OBVIOUS
<1> PICK pops : pops = <<local_cell("Bstring_p")>> OBVIOUS
<1> PICK p : p = locals.set_args_p OBVIOUS
<1> PICK n : n = locals.set_args_n OBVIOUS
<1> PICK i : i = locals.set_args_i OBVIOUS
<1>1. PICK s : leave_with(f, new_object(s), pops, stack, ls)
  BY DEF set_args_bstring_return
<1> PICK o : o = new_object(s) OBVIOUS
<1>2. /\ pc \in {"alloc", "retry"} /\ req.op = f /\ in_call /\ running = "set_args"
      /\ gc_idle /\ req.type = "STRING" /\ looping
  <2>1. pc \in {"alloc", "retry"} /\ req.op = f
    BY DEF set_args_bstring_return
  <2> QED BY <2>1, SetArgsCalled DEF Handing, gc_idle, looping
<1>3. CASE stop(f, "pool mismatch")
  <2>1. PICK g, why : stop(g, why)
    BY <1>3, Zenon
  <2> QED BY ONLY <1>2, <2>1, Unseen, SetArgsStopped
<1>4. CASE place_object(o) /\ stack' = stack /\ locals' = ls /\ UNCHANGED <<statics, req, running>>
  <2>1. pc' = "run" /\ Observed /\ Idle
    BY <1>2, <1>4, IdleHeap DEF Observed, place_object, gc_idle
  <2>2. Watched /\ Watched'
    BY <2>1, Observing
  <2>3. placed(o, at, r)
    BY <1>4 DEF placed, place_object, new_object
  <2>4. /\ DOMAIN mem' = DOMAIN mem \cup {at} /\ mem'[at] = o /\ TO_DATA(r) = at
        /\ at \notin DOMAIN mem /\ \A a \in DOMAIN mem : mem'[a] = mem[a]
        /\ \A q \in references(DOMAIN mem) : abs_word(q)' = abs_word(q)
    <3>1. View /\ View'
      BY <2>2 DEF Watched
    <3>2. /\ DOMAIN mem' = DOMAIN mem \cup {at} /\ mem'[at] = o /\ TO_DATA(r) = at
          /\ at \notin DOMAIN mem /\ \A a \in DOMAIN mem : mem'[a] = mem[a]
          /\ \A q \in references(DOMAIN mem) : abs_word(q)' = abs_word(q)
      BY ONLY <2>3, <3>1, NewValues
    <3> QED BY <3>2
  <2>5. \A q \in references(live_objects) : abs_word(q)' = abs_word(q)
    BY <2>2, <2>4 DEF Watched, View, references
  <2>6. counters /\ partly_filled(p, n, i)
    BY <1>2, FillingIsFilled DEF Filled
  <2>7. /\ {"set_args_n", "set_args_i", "set_args_p"} \subseteq DOMAIN locals'
        /\ locals'.set_args_n = n /\ locals'.set_args_i = i /\ locals'.set_args_p = p
        /\ "Bstring_s" \in DOMAIN locals' /\ locals'.Bstring_s = r
    BY <1>4, <2>6 DEF counters
  <2>8. counters'
    BY <1>2, <2>6, <2>7 DEF counters
  <2>9. \A q : is_object(q) => is_object(q)' /\ object_at(q)' = object_at(q) /\ q # r
    BY <2>4 DEF is_object, object_at
  <2>10. partly_filled(p, n, i)'
    BY <2>6, <2>9 DEF partly_filled, is_string
  <2>11. next_string'
    <3>1. is_string(r)'
      BY <1>2, <2>4 DEF is_string, is_object, object_at, new_object
    <3>2. object_at(p)' = object_at(p) /\ \A j \in 1 .. i : object_at(p).words[j] # r
      BY <2>6, <2>9 DEF partly_filled, is_string
    <3>3. \A j \in 1 .. i : object_at(p)'.words[j] # r
      BY <3>2
    <3> QED BY <2>7, <3>1, <3>3 DEF next_string
  <2>12. Filled'
    BY <2>7, <2>8, <2>10, <2>11 DEF Filled
  <2>13. Filling'
    BY <2>1, <2>12, NowFilled DEF Observed
  <2> QED BY <1>2, <1>4, <2>1, <2>5, <2>13, SetArgsHidden
<1>5. CASE pops_match(pops)
  BY <1>1, <1>4, <1>5, Zenon DEF leave_with
<1>6. CASE ~pops_match(pops)
  BY <1>1, <1>3, <1>6, Zenon DEF leave_with
<1> QED BY <1>5, <1>6

LEMMA SetArgsStoreFills ==
  ASSUME Frames, HeapInv, Frames', HeapInv', Filling, Unseen, set_args_store PROVE Prepared
<1> PICK p : p = locals.set_args_p OBVIOUS
<1> PICK a : a = TO_DATA(p) OBVIOUS
<1> PICK n : n = locals.set_args_n OBVIOUS
<1> PICK i : i = locals.set_args_i OBVIOUS
<1> PICK k : k = i + 1 OBVIOUS
<1> PICK v : v = locals.Bstring_s OBVIOUS
<1> PICK o : o = mem[a] OBVIOUS
<1> PICK u : u = mem'[a] OBVIOUS
<1>1. /\ pc = "run" /\ running = "set_args" /\ "Bstring_s" \in DOMAIN locals
      /\ mem' = [mem EXCEPT ![a].words[k] = v]
      /\ locals' = [x \in DOMAIN locals \ {"Bstring_s"} |->
                      IF x = "set_args_i" THEN locals[x] + 1 ELSE locals[x]]
      /\ UNCHANGED <<heap, stack, statics, pc, req, running>>
  BY DEF set_args_store, in_loop, returned
<1>2. Observed /\ Idle /\ looping /\ ~in_call
  BY <1>1, IdleHeap DEF Observed, gc_idle, looping, in_call
<1>3. counters /\ next_string /\ partly_filled(p, n, i)
  BY <1>2, FillingIsFilled DEF Filled, Observed
<1>4. n \in Nat /\ i \in 0 .. n /\ i < n /\ k \in 1 .. n /\ i \in Nat /\ k \in 0 .. n
  <2>1. n \in Nat /\ i \in 0 .. n /\ i < n
    BY <1>1, <1>3 DEF counters
  <2> QED BY ONLY <2>1, k = i + 1
<1>5. /\ a \in DOMAIN mem /\ o.type = "ARRAY" /\ o.len = n /\ Len(o.words) = n /\ object_at(p) = o
      /\ \A j \in 1 .. i : is_string(o.words[j])
      /\ \A j, m \in 1 .. i : o.words[j] = o.words[m] => j = m
      /\ \A j \in k .. n : o.words[j] = BOX(0)
  BY <1>3 DEF partly_filled, is_object, object_at
<1>6. is_string(v) /\ \A j \in 1 .. i : o.words[j] # v
  BY <1>1, <1>3, <1>5 DEF next_string
<1>7. o \in Object /\ o.words \in Seq(Nat) /\ DOMAIN o.words = 1 .. n
  BY <1>2, <1>5, FieldsAreWords DEF Idle, objects
<1>8. /\ DOMAIN mem' = DOMAIN mem /\ u = [o EXCEPT !.words = [o.words EXCEPT ![k] = v]]
      /\ \A b \in DOMAIN mem : b # a => mem'[b] = mem[b]
  BY <1>1, <1>5, <1>7 DEF Object
<1>9. /\ u.type = "ARRAY" /\ u.len = n /\ u.id = o.id /\ u.words = [o.words EXCEPT ![k] = v]
  BY ONLY <1>5, <1>7, <1>8 DEF Object
<1>10. /\ Len(u.words) = n /\ u.words[k] = v
       /\ \A j \in 1 .. n : j # k => u.words[j] = o.words[j]
  BY <1>4, <1>5, <1>7, <1>9
<1>11. \A b \in DOMAIN mem : mem'[b].id = mem[b].id
  BY <1>8, <1>9
<1>12. \A q : is_string(q) => is_string(q)'
  <2>1. \A q : is_string(q) => TO_DATA(q) \in DOMAIN mem /\ TO_DATA(q) # a
    BY <1>5 DEF is_string, is_object, object_at
  <2> QED BY <1>8, <2>1 DEF is_string, is_object, object_at
<1>13. /\ {"set_args_n", "set_args_i", "set_args_p"} \subseteq DOMAIN locals'
       /\ locals'.set_args_n = n /\ locals'.set_args_i = k /\ locals'.set_args_p = p
       /\ "Bstring_s" \notin DOMAIN locals'
  BY <1>1, <1>3 DEF counters
<1>14. counters' /\ next_string'
  BY <1>1, <1>2, <1>4, <1>13 DEF counters, next_string, in_call
<1>15. partly_filled(p, n, k)'
  <2>1. is_object(p)' /\ object_at(p)' = u
    BY <1>5, <1>8 DEF is_object, object_at
  <2>2. \A j \in 1 .. k : j = k \/ (j \in 1 .. i /\ j \in 1 .. n /\ j # k)
    BY ONLY <1>4, k = i + 1
  <2>3. \A j \in 1 .. k : is_string(u.words[j])'
    <3> SUFFICES ASSUME NEW j \in 1 .. k PROVE is_string(u.words[j])'
      OBVIOUS
    <3>1. CASE j = k
      BY <1>6, <1>10, <1>12, <3>1
    <3>2. CASE j # k
      <4>1. u.words[j] = o.words[j] /\ is_string(o.words[j])
        BY <1>5, <1>10, <2>2, <3>2
      <4> QED BY <1>12, <4>1
    <3> QED BY <3>1, <3>2
  <2>4. \A j, m \in 1 .. k : u.words[j] = u.words[m] => j = m
    BY <1>5, <1>6, <1>10, <2>2
  <2>5. \A j \in k + 1 .. n : u.words[j] = BOX(0)
    <3>1. \A j \in k + 1 .. n : j \in k .. n /\ j \in 1 .. n /\ j # k
      BY ONLY <1>4
    <3> QED BY <1>5, <1>10, <3>1
  <2>6. \A j \in 1 .. k : is_string(object_at(p).words[j])'
    <3>1. mem'[a] = u
      OBVIOUS
    <3> QED BY <2>3, <3>1 DEF is_string, is_object, object_at
  <2>7. (/\ object_at(p).type = "ARRAY" /\ object_at(p).len = n /\ Len(object_at(p).words) = n
         /\ \A j, m \in 1 .. k : object_at(p).words[j] = object_at(p).words[m] => j = m
         /\ \A j \in k + 1 .. n : object_at(p).words[j] = BOX(0))'
    <3>1. object_at(p)' = u
      BY <2>1
    <3> QED BY ONLY <1>9, <1>10, <2>4, <2>5, <3>1 DEF object_at
  <2>8. is_object(p)'
    BY <2>1
  <2> QED BY ONLY <2>6, <2>7, <2>8 DEF partly_filled, is_string, is_object, object_at
<1>16. Filled'
  BY <1>13, <1>14, <1>15 DEF Filled
<1>17. Filling'
  BY <1>2, <1>16, NowFilled DEF Observed
<1>18. \A q : abs_word(q)' = abs_word(q)
  BY <1>1, <1>8, <1>11, StableValues
<1> QED BY <1>1, <1>2, <1>17, <1>18, SetArgsHidden

LEMMA Different ==
  ASSUME NEW n \in Nat, NEW f, \A j, k \in 1 .. n : f[j] = f[k] => j = k,
         NEW E, E = {f[j] : j \in 1 .. n}
  PROVE  IsFiniteSet(E) /\ Cardinality(E) = n
<1> PICK F : F = [j \in 1 .. n |-> f[j]] OBVIOUS
<1> PICK I : I = 1 .. n OBVIOUS
<1>1. F \in [I -> E] /\ (\A j, k \in I : F[j] = F[k] => j = k) /\ \A e \in E : \E j \in I : F[j] = e
  OBVIOUS
<1>2. F \in Bijection(I, E)
  BY ONLY <1>1 DEF Bijection, Injection, Surjection, IsInjective
<1>3. ExistsBijection(I, E)
  BY ONLY <1>2 DEF ExistsBijection
<1>4. IsFiniteSet(I) /\ Cardinality(I) = n
  <2>1. 1 \in Int /\ n \in Int /\ (IF 1 > n THEN 0 ELSE n - 1 + 1) = n
    BY ONLY n \in Nat
  <2>2. IsFiniteSet(1 .. n) /\ Cardinality(1 .. n) = IF 1 > n THEN 0 ELSE n - 1 + 1
    BY ONLY <2>1, FS_Interval
  <2> QED BY <2>1, <2>2
<1> QED BY ONLY <1>3, <1>4, FS_Bijection

\* Behind the first root everything is as it was.
LEMMA SameBehind ==
  ASSUME NEW V, NEW s \in Seq(V), NEW t \in Seq(V), NEW A, Len(A) \in Nat, NEW B, Len(B) \in Nat,
         NEW e, NEW f, laid(s, e, A, B), laid(t, f, A, B)
  PROVE  /\ Tail(t) = Tail(s) /\ s[1] = e /\ t[1] = f
         /\ \A i \in DOMAIN t : i = 1 \/ (i \in DOMAIN s /\ t[i] = s[i])
         /\ 1 \in DOMAIN t
<1> PICK x \in Nat, y \in Nat : x = Len(A) /\ y = Len(B) OBVIOUS
<1> PICK l : l = 1 + x + y OBVIOUS
<1>1. l \in Nat /\ Len(s) = l /\ Len(t) = l /\ l >= 1 /\ DOMAIN s = 1 .. l /\ DOMAIN t = 1 .. l
  <2>1. Len(s) = 1 + x + y /\ Len(t) = 1 + x + y
    BY DEF laid
  <2>2. l \in Nat /\ l >= 1
    BY ONLY x \in Nat, y \in Nat, l = 1 + x + y
  <2> QED BY <2>1, <2>2
<1>2. /\ \A i \in 1 .. x : s[1 + i] = A[i] /\ t[1 + i] = A[i]
      /\ \A i \in 1 .. y : s[1 + x + i] = B[i] /\ t[1 + x + i] = B[i]
      /\ s[1] = e /\ t[1] = f
  BY DEF laid
<1>3. ASSUME NEW i \in 2 .. l PROVE t[i] = s[i]
  <2>1. CASE i <= 1 + x
    <3> PICK k : k = i - 1 OBVIOUS
    <3>1. k \in 1 .. x /\ 1 + k = i
      BY ONLY <1>1, <2>1, x \in Nat, k = i - 1, i \in 2 .. l
    <3> QED BY ONLY <1>2, <3>1
  <2>2. CASE ~(i <= 1 + x)
    <3> PICK k : k = i - 1 - x OBVIOUS
    <3>1. k \in 1 .. y /\ 1 + x + k = i
      BY ONLY <2>2, x \in Nat, y \in Nat, l = 1 + x + y, k = i - 1 - x, i \in 2 .. l
    <3> QED BY ONLY <1>2, <3>1
  <2> QED BY <2>1, <2>2
<1>4. ASSUME NEW i \in DOMAIN t PROVE i = 1 \/ (i \in DOMAIN s /\ t[i] = s[i])
  <2>1. i = 1 \/ i \in 2 .. l
    BY ONLY <1>1, i \in DOMAIN t
  <2> QED BY <1>1, <1>3, <2>1
<1>5. Tail(t) = Tail(s)
  <2> PICK a, b : a = Tail(s) /\ b = Tail(t) OBVIOUS
  <2>1. s # << >> /\ t # << >>
    BY <1>1
  <2>2. /\ a \in Seq(V) /\ Len(a) = Len(s) - 1 /\ \A i \in 1 .. Len(a) : a[i] = s[i + 1]
    BY <2>1, HeadTailProperties
  <2>3. /\ b \in Seq(V) /\ Len(b) = Len(t) - 1 /\ \A i \in 1 .. Len(b) : b[i] = t[i + 1]
    BY <2>1, HeadTailProperties
  <2>4. Len(a) = Len(b) /\ \A i \in 1 .. Len(a) : i + 1 \in 2 .. l
    BY ONLY <1>1, <2>2, <2>3
  <2>5. \A i \in 1 .. Len(a) : a[i] = b[i]
    BY <1>3, <2>2, <2>3, <2>4
  <2> QED BY ONLY <2>2, <2>3, <2>4, <2>5, SeqEqual
<1> QED BY <1>1, <1>2, <1>4, <1>5

\* What the program sees of an object.
LEMMA ShownNow ==
  ASSUME View', Seen', UNCHANGED <<heap, mem>>, NEW h, h = seen_graph', NEW e \in DOMAIN h,
         NEW b \in DOMAIN mem, mem[b].id = e
  PROVE  h[e] = abs_object(mem[b])
<1>1. e \in DOMAIN now_graph' /\ h[e] = now_graph'[e]
  BY DEF Seen
<1>2. PICK c \in live_objects' : mem'[c].id = e /\ c \in DOMAIN mem'
  BY <1>1, ViewMoved
<1>3. c = b
  BY <1>2, ViewMoved
<1>4. now_graph'[e] = abs_object(mem[b])'
  BY <1>2, <1>3, ViewMoved
<1>5. \A p : abs_word(p)' = abs_word(p)
  BY StableValues
<1>6. abs_object(mem[b])' = abs_object(mem[b])
  BY <1>5 DEF abs_object, abs_words, fields
<1> QED BY <1>1, <1>4, <1>6

\* A root that refers to an object, before roots that refer to none.
LEMMA OneReference ==
  ASSUME NEW rs, NEW ts, NEW d, ts[1] = <<"ref", d>>, 1 \in DOMAIN ts, refs_of(rs) = {},
         \A i \in DOMAIN ts : i = 1 \/ (i \in DOMAIN rs /\ ts[i] = rs[i])
  PROVE  refs_of(ts) = {d}
<1>1. d \in refs_of(ts)
  BY DEF refs_of
<1>2. ASSUME NEW e \in refs_of(ts) PROVE e = d
  <2>1. PICK i \in DOMAIN ts : ts[i][1] = "ref" /\ ts[i][2] = e
    BY DEF refs_of
  <2>2. ASSUME i # 1 PROVE FALSE
    <3>1. i \in DOMAIN rs /\ rs[i][1] = "ref"
      BY <2>1, <2>2
    <3> QED BY <3>1 DEF refs_of
  <2> QED BY <2>1, <2>2
<1> QED BY <1>1, <1>2

\* Object d of graph h has n members w, which are the different strings f.
strings_of(h, d, n, w, f) ==
  /\ DOMAIN w = 1 .. n /\ h[d].type = "ARRAY" /\ h[d].words = w
  /\ \A j \in 1 .. n : w[j] = <<"ref", f[j]>>
  /\ \A j, k \in 1 .. n : f[j] = f[k] => j = k
  /\ \A j \in 1 .. n : f[j] \in DOMAIN h => h[f[j]].type = "STRING" /\ refs_of(h[f[j]].words) = {}
strings_alone(h, d, n, w, f) ==
  /\ DOMAIN h = {d} \cup refs_of(w) /\ Cardinality(DOMAIN h) - 1 = n
  /\ \A e \in refs_of(w) : \E j \in 1 .. n : e = f[j]
seen_only(ts, d) == refs_of(ts) = {d}

LEMMA ArrayOfStrings ==
  ASSUME NEW ts, NEW h, whole(ts, h), NEW d, seen_only(ts, d), NEW n \in Nat, NEW w, NEW f,
         strings_of(h, d, n, w, f)
  PROVE  strings_alone(h, d, n, w, f)
<1> USE DEF strings_of, seen_only
<1> PICK E : E = {f[j] : j \in 1 .. n} OBVIOUS
<1> PICK D : D = {d} \cup E OBVIOUS
<1>1. refs_of(w) = E
  BY DEF refs_of
<1>2. d \in DOMAIN h /\ E \subseteq DOMAIN h
  BY <1>1 DEF whole, closed_graph
<1>3. d \notin E
  BY <1>2
<1>4. D = DOMAIN h
  <2>1. D \in SUBSET DOMAIN h /\ refs_of(ts) \subseteq D
    BY <1>2
  <2>2. refs_of(h[d].words) \subseteq D /\ \A e \in E : refs_of(h[e].words) \subseteq D
    <3>1. h[d].words = w
      OBVIOUS
    <3>2. ASSUME NEW j \in 1 .. n PROVE refs_of(h[f[j]].words) = {}
      BY <1>2
    <3> QED BY <1>1, <3>1, <3>2
  <2>3. \A e \in D : refs_of(h[e].words) \subseteq D
    BY <2>2
  <2> QED BY <2>1, <2>3 DEF whole
<1>5. IsFiniteSet(E) /\ Cardinality(E) = n
  <2>1. \A j, k \in 1 .. n : f[j] = f[k] => j = k
    OBVIOUS
  <2> QED BY ONLY <2>1, n \in Nat, E = {f[j] : j \in 1 .. n}, Different
<1>6. Cardinality(D) = n + 1
  BY ONLY <1>3, <1>5, FS_AddElement, D = {d} \cup E
<1> QED BY ONLY <1>1, <1>4, <1>6, n \in Nat, D = {d} \cup E, E = {f[j] : j \in 1 .. n} DEF strings_alone

\* set_args hands its array over to the program.
LEMMA ArrayHanded ==
  ASSUME Observed, Idle, Unseen, running = "set_args", running' = "program",
         UNCHANGED <<heap, mem, stack, statics, req>>,
         NEW n \in Nat, NEW p, partly_filled(p, n, n), NEW v, shows(v, p),
         locals'.global_sysargs = p
  PROVE  Runtime!RuntimeNext
<1> PICK rs, ts : rs = seen_by_program /\ ts = seen_by_program' OBVIOUS
<1> PICK g, h : g = seen_graph /\ h = seen_graph' OBVIOUS
<1> PICK o : o = object_at(p) OBVIOUS
<1> PICK d : d = o.id OBVIOUS
<1> PICK w : w = abs_object(o).words OBVIOUS
<1> PICK f : f = [j \in 1 .. n |-> object_at(o.words[j]).id] OBVIOUS
<1>1. Watched /\ Watched' /\ gc_idle
  BY Observing DEF Observed
<1>2. /\ is_object(p) /\ o.type = "ARRAY" /\ o.len = n /\ Len(o.words) = n
      /\ \A j \in 1 .. n : is_string(o.words[j])
      /\ \A j, k \in 1 .. n : o.words[j] = o.words[k] => j = k
  BY DEF partly_filled
<1>3. v = <<"ref", d>> /\ v = abs_word(p)
  <2>1. v = abs_word(p) /\ v[1] = "ref"
    BY <1>2 DEF shows, refers
  <2> QED BY <2>1 DEF abs_word
<1>4. \A q : abs_word(q)' = abs_word(q)
  BY StableValues
<1>5. first_seen = zero_value /\ first_seen' = <<"ref", d>>
  <2>1. first_seen = zero_value
    BY DEF first_seen, sysargs_root, zero_value
  <2>2. first_seen' = abs_word(p)'
    BY DEF first_seen, sysargs_root
  <2> QED BY <1>3, <1>4, <2>1, <2>2
<1>6. /\ Tail(ts) = Tail(rs) /\ rs[1] = zero_value /\ ts[1] = <<"ref", d>> /\ 1 \in DOMAIN ts
      /\ \A i \in DOMAIN ts : i = 1 \/ (i \in DOMAIN rs /\ ts[i] = rs[i])
  <2> PICK U1, U2 : U1 = seen_values /\ U2 = seen_values' OBVIOUS
  <2> PICK V : V = U1 \cup U2 OBVIOUS
  <2> PICK A, B : A = shown(statics) /\ B = shown(stack) OBVIOUS
  <2>1. shown(statics)' = A /\ shown(stack)' = B
    BY <1>4 DEF shown
  <2>2. rs \in Seq(U1) /\ laid(rs, first_seen, A, B) /\ A \in Seq(U1) /\ B \in Seq(U1)
    BY <1>1 DEF Watched, Seen
  <2>3. ts \in Seq(U2) /\ laid(ts, first_seen', A, B)
    BY <1>1, <2>1 DEF Watched, Seen, laid
  <2>4. U1 \subseteq V /\ U2 \subseteq V
    OBVIOUS
  <2>5. rs \in Seq(V) /\ ts \in Seq(V)
    BY ONLY <2>2, <2>3, <2>4, SeqGrows
  <2>6. Len(A) \in Nat /\ Len(B) \in Nat
    BY <2>2
  <2> PICK e1, e2 : e1 = first_seen /\ e2 = first_seen' OBVIOUS
  <2>7. laid(rs, e1, A, B) /\ laid(ts, e2, A, B)
    BY <2>2, <2>3
  <2>8. /\ Tail(ts) = Tail(rs) /\ rs[1] = e1 /\ ts[1] = e2
        /\ \A i \in DOMAIN ts : i = 1 \/ (i \in DOMAIN rs /\ ts[i] = rs[i])
        /\ 1 \in DOMAIN ts
    BY ONLY <2>5, <2>6, <2>7, SameBehind
  <2> QED BY <1>5, <2>8
<1>7. refs_of(rs) = {}
  BY DEF Unseen
<1>8. refs_of(ts) = {d}
  BY ONLY <1>6, <1>7, OneReference
<1>9. whole(ts, h) /\ View' /\ Seen'
  BY <1>1 DEF Watched, Seen
<1>10. d \in DOMAIN h /\ closed_graph(h)
  BY <1>8, <1>9 DEF whole
<1>11. TO_DATA(p) \in DOMAIN mem /\ mem[TO_DATA(p)] = o
  BY <1>2 DEF is_object, object_at
<1>12. h[d] = abs_object(o)
  BY <1>9, <1>10, <1>11, ShownNow
<1>13. /\ o \in Object /\ DOMAIN w = 1 .. n
       /\ \A j \in 1 .. n : shows(w[j], o.words[j])
  BY <1>1, <1>2, ArrayWords
<1>14. /\ h[d].type = "ARRAY" /\ h[d].len = n /\ h[d].words = w
       /\ h[d] = [type |-> "ARRAY", len |-> n, words |-> w]
  BY <1>2, <1>12 DEF abs_object
<1>15. \A j \in 1 .. n : w[j] = <<"ref", f[j]>>
  <2> SUFFICES ASSUME NEW j \in 1 .. n PROVE w[j] = <<"ref", f[j]>>
    OBVIOUS
  <2>1. is_object(o.words[j]) /\ shows(w[j], o.words[j])
    BY <1>2, <1>13 DEF is_string
  <2>2. w[j] = abs_word(o.words[j]) /\ w[j][1] = "ref"
    BY <2>1 DEF shows, refers
  <2> QED BY <2>2 DEF abs_word
<1>16. \A j, k \in 1 .. n : f[j] = f[k] => j = k
  <2> SUFFICES ASSUME NEW j \in 1 .. n, NEW k \in 1 .. n, f[j] = f[k] PROVE j = k
    OBVIOUS
  <2>1. w[j] = w[k]
    <3>1. w[j] = <<"ref", f[j]>> /\ w[k] = <<"ref", f[k]>>
      BY ONLY <1>15, j \in 1 .. n, k \in 1 .. n
    <3> QED BY ONLY <3>1, f[j] = f[k]
  <2>2. shows(w[j], o.words[j]) /\ shows(w[j], o.words[k]) /\ is_object(o.words[j])
    BY <1>2, <1>13, <2>1 DEF is_string
  <2>3. o.words[j] = o.words[k]
    BY <2>2, SameReference
  <2> QED BY <1>2, <2>3
<1>17. ASSUME NEW j \in 1 .. n, f[j] \in DOMAIN h
       PROVE  /\ h[f[j]].type = "STRING" /\ refs_of(h[f[j]].words) = {}
              /\ Runtime!fresh_string(h[f[j]])
  <2> PICK b : b = TO_DATA(o.words[j]) OBVIOUS
  <2> PICK s : s = mem[b] OBVIOUS
  <2>1. b \in DOMAIN mem /\ s.id = f[j] /\ s.type = "STRING"
    BY <1>2 DEF is_string, is_object, object_at
  <2>2. h[f[j]] = abs_object(s)
    BY <1>9, <1>17, <2>1, ShownNow
  <2>3. s \in Object /\ Len(s.words) = s.len
    BY <2>1 DEF Idle, objects
  <2> QED BY <2>1, <2>2, <2>3, StringMade
<1>18. strings_alone(h, d, n, w, f)
  <2>1. \A j \in 1 .. n : f[j] \in DOMAIN h =>
          h[f[j]].type = "STRING" /\ refs_of(h[f[j]].words) = {}
    BY <1>17
  <2>2. h[d].type = "ARRAY" /\ h[d].words = w /\ DOMAIN w = 1 .. n
    BY <1>13, <1>14
  <2>3. strings_of(h, d, n, w, f)
    BY ONLY <1>15, <1>16, <2>1, <2>2 DEF strings_of
  <2>4. whole(ts, h)
    BY <1>9
  <2>5. seen_only(ts, d)
    BY <1>8 DEF seen_only
  <2> QED BY ONLY <2>3, <2>4, <2>5, n \in Nat, ArrayOfStrings
<1>19. \A e \in DOMAIN h \ {d} : Runtime!fresh_string(h[e])
  BY <1>17, <1>18 DEF strings_alone
<1>20. Len(h[d].words) = h[d].len
  <2>1. w = [j \in 1 .. n |-> w[j]]
    <3>1. w = [j \in DOMAIN w |-> w[j]]
      BY DEF abs_object, abs_words
    <3> QED BY <1>13, <3>1
  <2>2. Len(w) = n
    BY <2>1
  <2> QED BY <1>14, <2>2
<1>21. h[d] = Runtime!object("ARRAY", Runtime!Cardinality(DOMAIN h) - 1, h[d].words)
  BY <1>14, <1>18 DEF strings_alone, Runtime!object, Runtime!Cardinality, Cardinality
<1>22. Runtime!refs(Runtime!range(h[d].words)) = refs_of(w)
  BY <1>14, RuntimeValues
<1>23. rs[1] = Runtime!zero
  BY <1>6 DEF zero_value, Runtime!zero, Runtime!word, Runtime!BOX, BOX
<1>24. Runtime!SetArgs(rs, g, ts, h)
  <2>1. ts[1][2] = d /\ ts[1][1] = "ref"
    BY <1>6
  <2>2. DOMAIN h = {d} \cup refs_of(w)
    BY <1>18 DEF strings_alone
  <2> QED BY <1>6, <1>19, <1>20, <1>21, <1>22, <1>23, <2>1, <2>2 DEF Runtime!SetArgs
<1> QED BY <1>24 DEF Runtime!RuntimeNext

LEMMA SetArgsDoneShown ==
  ASSUME Frames, HeapInv, Frames', HeapInv', Filling, Unseen, set_args_done PROVE Prepared
<1> PICK p : p = locals.set_args_p OBVIOUS
<1> PICK n : n = locals.set_args_n OBVIOUS
<1>1. /\ pc = "run" /\ running = "set_args" /\ locals.set_args_i = n
      /\ gc_idle /\ looping
  <2>1. pc = "run" /\ running = "set_args" /\ locals.set_args_i = n
    BY Zenon DEF set_args_done, in_loop
  <2> QED BY ONLY <2>1 DEF gc_idle, looping, in_call
<1>2. CASE stop("set_args", "pool mismatch")
  <2>1. PICK g, why : stop(g, why)
    BY <1>2, Zenon
  <2> QED BY ONLY <1>1, <2>1, Unseen, SetArgsStopped
<1>3. CASE /\ locals' = [global_sysargs |-> p] /\ running' = "program"
           /\ UNCHANGED <<heap, mem, stack, statics, pc, req>>
  <2>1. Observed /\ Idle
    BY <1>1, <1>3, IdleHeap DEF Observed, gc_idle
  <2>2. counters /\ partly_filled(p, n, n) /\ n \in Nat
    <3>1. Filled
      BY <1>1, FillingIsFilled
    <3> QED BY <1>1, <3>1 DEF Filled, counters
  <2>3. PICK v : shows(v, p)
    BY <1>1, LoopShown
  <2>4. locals'.global_sysargs = p
    BY <1>3
  <2>5. Runtime!RuntimeNext
    BY <1>1, <1>3, <2>1, <2>2, <2>3, <2>4, ArrayHanded
  <2> QED BY <1>3, <2>5 DEF Prepared, Filling, looping, Unseen, ShownStep
<1>4. CASE pops_match(set_args_roots)
  BY <1>3, <1>4, Zenon DEF set_args_done
<1>5. CASE ~pops_match(set_args_roots)
  BY <1>2, <1>5, Zenon DEF set_args_done
<1> QED BY <1>4, <1>5

LEMMA SetArgsStepShown ==
  ASSUME Frames, HeapInv, Frames', HeapInv', Handing, Filling, Unseen, SetArgs PROVE Prepared
BY SetArgsStarts, SetArgsArrayFills, SetArgsBstringFills, SetArgsReturnFills, SetArgsStoreFills,
   SetArgsDoneShown DEF SetArgs

-------------------------------------------------------------------------------
(* The refinement *)

GraphInv == RuntimeInv /\ Filling /\ Unseen

LEMMA InitShown == ASSUME RuntimeInit PROVE GraphInv /\ Runtime!RuntimeInit
<1> PICK rs : rs = seen_by_program OBVIOUS
<1>1. /\ RuntimeInv /\ Frames /\ HeapInv /\ pc = "run" /\ running = "start" /\ DOMAIN mem = {}
      /\ req.op = "none" /\ gc_idle /\ pc # "failed"
  <2>1. /\ pc = "run" /\ running = "start" /\ mem = << >>
        /\ req = [op |-> "none", type |-> "ARRAY", len |-> 0, size |-> 0]
    BY DEF RuntimeInit, GcInit
  <2>2. RuntimeInv
    BY InitHeap
  <2> QED BY <2>1, <2>2 DEF RuntimeInv, gc_idle
<1>2. Watched
  BY <1>1, Watch
<1>3. \A q : abs_word(q) = <<"word", q>>
  BY <1>1 DEF abs_word, is_object
<1>4. /\ rs \in Seq(seen_values) /\ laid(rs, first_seen, shown(statics), shown(stack))
      /\ whole(rs, seen_graph)
  BY <1>2 DEF Watched, Seen
<1>5. \A i \in DOMAIN rs : rs[i] \in seen_values
  BY <1>4
<1>6. refs_of(rs) = {}
  <2>1. \A v \in seen_values : v[1] = "word"
    BY <1>3 DEF seen_values, zero_value
  <2>2. \A i \in DOMAIN rs : rs[i][1] = "word"
    BY <1>5, <2>1
  <2> QED BY <2>2 DEF refs_of
<1>7. seen_graph = << >>
  BY <1>4, <1>6, NothingReached
<1>8. rs[1] = Runtime!zero
  <2>1. rs[1] = first_seen /\ first_seen = zero_value
    BY <1>1, <1>4 DEF laid, first_seen, sysargs_root, zero_value
  <2> QED BY <2>1 DEF zero_value, Runtime!zero, Runtime!word, Runtime!BOX, BOX
<1>9. rs \in Seq(Runtime!range(rs))
  <2> PICK T, U : T = Runtime!range(rs) /\ U = seen_values OBVIOUS
  <2>1. \A i \in DOMAIN rs : rs[i] \in T
    BY DEF Runtime!range
  <2>2. rs \in Seq(U)
    BY <1>4
  <2> PICK n \in Nat : n = Len(rs)
    BY <2>2
  <2>3. rs = [i \in 1 .. n |-> rs[i]] /\ DOMAIN rs = 1 .. n
    BY ONLY <2>2, n = Len(rs)
  <2>4. \A i \in 1 .. n : rs[i] \in T
    BY ONLY <2>1, <2>3
  <2>5. rs \in Seq(T) /\ Len(rs) = n
    BY ONLY <2>3, <2>4, n \in Nat, FunctionIsSeq
  <2> QED BY <2>5
<1>10. Runtime!refs(Runtime!range(rs)) = {}
  BY <1>6, RuntimeValues
<1> QED BY <1>1, <1>6, <1>7, <1>8, <1>9, <1>10
        DEF GraphInv, Filling, looping, Unseen, Runtime!RuntimeInit

LEMMA StutterShown ==
  ASSUME GraphInv, UNCHANGED callVars
  PROVE  Filling' /\ Unseen' /\ UNCHANGED <<seen_by_program, seen_graph, req>>
<1>1. UNCHANGED <<heap, mem, stack, statics, locals, extra, running, dump, pc, req>> /\ UNCHANGED clientVars
  BY DEF callVars, clientVars, gcVars
<1>2. UNCHANGED <<seen_by_program, seen_graph>>
  BY <1>1, SameSeen DEF gc_idle
<1>3. UNCHANGED <<shown_roots, shown_graph>>
  BY <1>1, StutterShows DEF GraphInv, RuntimeInv
<1>4. Unseen'
  BY <1>1, <1>2 DEF GraphInv, Unseen, refs_of
<1>5. /\ shown_cell(1)' = shown_cell(1)
      /\ \A v : refers(v)' = refers(v) /\ shown_object(v)' = shown_object(v)
      /\ \A v : string_shown(v)' = string_shown(v)
  BY <1>1, <1>3 DEF shown_cell, refers, shown_object, string_shown
<1>6. looping' = looping /\ counters' = counters /\ next_string' = next_string
  BY <1>1 DEF looping, in_call, counters, next_string, is_string, is_object, object_at
<1>7. Filling'
  BY <1>1, <1>5, <1>6 DEF GraphInv, Filling, shown_filled, integer_shown
<1> QED BY <1>1, <1>2, <1>4, <1>7

LEMMA NextShown ==
  ASSUME ProperCalls, GraphInv, [RuntimeNext]_callVars PROVE GraphInv' /\ ShownStep
<1>1. /\ RuntimeInv /\ Filling /\ Unseen /\ RuntimeInv'
      /\ Frames /\ HeapInv /\ Requested /\ Handing /\ Frames' /\ HeapInv'
  BY NextHeap DEF GraphInv, RuntimeInv
<1>2. running' = "program" => Filling' /\ Unseen'
  BY DEF Filling, looping, Unseen
<1> SUFFICES Filling' /\ Unseen' /\ ShownStep
  BY <1>1 DEF GraphInv
<1>3. CASE Program
  BY <1>1, <1>2, <1>3, ProgramHeap, ProgramShown
<1>4. CASE Enter
  BY <1>1, <1>2, <1>4, EnterStepHeap, EnterStepShown
<1>5. CASE Leave
  BY <1>1, <1>2, <1>5, LeaveStepHeap, LeaveStepShown
<1>6. CASE SetArgs
  BY <1>1, <1>6, SetArgsStepShown DEF Prepared
<1>7. CASE CollectStep /\ UNCHANGED <<running, exit>>
  <2>1. UNCHANGED <<seen_by_program, seen_graph>> /\ req' = req /\ Filling'
    BY <1>1, <1>7, CollectorSeen, CollectorFills
  <2>2. Unseen'
    BY <1>1, <1>7, <2>1 DEF Unseen, refs_of
  <2> QED BY <2>1, <2>2 DEF ShownStep
<1>8. CASE Exited \/ UNCHANGED callVars
  BY <1>8, StutterShown DEF Exited, ShownStep
<1> QED BY <1>3, <1>4, <1>5, <1>6, <1>7, <1>8 DEF RuntimeNext, Calling

\* In a program that calls neither Ls__Infix_58 nor Lsprintf the runtime
\* functions implement their calls on a graph of objects: each of them leaves the
\* one object that it is to make, of its arguments as they were when it was
\* called, a collection in between does not show, what no variable of the
\* program reaches is gone, and set_args leaves an array of new strings.
THEOREM ImplementsRuntimeGraphHolds ==
  ASSUME ProperCalls PROVE RuntimeSpec => ImplementsRuntimeGraph
<1>1. RuntimeInit => GraphInv /\ Runtime!RuntimeInit
  BY InitShown
<1>2. GraphInv /\ [RuntimeNext]_callVars => GraphInv' /\ [Runtime!RuntimeNext]_Runtime!runtimeVars
  BY NextShown DEF ShownStep, Runtime!runtimeVars
<1> QED BY <1>1, <1>2, PTL DEF RuntimeSpec, ImplementsRuntimeGraph, Runtime!RuntimeSpec
===============================================================================
