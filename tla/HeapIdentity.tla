----------------------------- MODULE HeapIdentity -----------------------------
(***************************************************************************)
(* The inductive invariant behind DumpsAgree and GarbageReclaimedInOrder:  *)
(* in every phase of a collection, which object of the dump each object    *)
(* and each word of the heap, of the stack, of the static area and of the  *)
(* registered cells stands for.  Objects are told apart by their ids.      *)
(***************************************************************************)
EXTENDS HeapSoundness

-------------------------------------------------------------------------------
(* Naming: a function from header addresses to the ids of the objects that   *)
(* are meant by references to these addresses                                *)

value(names, p) ==
  IF ~outside(p) /\ TO_DATA(p) \in DOMAIN names THEN <<"ref", names[TO_DATA(p)]>>
                                                ELSE <<"word", p>>
values(names, s) == [i \in DOMAIN s |-> value(names, s[i])]
described(names, o) ==
  [type |-> o.type, len |-> o.len,
   words |-> [i \in DOMAIN o.words |-> IF i \in fields(o) THEN value(names, o.words[i])
                                                          ELSE <<"word", o.words[i]>>]]

\* While nothing has moved; by the addresses before mremap.
names_now == [a \in DOMAIN mem |-> mem[a].id]
old_names == [x \in old_places |-> mem[after_mremap(x)].id]

\* By destinations: of the objects that have landed, and of those to move.
arrived   == IF pc = "physically_relocate" THEN landed ELSE {}
survivors == arrived \cup to_move
place(a)  == IF a \in arrived THEN a ELSE moved_to(a)
new_names == [x \in {place(a) : a \in survivors} |->
                mem[CHOOSE a \in survivors : place(a) = x].id]

names(fixed) == IF fixed THEN new_names ELSE old_names

-------------------------------------------------------------------------------
(* What update_references has been over *)

object_fixed(a) == pc = "update_references" => a < gc.it
stack_fixed     == pc # "update_references"
cell_fixed(i)   == \/ pc = "physically_relocate"
                   \/ pc = "fix_extra_roots" /\ (extra[i][1] = "stack" \/ i < gc.idx)
statics_fixed   == pc = "physically_relocate"

-------------------------------------------------------------------------------
(* The objects of the dump *)

distinct(S) == \A a, b \in S : mem[a].id = mem[b].id => a = b

\* The objects at S are those of the dump, in their order.
same_objects(S) ==
  /\ distinct(S)
  /\ dump.graph = [d \in {mem[a].id : a \in S} |-> dump.graph[d]]
  /\ dump.order = ids_in_order(S)

\* Every object has a number of its own; the object that is being allocated has
\* the last one already.
allocating == pc \notin {"run", "failed"}
Numbered ==
  /\ pc # "physically_relocate" => distinct(DOMAIN mem)
  /\ \A a \in DOMAIN mem : mem[a].id <= cur_id /\ (allocating => mem[a].id < cur_id)

\* The roots of the dump reach each of its objects: no smaller set of ids holds
\* the references of the roots and of its own objects.
refs_of(vs) == {vs[i][2] : i \in {j \in DOMAIN vs : vs[j][1] = "ref"}}
holds_refs(D, vs) == refs_of(vs) \cap DOMAIN dump.graph \subseteq D
Rooted == ~gc_idle =>
  \A D \in SUBSET DOMAIN dump.graph :
    /\ holds_refs(D, dump.roots)
    /\ \A d \in D : holds_refs(D, dump.graph[d].words)
    => D = DOMAIN dump.graph

\* Nothing that the dump shows changes until mremap.
Unchanged == marking \/ pc = "compute_locations" =>
  /\ now_roots = dump.roots /\ now_graph = dump.graph
  /\ ids_in_order(live_objects) = dump.order

Kept == pc \in {"update_references", "fix_extra_roots", "physically_relocate"} =>
  /\ same_objects(survivors)
  /\ \A a \in survivors : dump.graph[mem[a].id] = described(names(object_fixed(a)), mem[a])
  /\ dump.roots = values(names(statics_fixed), statics)
                    \o values(names(stack_fixed), stack)
                    \o [i \in DOMAIN extra |-> value(names(cell_fixed(i)), cell_word(extra[i]))]

Identity == /\ Numbered /\ Rooted /\ Unchanged /\ Kept
            /\ DumpsAgree /\ GarbageReclaimedInOrder
===============================================================================
