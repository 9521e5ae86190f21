------------------------------ MODULE ObjectGraph ------------------------------
(***************************************************************************)
(* What the memory manager promises to the interpreter: a graph of objects *)
(* that is never exhausted and that no collection ever shows through.  An  *)
(* object is known by its identity, it has no address, and it is in the    *)
(* graph for as long as the roots reach it.  Module InterpHeap implements  *)
(* this specification; the steps of the collector are stuttering steps.    *)
(***************************************************************************)
EXTENDS LamaWords, Sequences, FiniteSets

VARIABLES
  roots,  \* values of the globals, the operands and the registered C locals
  graph   \* identity -> object, for the objects the roots reach

vars == <<roots, graph>>

(* A value is <<"ref", identity>> or <<"word", the word itself>>. *)
refs(values) == {v[2] : v \in {w \in values : w[1] = "ref"}}
range(s)     == {s[i] : i \in DOMAIN s}

\* The objects of the graph g that the identities in from reach: with as many
\* steps along references as there are objects every one is reached.
successors(d, g) == refs(range(g[d].words)) \cap DOMAIN g
reachable(from, g) ==
  LET within[n \in Nat] == IF n = 0 THEN from \cap DOMAIN g
                           ELSE UNION {{d} \cup successors(d, g) : d \in within[n - 1]}
  IN  within[Cardinality(DOMAIN g)]

\* The part of the graph g that the root values rs keep alive.
live_part(g, rs) == [d \in reachable(refs(range(rs)), g) |-> g[d]]

known(rs) == refs(range(rs)) \subseteq DOMAIN graph

Init == /\ roots \in Seq(range(roots))
        /\ refs(range(roots)) = {}
        /\ graph = << >>

\* Values move between roots; what the roots no longer reach is gone.
Move == /\ known(roots')
        /\ graph' = live_part(graph, roots')

\* A value as it is stored in object o: a string holds characters.
stored(o, v) == IF o.type = "STRING" THEN <<"word", UNBOX(v[2]) % 256>> ELSE v

\* One member of one object, which stays alive, takes a value of the roots.
Store == LET g    == graph
             next == graph'
             rs   == roots'
         IN  /\ known(rs)
             /\ \E d \in DOMAIN g \cap DOMAIN next : \E i \in DOMAIN g[d].words :
                  /\ \E v \in range(roots) : next[d].words[i] = stored(g[d], v)
                  /\ next = live_part([g EXCEPT ![d].words[i] = next[d].words[i]], rs)

\* The members of a new object that took the n last roots as operands.
takes_operands(o, n) ==
  LET operands == SubSeq(roots, Len(roots) - n + 1, Len(roots)) IN
  CASE o.type = "ARRAY"   -> o.words = operands /\ o.len = n
    [] o.type = "SEXP"    -> Tail(o.words) = operands /\ o.len = n
    [] o.type = "CLOSURE" -> n = 0 /\ range(Tail(o.words)) \subseteq range(roots)
    [] o.type = "STRING"  -> refs(range(o.words)) = {}

\* A fresh object replaces its operands at the end of the roots.
New == LET rs == roots'
           g  == graph'
           new == rs[Len(rs)]
           d  == new[2]
       IN  /\ rs # << >>
           /\ new[1] = "ref" /\ d \notin DOMAIN graph /\ d \in DOMAIN g
           /\ \E n \in 0 .. Len(roots) :
                /\ SubSeq(rs, 1, Len(rs) - 1) = SubSeq(roots, 1, Len(roots) - n)
                /\ takes_operands(g[d], n)
           /\ g = live_part([x \in DOMAIN graph \cup {d} |-> IF x = d THEN g[d] ELSE graph[x]], rs)

Next == Move \/ New \/ Store
Spec == Init /\ [][Next]_vars
===============================================================================
