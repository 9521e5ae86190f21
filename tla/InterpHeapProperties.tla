------------------------- MODULE InterpHeapProperties -------------------------
(***************************************************************************)
(* What must hold of the data instructions of the interpreter (module      *)
(* InterpHeap) together with the collector under them.                     *)
(***************************************************************************)
EXTENDS InterpHeap, HeapProperties

\* Every variable has its type; the globals stay on the stack, and the request
\* in progress is one of an instruction that allocates.
TypeOK ==
  /\ ClientTypeOK
  /\ Len(stack) >= NG
  /\ req.op \in {"none", "BARRAY", "BSEXP", "BCLOSURE", "BSTRING", "LSTRING"}

\* An address that lda pushed for a captured variable lies inside the captured
\* words of a closure, never on its code offset or on the next header, which a
\* store through it would overwrite.
CapturedAddressesInside ==
  pc = "run" => \A i \in DOMAIN stack :
    is_valid_heap_pointer(stack[i]) /\ ~is_object(stack[i]) =>
      \E a \in DOMAIN mem : /\ mem[a].type = "CLOSURE"
                            /\ get_object_content_ptr(a) < stack[i] /\ stack[i] < next_obj(a)

-------------------------------------------------------------------------------
(* Refinement: the interpreter with its collector implements the object graph *)

collecting == ~gc_idle
abs_roots == IF collecting THEN dump.roots ELSE now_roots
abs_graph == IF collecting THEN dump.graph ELSE now_graph

Graph == INSTANCE ObjectGraph WITH roots <- abs_roots, graph <- abs_graph
ImplementsObjectGraph == Graph!Spec
===============================================================================
