--------------------------- MODULE RuntimeProperties ---------------------------
(***************************************************************************)
(* What must hold of the runtime functions that allocate (module           *)
(* RuntimeCalls) together with the collector under them.                   *)
(***************************************************************************)
EXTENDS RuntimeCalls, HeapProperties

\* Every variable has its type, and the frame of the caller stays on the stack.
RuntimeTypeOK ==
  /\ ClientTypeOK
  /\ Len(stack) >= FrameWords /\ Len(statics) = Statics
  /\ running \in {"start", "set_args", "program"}
  /\ exit.why # "none" <=> pc = "failed"

\* Every function pops the cells it has pushed, in the order in which
\* pop_extra_root wants them: between calls the pool holds global_sysargs only.
PoolBalanced ==
  /\ exit.why # "pool mismatch"
  /\ pc = "run" /\ running = "program" => extra = <<local_cell("global_sysargs")>>

\* The pool is large enough for every function but Bclosure, which registers a
\* cell for each captured variable, as many as the program likes.
OverflowOnlyByClosures == exit.why = "pool overflow" => exit.in = "Bclosure"

\* Ls__Infix_58 is a synonym for the built-in operator, which makes an object
\* of its operands: what Bsexp is about to store are the operands.
ConsTakesOperands ==
  req.op = "Ls__Infix_58" /\ pc \in {"alloc", "retry"} /\ has_room(req.size) =>
    locals.Bsexp_p = arg(1) /\ locals.Bsexp_q = arg(2)

\* The runtime has started the program once set_args has stored every argument.
ProgramStarts == <>(running = "program")

-------------------------------------------------------------------------------
(* Refinement: the functions implement their effect on the object graph *)

OG == INSTANCE ObjectGraph WITH roots <- << >>, graph <- << >>

sysargs_root(value) == IF running = "program" THEN value ELSE <<"word", BOX(0)>>
seen_by_program ==
  LET n == Len(statics) + Len(stack) IN
    IF gc_idle
    THEN <<sysargs_root(abs_word(locals.global_sysargs))>> \o SubSeq(now_roots, 1, n)
    ELSE <<sysargs_root(dump.roots[n + 1])>> \o SubSeq(dump.roots, 1, n)
seen_graph == OG!live_part(IF gc_idle THEN now_graph ELSE dump.graph, seen_by_program)

Runtime == INSTANCE RuntimeGraph
             WITH roots <- seen_by_program, graph <- seen_graph, fn <- req.op
ImplementsRuntimeGraph == Runtime!RuntimeSpec
===============================================================================
