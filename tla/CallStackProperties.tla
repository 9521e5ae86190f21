-------------------------- MODULE CallStackProperties --------------------------
(***************************************************************************)
(* What must hold of the two stacks of the interpreter, and the activation *)
(* records they stand for.                                                 *)
(***************************************************************************)
EXTENDS CallStack

-------------------------------------------------------------------------------
(* The frames on the stacks.  Every BEGIN leaves a block of four words on    *)
(* the call stack, and every call but the start of main a return address     *)
(* under it.  A block holds the registers of the caller and the flag of the  *)
(* frame that it opens.                                                      *)

depth        == (Len(call_stack) + 1) \div 5
block(j)     == 5 * (j - 1)
saved_fp(j)       == call_stack[block(j) + 1]
saved_n_args(j)   == call_stack[block(j) + 2]
saved_n_locals(j) == call_stack[block(j) + 3]
closure_flag(j)   == call_stack[block(j) + 4]
return_address(j) == call_stack[block(j)]

fp_of(j)       == IF j = depth THEN fp ELSE saved_fp(j + 1)
n_args_of(j)   == IF j = depth THEN n_args ELSE saved_n_args(j + 1)
n_locals_of(j) == IF j = depth THEN n_locals ELSE saved_n_locals(j + 1)

\* The frame j lies in the words from bottom_of(j) up to, not including, top_of(j).
bottom_of(j) == fp_of(j) - n_args_of(j) - closure_flag(j)
top_of(j)    == IF j = depth THEN sp ELSE bottom_of(j + 1)

-------------------------------------------------------------------------------

\* Every variable has its type; the call stack alternates blocks and return
\* addresses.
TypeOK ==
  /\ stack \in Seq(Value) /\ Len(stack) >= NG /\ Len(stack) < STACK_WORDS - 1
  /\ call_stack \in Seq(Nat) /\ Len(call_stack) < CALL_WORDS - 1
  /\ fp \in Nat /\ n_args \in Nat /\ n_locals \in Nat /\ is_closure \in BOOLEAN
  /\ ip \in Label /\ callee \in Functions
  /\ status \in {"run", "begin", "stopped", "failed"}
  /\ \A j \in 1 .. depth : closure_flag(j) \in {0, 1}
  /\ \A j \in 2 .. depth : return_address(j) \in Label

\* The call stack is whole blocks: five words for each frame but main, whose
\* four carry no return address, and the return address of a call under way.
CallStackBalanced ==
  /\ status = "begin" => Len(call_stack) % 5 = 0
  /\ status = "run"   => Len(call_stack) % 5 = 4
  /\ status = "stopped" => call_stack = << >>

\* The frames cut the operand stack into disjoint pieces above the global
\* area, in the order of the calls: no frame reaches into its caller's.
FrameChain ==
  /\ \A j \in 1 .. depth :
       /\ NG < bottom_of(j)
       /\ fp_of(j) + n_locals_of(j) <= top_of(j)
  /\ status = "begin" =>
       callee.args + (IF is_closure THEN 1 ELSE 0) <= IF depth = 0 THEN 0 ELSE operands

\* While the body of a called closure runs, the word below its arguments is
\* the closure: get_addr reads captured variables through fp[n_args + 1].
ClosureUnderArguments ==
  \A j \in 1 .. depth : closure_flag(j) = 1 =>
    /\ word(bottom_of(j)) \in Closure
    /\ word(bottom_of(j)).closure_of = [args |-> n_args_of(j), locals |-> n_locals_of(j)]

-------------------------------------------------------------------------------
(* Refinement: the two stacks and the registers implement activation records *)

part(from, to) == SubSeq(stack, from, to)
no_label == CHOOSE l \in Label : TRUE

frame(j) == [args     |-> part(fp_of(j) - n_args_of(j), fp_of(j) - 1),
             locals   |-> part(fp_of(j), fp_of(j) + n_locals_of(j) - 1),
             operands |-> part(fp_of(j) + n_locals_of(j), top_of(j) - 1),
             ret      |-> IF j = 1 THEN no_label ELSE return_address(j)]

calling == Len(call_stack) % 5 = 0 /\ call_stack # << >>

Records == INSTANCE Activations WITH
  globals <- part(1, NG),
  frames  <- [j \in 1 .. depth |-> frame(j)],
  ip      <- IF calling THEN call_stack[Len(call_stack)] ELSE ip

\* The interpreter implements the activation records: a call hands over the
\* arguments and nothing else, a return restores the caller's variables,
\* operands and place and adds the result.
ImplementsActivations == Records!Spec

\* The assertion of pop_op promises that an access to an empty operand stack
\* stops the program; the globals lie above the operand stack.
GlobalsSurviveEmptyStack == status # "failed" => Len(stack) >= NG
===============================================================================
