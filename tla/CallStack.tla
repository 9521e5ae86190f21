------------------------------- MODULE CallStack -------------------------------
(***************************************************************************)
(* Calls and returns of interpreter/iterinter.c: the operand stack over    *)
(* the global area, the call stack of return addresses and saved registers,*)
(* and the registers fp, n_args, n_locals and is_closure.                  *)
(*                                                                         *)
(* The operand stack grows towards lower addresses; here it is a sequence, *)
(* the global area its first words, and a position in it stands for an     *)
(* address: sp() is the position after the last word.  A step is one       *)
(* instruction.                                                            *)
(***************************************************************************)
EXTENDS Naturals, Sequences

CONSTANTS
  NG,          \* global_area_size
  STACK_WORDS, \* words from gc_handled_memory to __gc_stack_bottom
  CALL_WORDS,  \* STACK_SIZE, the words of call_stack
  Functions,   \* the functions of the program: [args, locals] numbers
  Closures,    \* those of them that the program makes closures of
  Consts,      \* boxed integers the program pushes
  Label,       \* places in the bytecode, as addresses
  Verified     \* the program pops operands of its own frame only

EMPTY_BOX == 1

ASSUME ProgramAssumption ==
  /\ NG \in Nat /\ STACK_WORDS \in Nat /\ CALL_WORDS \in Nat
  /\ Functions \subseteq [args: Nat, locals: Nat]
  /\ Closures \subseteq Functions
  /\ Label \subseteq Nat /\ Verified \in BOOLEAN
  /\ NG + 1 < STACK_WORDS /\ 1 < CALL_WORDS

\* A word of the stack is a boxed integer or a closure of a function.
Closure == [closure_of: Closures]
Integer == [int: Consts \cup {EMPTY_BOX}]
Value   == Closure \cup Integer
empty   == [int |-> EMPTY_BOX]

VARIABLES
  stack,       \* words below __gc_stack_bottom, the global area first
  call_stack,  \* words below call_stack_bottom
  fp,          \* frame pointer, as a position of stack
  n_args, n_locals, is_closure,
  ip,
  callee,      \* the function a call jumped to, until its BEGIN
  status       \* "run", "begin", "stopped" or "failed"

regs == <<fp, n_args, n_locals, is_closure>>
vars == <<stack, call_stack, regs, ip, callee, status>>

sp == Len(stack) + 1
word(p) == stack[p]
popped(n) == SubSeq(stack, 1, Len(stack) - n)

\* push_op writes the word and then asserts sp() != gc_handled_memory, so the
\* last word of the memory is never used; push_call does the same.
ops_fit(n)   == Len(stack) + n < STACK_WORDS - 1
calls_fit(n) == Len(call_stack) + n < CALL_WORDS - 1

\* pop_op: the assertion compares sp() with __gc_stack_bottom - 1.
can_pop(n) == Len(stack) >= n

fail == /\ status' = "failed"
        /\ UNCHANGED <<stack, call_stack, regs, ip, callee>>

-------------------------------------------------------------------------------
(* Places: get_addr *)

G(i) == NG - i
L(i) == fp + i
A(i) == fp - n_args + i
places == {G(i) : i \in 0 .. NG - 1} \cup {L(i) : i \in 0 .. n_locals - 1}
                                     \cup {A(i) : i \in 0 .. n_args - 1}

-------------------------------------------------------------------------------
(* Instructions.  goes_on: the instruction is not a call, and the next one is *)
(* any place of the running function.                                        *)

goes_on == /\ ip' \in Label
           /\ UNCHANGED <<call_stack, regs, callee, status>>

operands == Len(stack) + 1 - (fp + n_locals)
has_operands(n) == Verified => operands >= n

JMP == /\ status = "run"
       /\ goes_on /\ UNCHANGED stack

push(v) == IF ops_fit(1) THEN stack' = Append(stack, v) /\ goes_on ELSE fail

CONST == status = "run" /\ \E n \in Consts : push([int |-> n])

BCLOSURE == status = "run" /\ \E f \in Closures : push([closure_of |-> f])

LD == status = "run" /\ \E p \in places : push(word(p))

DROP == /\ status = "run" /\ has_operands(1)
        /\ IF can_pop(1) THEN stack' = popped(1) /\ goes_on ELSE fail

ST == /\ status = "run" /\ operands >= 1
      /\ \E p \in places : stack' = [stack EXCEPT ![p] = word(sp - 1)]
      /\ goes_on

\* call(): the operands hold the arguments, the return address is pushed.
keeps_flag  == is_closure' = is_closure
resets_flag == is_closure' = FALSE
CALL == /\ status = "run"
        /\ \E f \in Functions :
             /\ operands >= f.args
             /\ IF calls_fit(1)
                THEN /\ resets_flag
                     /\ call_stack' = Append(call_stack, ip)
                     /\ callee' = f /\ status' = "begin" /\ ip' \in Label
                     /\ UNCHANGED <<stack, fp, n_args, n_locals>>
                ELSE fail

\* call_closure(): the closure lies under the arguments.
called(n)        == word(sp - n - 1)
CALLC == /\ status = "run"
         /\ \E n \in {f.args : f \in Functions} :
              /\ operands >= n + 1
              /\ LET c == called(n) IN
                   IF c \in Closure /\ calls_fit(1)
                   THEN /\ c.closure_of.args = n
                        /\ is_closure' = TRUE
                        /\ call_stack' = Append(call_stack, ip)
                        /\ callee' = c.closure_of /\ status' = "begin" /\ ip' \in Label
                        /\ UNCHANGED <<stack, fp, n_args, n_locals>>
                   ELSE fail

\* begin(): the registers of the caller and the closure flag of the callee go
\* to the call stack, the locals of the callee to the operand stack.
saved == <<fp, n_args, n_locals, IF is_closure THEN 1 ELSE 0>>
new_fp_behind_locals == sp + callee.locals
new_fp == sp
BEGIN == /\ status = "begin"
         /\ IF calls_fit(4) /\ ops_fit(callee.locals)
            THEN /\ call_stack' = call_stack \o saved
                 /\ fp' = new_fp
                 /\ n_args' = callee.args
                 /\ n_locals' = callee.locals
                 /\ stack' = stack \o [i \in 1 .. callee.locals |-> empty]
                 /\ status' = "run" /\ ip' \in Label
                 /\ UNCHANGED <<is_closure, callee>>
            ELSE fail

\* end(): the result, the locals, the arguments and a called closure leave the
\* operand stack, the result comes back, the registers of the caller too.
flag(cs) == cs[Len(cs)]
drop_frame_keeping_closure(cs) == n_args + n_locals
drop_frame(cs) == n_args + n_locals + flag(cs)
restored_early(cs) == SubSeq(cs, 1, Len(cs) - 3)
restored(cs) == SubSeq(cs, 1, Len(cs) - 4)

END == /\ status = "run" /\ operands = 1
       /\ LET cs == restored(call_stack)
              n  == Len(call_stack)
          IN  /\ stack' = Append(popped(1 + drop_frame(call_stack)), word(sp - 1))
              /\ n_locals' = call_stack[n - 1]
              /\ n_args' = call_stack[n - 2]
              /\ fp' = call_stack[n - 3]
              /\ IF cs = << >>
                 THEN status' = "stopped" /\ call_stack' = cs /\ ip' = ip
                 ELSE /\ status' = "run"
                      /\ call_stack' = SubSeq(cs, 1, Len(cs) - 1)
                      /\ ip' = cs[Len(cs)]
       /\ UNCHANGED <<is_closure, callee>>

-------------------------------------------------------------------------------

\* main is entered at the start of the bytecode, with no return address and
\* nothing under its frame.  It is assumed to take no arguments: nobody has pushed
\* any, and nothing checks it, so that the END of a main with arguments would move
\* sp over the global area before it pushes the result and the process ends.
Init == /\ stack = [i \in 1 .. NG |-> empty]
        /\ call_stack = << >>
        /\ fp = 0 /\ n_args = 0 /\ n_locals = 0 /\ is_closure = FALSE
        /\ ip \in Label
        /\ callee \in {f \in Functions : f.args = 0}
        /\ status = "begin"

Ended == status \in {"stopped", "failed"} /\ UNCHANGED vars

Next == \/ JMP \/ CONST \/ BCLOSURE \/ LD \/ DROP \/ ST \/ CALL \/ CALLC \/ BEGIN \/ END
        \/ Ended

Spec == Init /\ [][Next]_vars
===============================================================================
