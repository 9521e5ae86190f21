------------------------------ MODULE Activations ------------------------------
(***************************************************************************)
(* What calls and returns promise to a Lama program: a stack of activation *)
(* records, each with variables and operands of its own.  Module CallStack *)
(* implements it with two flat stacks and four registers.                  *)
(***************************************************************************)
EXTENDS Naturals, Sequences

CONSTANTS Value, Label

VARIABLES
  globals,  \* values of the global variables
  frames,   \* the activation records, the last one is running
  ip        \* the place in the running function

vars == <<globals, frames, ip>>

Frame == [args: Seq(Value), locals: Seq(Value), operands: Seq(Value), ret: Label]

depth   == Len(frames)
running == frames[depth]
\* The running frame changes; the frames of the callers do not.
becomes(f) == frames' = [frames EXCEPT ![depth] = f]

Init == /\ globals \in Seq(Value)
        /\ frames = << >>
        /\ ip \in Label

\* Instructions that touch the operands of the running frame only.
Push == /\ depth > 0
        /\ \E v \in Value : becomes([running EXCEPT !.operands = Append(@, v)])
        /\ globals' = globals

Pop == /\ depth > 0
       /\ running.operands # << >>
       /\ becomes([running EXCEPT !.operands = SubSeq(@, 1, Len(@) - 1)])
       /\ globals' = globals

\* The last operand is copied to one variable that is in scope.
top_operand == running.operands[Len(running.operands)]
Assign ==
  /\ depth > 0 /\ running.operands # << >>
  /\ \/ /\ \E i \in DOMAIN globals : globals' = [globals EXCEPT ![i] = top_operand]
        /\ frames' = frames
     \/ /\ \E i \in DOMAIN running.args : becomes([running EXCEPT !.args[i] = top_operand])
        /\ globals' = globals
     \/ /\ \E i \in DOMAIN running.locals : becomes([running EXCEPT !.locals[i] = top_operand])
        /\ globals' = globals

Jump == /\ depth > 0
        /\ UNCHANGED <<globals, frames>>

\* The callee takes its arguments from the operands of the caller; a closure
\* that is called lies under them and goes too.
Call ==
  /\ depth > 0
  /\ LET ops   == running.operands
         new   == frames'
         inner == new[depth + 1]
         outer(taken) == [running EXCEPT !.operands = SubSeq(@, 1, Len(@) - taken)]
     IN  /\ Len(new) = depth + 1
         /\ LET n == Len(inner.args) IN
              /\ n <= Len(ops)
              /\ inner.args = SubSeq(ops, Len(ops) - n + 1, Len(ops))
              /\ \E taken \in {n, n + 1} :
                   new = Append([frames EXCEPT ![depth] = outer(taken)], inner)
         /\ inner.operands = << >>
         /\ inner.ret = ip
  /\ globals' = globals

\* The result is the only thing a callee leaves, and the caller goes on
\* behind the call.
Return ==
  /\ depth > 1 /\ running.operands # << >>
  /\ LET outer == frames[depth - 1] IN
       frames' = [SubSeq(frames, 1, depth - 1) EXCEPT ![depth - 1].operands =
                    Append(outer.operands, top_operand)]
  /\ ip' = running.ret
  /\ globals' = globals

Start == /\ frames = << >>
         /\ Len(frames') = 1
         /\ frames'[1].operands = << >> /\ frames'[1].args = << >>
         /\ globals' = globals

Stop == depth = 1 /\ frames' = << >> /\ globals' = globals

Next == Jump \/ Pop \/ Call \/ Return \/ Push \/ Assign \/ Start \/ Stop
Spec == Init /\ [][Next]_vars
===============================================================================
