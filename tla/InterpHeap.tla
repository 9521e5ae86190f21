------------------------------ MODULE InterpHeap ------------------------------
(***************************************************************************)
(* The data instructions of interpreter/iterinter.c over the collected     *)
(* heap of gc.c.  The stack of the collector holds the global area and the *)
(* operands.                                                               *)
(*                                                                         *)
(* The bytecode is any sequence of instructions that is well typed: it     *)
(* pops operands of its own only and selects members of arrays and         *)
(* s-expressions inside their bounds, none of which the interpreter checks.*)
(***************************************************************************)
EXTENDS HeapClient

CONSTANTS
  NG,            \* words of the global area
  MaxOperands,   \* bound: operands on the stack
  MaxLen,        \* bound: members of an array, s-expression or closure
  Consts,        \* the integers of the program's constants
  Strings,       \* the characters of the program's strings, no zero among them
  Ops            \* the instructions the program uses

ASSUME ProgramAssumption ==
  /\ NG \in Nat /\ MaxOperands \in Nat /\ MaxLen \in Nat
  /\ Consts \subseteq Nat /\ Strings \subseteq Seq(Nat \ {0})
\* Lstring and Bstring register a cell each, and nothing else does.
ASSUME TwoCellsAssumption == MAX_EXTRA_ROOTS_NUMBER >= 2

vars == clientVars

-------------------------------------------------------------------------------
(* Addresses outside the heap *)

\* The address of global i; every base of the heap lies above all of them.
global_addr(i) == WORD_BYTES * i
\* A C buffer or a string of the bytecode file: even, outside the heap.
foreign_addr == global_addr(NG + 1)
ASSUME AddressAssumption == \A b \in Bases : b > foreign_addr

\* The first word of an s-expression and of a closure is raw (the tag hash,
\* the code offset): to a collector that looked at it, a pointer.
raw_word == CHOOSE b \in Bases : \A c \in Bases : b <= c

-------------------------------------------------------------------------------
(* Operands *)

has_operands(n) == Len(stack) >= NG + n
room_to_push    == Len(stack) < NG + MaxOperands

runs(op) == pc = "run" /\ op \in Ops

\* An instruction that neither allocates nor touches an object.
stack_only == UNCHANGED <<heap, mem, statics, locals, extra, pc, req, gc, cur_id, dump>>

-------------------------------------------------------------------------------
(* Instructions that move words *)

CONST == /\ runs("CONST") /\ room_to_push
         /\ \E n \in Consts : stack' = push(stack, BOX(n))
         /\ stack_only

DROP == /\ runs("DROP") /\ has_operands(1)
        /\ stack' = popped(1)
        /\ stack_only

DUP == /\ runs("DUP") /\ has_operands(1) /\ room_to_push
       /\ stack' = push(stack, operand(1))
       /\ stack_only

\* ld and st of a global; st leaves the value on the stack.
LD == /\ runs("LD") /\ room_to_push
      /\ \E i \in 1 .. NG : stack' = push(stack, stack[i])
      /\ stack_only

ST == /\ runs("ST") /\ has_operands(1)
      /\ \E i \in 1 .. NG : stack' = [stack EXCEPT ![i] = operand(1)]
      /\ stack_only

LDA == /\ runs("LDA") /\ room_to_push
       /\ \E i \in 1 .. NG : stack' = push(stack, global_addr(i))
       /\ stack_only

\* sta with an address under the value: what lda pushed for a global.
STA_ref == /\ runs("STA_ref") /\ has_operands(2)
           /\ \E i \in 1 .. NG :
                /\ operand(2) = global_addr(i)
                /\ stack' = push([popped(2) EXCEPT ![i] = operand(1)], operand(1))
           /\ stack_only

\* sta through the address of a captured variable, which lies inside a closure.
STA_captured ==
  /\ runs("STA_ref") /\ has_operands(2)
  /\ ~is_object(operand(2))
  /\ \E a \in DOMAIN mem : \E i \in DOMAIN mem[a].words :
       /\ operand(2) = get_object_content_ptr(a) + MEMBER_SIZE * (i - 1)
       /\ mem' = [mem EXCEPT ![a].words[i] = operand(1)]
  /\ stack' = push(popped(2), operand(1))
  /\ UNCHANGED <<heap, statics, locals, extra, pc, req, gc, cur_id, dump>>

\* Lwrite returns 0, which is not the boxed 0.
LWRITE == /\ runs("LWRITE") /\ has_operands(1)
          /\ UNBOXED(operand(1))
          /\ stack' = push(popped(1), 0)
          /\ stack_only

-------------------------------------------------------------------------------
(* Captured variables: the closure is the word fp[n_args + 1] of the stack *)

captured(o) == fields(o)
is_closure(p) == is_object(p) /\ object_at(p).type = "CLOSURE"

LD_C == /\ runs("LD_C") /\ room_to_push
        /\ \E c \in {p \in {stack[i] : i \in DOMAIN stack} : is_closure(p)} :
             \E i \in captured(object_at(c)) :
               stack' = push(stack, object_at(c).words[i])
        /\ stack_only

ST_C == /\ runs("ST_C") /\ has_operands(1)
        /\ \E c \in {p \in {stack[i] : i \in DOMAIN stack} : is_closure(p)} :
             \E i \in captured(object_at(c)) :
               mem' = [mem EXCEPT ![TO_DATA(c)].words[i] = operand(1)]
        /\ UNCHANGED <<heap, stack, statics, locals, extra, pc, req, gc, cur_id, dump>>

\* The address of a captured variable points into the closure object.
captured_addr_beyond(c, i) == c + MEMBER_SIZE * i
captured_addr(c, i) == c + MEMBER_SIZE * (i - 1)

LDA_C == /\ runs("LDA_C") /\ room_to_push
         /\ \E c \in {p \in {stack[i] : i \in DOMAIN stack} : is_closure(p)} :
              \E i \in captured(object_at(c)) :
                stack' = push(stack, captured_addr(c, i))
         /\ stack_only

-------------------------------------------------------------------------------
(* Members of objects *)

\* Belem and Bsta: the word of object o that index i selects.
member(o, i) == IF o.type = "SEXP" THEN i + 2 ELSE i + 1

ELEM_fail == /\ runs("ELEM") /\ has_operands(2)
             /\ UNBOXED(operand(2)) \/ ~UNBOXED(operand(1))
             /\ failure

ELEM == /\ runs("ELEM") /\ has_operands(2)
        /\ UNBOXED(operand(1)) /\ is_object(operand(2))
        /\ LET a == object_at(operand(2))
               i == member(a, UNBOX(operand(1)))
           IN  /\ a.type \in {"ARRAY", "SEXP", "STRING"} /\ i \in DOMAIN a.words
               /\ stack' = push(popped(2), IF a.type = "STRING" THEN BOX(a.words[i])
                                                               ELSE a.words[i])
        /\ stack_only

STA_fail == /\ runs("STA") /\ has_operands(3)
            /\ UNBOXED(operand(2)) /\ UNBOXED(operand(3))
            /\ failure

\* sta with an index under the value: Bsta stores it, and it stays on the stack.
STA == /\ runs("STA") /\ has_operands(3)
       /\ UNBOXED(operand(2)) /\ is_object(operand(3))
       /\ LET x == object_at(operand(3))
              i == member(x, UNBOX(operand(2)))
              v == IF x.type = "STRING" THEN UNBOX(operand(1)) % 256 ELSE operand(1)
          IN  /\ x.type \in {"ARRAY", "SEXP", "STRING"} /\ i \in DOMAIN x.words
              /\ x.type = "STRING" => UNBOXED(operand(1))
              /\ mem' = [mem EXCEPT ![TO_DATA(operand(3))].words[i] = v]
       /\ stack' = push(popped(3), operand(1))
       /\ UNCHANGED <<heap, statics, locals, extra, pc, req, gc, cur_id, dump>>

LLENGTH_fail == /\ runs("LLENGTH") /\ has_operands(1)
                /\ UNBOXED(operand(1))
                /\ failure

LLENGTH == /\ runs("LLENGTH") /\ has_operands(1)
           /\ is_object(operand(1))
           /\ stack' = push(popped(1), BOX(object_at(operand(1)).len))
           /\ stack_only

-------------------------------------------------------------------------------
(* Instructions that turn words into integers; module Primitives has their   *)
(* exact results                                                             *)

boolean(b) == BOX(IF b THEN 1 ELSE 0)

BINOP == /\ runs("BINOP") /\ has_operands(2)
         /\ \E n \in Consts : stack' = push(popped(2), BOX(n))
         /\ stack_only

LREAD == /\ runs("LREAD") /\ room_to_push
         /\ \E n \in Consts : stack' = push(stack, BOX(n))
         /\ stack_only

\* tag() with Btag, array() with Barray_patt: n members are asked for, and a
\* tag that may or may not be the one of the s-expression.
TAG_or_ARRAY(type) ==
  /\ has_operands(1)
  /\ UNBOXED(operand(1)) \/ is_object(operand(1))
  /\ \E n \in 0 .. MaxLen : \E same_tag \in (IF type = "SEXP" THEN BOOLEAN ELSE {TRUE}) :
       stack' = push(popped(1), boolean(/\ ~UNBOXED(operand(1)) /\ same_tag
                                        /\ object_at(operand(1)).type = type
                                        /\ object_at(operand(1)).len = n))
  /\ stack_only
TAG   == runs("TAG") /\ TAG_or_ARRAY("SEXP")
ARRAY == runs("ARRAY") /\ TAG_or_ARRAY("ARRAY")

\* patt() and check_tag() for the patterns that look at one word.
type_patterns == [string |-> "STRING", array |-> "ARRAY", sexp |-> "SEXP", fun |-> "CLOSURE"]
PATT == /\ runs("PATT") /\ has_operands(1)
        /\ \/ stack' = push(popped(1), boolean(UNBOXED(operand(1))))
           \/ stack' = push(popped(1), boolean(~UNBOXED(operand(1))))
           \/ /\ UNBOXED(operand(1)) \/ is_object(operand(1))
              /\ \E t \in DOMAIN type_patterns :
                   stack' = push(popped(1),
                                 boolean(/\ ~UNBOXED(operand(1))
                                         /\ object_at(operand(1)).type = type_patterns[t]))
        /\ stack_only

\* The pattern that compares strings: the literal is on the top, and check_tag
\* leaves the word under it alone if the literal is an integer.
is_string(p) == is_object(p) /\ object_at(p).type = "STRING"
PATT_str ==
  /\ runs("PATT_str") /\ has_operands(2)
  /\ \/ UNBOXED(operand(1)) /\ stack' = push(popped(1), boolean(FALSE))
     \/ /\ is_string(operand(1)) /\ (UNBOXED(operand(2)) \/ is_object(operand(2)))
        /\ stack' = push(popped(2), boolean(/\ is_string(operand(2))
                                            /\ c_text(object_at(operand(2)).words)
                                                 = c_text(object_at(operand(1)).words)))
  /\ stack_only

PATT_str_fail == /\ runs("PATT_str") /\ has_operands(2)
                 /\ is_object(operand(1)) /\ ~is_string(operand(1))
                 /\ failure

-------------------------------------------------------------------------------
(* Instructions that allocate *)

\* Everything after alloc: place the object, pop n operands and the registered
\* cells, push the address of the object.
return(op, contents, n) ==
  /\ allocated(op, contents)
  /\ stack' = push(popped(n), new_address)
  /\ locals' = << >> /\ extra' = << >>
  /\ UNCHANGED <<statics, req, cur_id>>

\* An instruction that allocates and registers no cell.
requests(op, type, len) ==
  /\ op \in Ops
  /\ request(op, type, len)
  /\ UNCHANGED <<stack, statics, locals, extra>>

BARRAY == \E n \in 0 .. MaxLen :
  /\ has_operands(n) /\ (n = 0 => room_to_push)
  /\ requests("BARRAY", "ARRAY", n)

BARRAY_return == pc \in {"alloc", "retry"} /\ return("BARRAY", last_operands(req.len), req.len)

BSEXP == \E n \in 0 .. MaxLen :
  /\ has_operands(n) /\ (n = 0 => room_to_push)
  /\ requests("BSEXP", "SEXP", n)

BSEXP_return ==
  pc \in {"alloc", "retry"} /\ return("BSEXP", <<raw_word>> \o last_operands(req.len), req.len)

\* closure(): the captured words are read from their places after alloc.
BCLOSURE == \E n \in 0 .. MaxLen :
  /\ room_to_push
  /\ requests("BCLOSURE", "CLOSURE", n + 1)

BCLOSURE_return ==
  /\ pc \in {"alloc", "retry"}
  /\ \E place \in [1 .. (req.len - 1) -> DOMAIN stack] :
       return("BCLOSURE", <<raw_word>> \o [i \in DOMAIN place |-> stack[place[i]]], 0)

\* Characters at the C pointer p: a string of the bytecode file or a buffer.
c_string(p) == {s \in Strings : p = foreign_addr /\ Len(s) = req.len}

\* Bstring registers its argument, a string of the bytecode file.
BSTRING == \E s \in Strings :
  /\ "BSTRING" \in Ops /\ room_to_push
  /\ request("BSTRING", "STRING", Len(s))
  /\ locals' = [Bstring_p |-> foreign_addr]
  /\ extra' = pushed_roots(<< <<"local", "Bstring_p">> >>)
  /\ UNCHANGED <<stack, statics>>

BSTRING_return ==
  /\ pc \in {"alloc", "retry"} /\ req.op = "BSTRING"
  /\ \E s \in c_string(locals.Bstring_p) : return("BSTRING", s, 0)

\* Lstring registers the value it prints, which the interpreter has popped
\* already, and then calls Bstring with its C buffer.
LSTRING == \E s \in Strings :
  /\ "LSTRING" \in Ops /\ has_operands(1)
  /\ request("LSTRING", "STRING", Len(s))
  /\ locals' = [Lstring_p |-> operand(1), Bstring_p |-> foreign_addr]
  /\ extra' = pushed_roots(<< <<"local", "Lstring_p">>, <<"local", "Bstring_p">> >>)
  /\ stack' = popped(1)
  /\ UNCHANGED statics

LSTRING_return ==
  /\ pc \in {"alloc", "retry"} /\ req.op = "LSTRING"
  /\ \E s \in c_string(locals.Bstring_p) : return("LSTRING", s, 0)

Return == \/ BARRAY_return \/ BSEXP_return \/ BCLOSURE_return
          \/ BSTRING_return \/ LSTRING_return

-------------------------------------------------------------------------------

Instruction ==
  \/ CONST \/ DROP \/ DUP \/ LD \/ ST \/ LDA \/ STA_ref \/ STA_captured \/ LWRITE
  \/ LD_C \/ ST_C \/ LDA_C
  \/ ELEM \/ ELEM_fail \/ STA \/ STA_fail \/ LLENGTH \/ LLENGTH_fail
  \/ BINOP \/ LREAD \/ TAG \/ ARRAY \/ PATT \/ PATT_str \/ PATT_str_fail
  \/ BARRAY \/ BSEXP \/ BCLOSURE \/ BSTRING \/ LSTRING

Exited == pc = "failed" /\ UNCHANGED vars

\* init(): every global is the boxed 0, the operand stack is empty.  The static
\* area of the interpreter is the word __start_custom_data, which stays 0.
Init ==
  /\ GcInit
  /\ stack = [i \in 1 .. NG |-> BOX(0)]
  /\ statics = <<0>>
  /\ req = [op |-> "none", type |-> "ARRAY", len |-> 0, size |-> 0]
  /\ cur_id = 0
  /\ dump = no_dump

Next == Instruction \/ Return \/ CollectStep \/ Exited
Spec == Init /\ [][Next]_vars

\* The program is one thread: a call of alloc that can go on does go on.
FairSpec == Spec /\ WF_vars(CollectStep \/ Return)
===============================================================================
