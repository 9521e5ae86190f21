----------------------------- MODULE RuntimeCalls -----------------------------
(***************************************************************************)
(* The functions of runtime.c that allocate, as a compiled program calls   *)
(* them.  Such a program keeps its values in the static area and on the C  *)
(* stack, which the collector scans from the frame of the runtime function *)
(* that the program has called (PRE_GC) up to __gc_stack_bottom: the       *)
(* arguments of that function, the first of them on top, are scanned.  Its *)
(* C variables and what it hands to the functions it calls are not, unless *)
(* their cells are in the pool of extra roots; they are the locals of this *)
(* module.  The immediate arguments that the compiler adds (the number of  *)
(* members, a code address, the hash of a tag) are left out of the stack.  *)
(*                                                                         *)
(* The program is well typed but for what the runtime checks itself; an    *)
(* integer, which ASSERT_STRING lets pass, is never used as a string.      *)
(***************************************************************************)
EXTENDS HeapClient

CONSTANTS
  FrameWords,  \* words of the caller's frame under the operands
  Statics,     \* words of the static area
  MaxOperands, \* bound: operands on the stack
  MaxLen,      \* bound: members of an object, arguments after a format
  Consts,      \* the integers of the program's constants
  Strings,     \* the texts of literals, C buffers and files, no zero in them
  Argc,        \* possible numbers of arguments of the program
  Calls        \* what the program does

ASSUME CallsAssumption ==
  /\ FrameWords \in Nat /\ Statics \in Nat /\ MaxOperands \in Nat /\ MaxLen \in Nat
  /\ Consts \subseteq Nat /\ Strings \subseteq Seq(Nat \ {0}) /\ Argc \subseteq Nat

\* Enough for global_sysargs and the two cells of any function but Bclosure.
ASSUME ThreeCellsAssumption == MAX_EXTRA_ROOTS_NUMBER >= 3

VARIABLES
  running, \* "start", "set_args" or "program": whose code runs when pc = "run"
  exit     \* why the process has ended, and in which function

callVars == <<clientVars, running, exit>>

raw_word     == CHOOSE b \in Bases : \A c \in Bases : b <= c
foreign_addr == WORD_BYTES
ASSUME ForeignAssumption == \A b \in Bases : b > foreign_addr

-------------------------------------------------------------------------------
(* The program between calls *)

program(op, n) == pc = "run" /\ running = "program" /\ op \in Calls
                  /\ Len(stack) >= FrameWords + n
room_for_result(n) == n > 0 \/ Len(stack) < FrameWords + MaxOperands

moves == UNCHANGED <<heap, mem, locals, extra, pc, req, gc, cur_id, dump, running, exit>>

PUSH == /\ program("PUSH", 0) /\ room_for_result(0)
        /\ \E n \in Consts : stack' = push(stack, BOX(n))
        /\ UNCHANGED statics /\ moves
DROP == /\ program("DROP", 1)
        /\ stack' = popped(1)
        /\ UNCHANGED statics /\ moves
DUP  == /\ program("DUP", 1) /\ room_for_result(0)
        /\ stack' = push(stack, operand(1))
        /\ UNCHANGED statics /\ moves
LOAD == /\ program("LOAD", 0) /\ room_for_result(0)
        /\ \E i \in DOMAIN statics : stack' = push(stack, statics[i])
        /\ UNCHANGED statics /\ moves
STORE == /\ program("STORE", 1)
         /\ \E i \in DOMAIN statics : statics' = [statics EXCEPT ![i] = operand(1)]
         /\ stack' = popped(1) /\ moves

-------------------------------------------------------------------------------
(* Calls *)

arg(k)        == operand(k)
arg_cell(k)   == <<"stack", Len(stack) + 1 - k>>
local_cell(x) == <<"local", x>>

\* The C variables ls come into being.
with_locals(ls) == [x \in DOMAIN locals \cup DOMAIN ls |->
                      IF x \in DOMAIN ls THEN ls[x] ELSE locals[x]]
\* The C variables of the functions that return are gone.
kept_locals == [x \in DOMAIN locals \cap {"global_sysargs"} |-> locals[x]]

\* The process ends: failure(), or one of the errors of the pool.
stop(f, why) == failure /\ exit' = [why |-> why, in |-> f] /\ UNCHANGED running

\* A call up to alloc: the function and those it calls register the cells.
enter(f, type, len, cells, ls) ==
  IF pool_overflow(cells) THEN stop(f, "pool overflow")
  ELSE /\ request(f, type, len)
       /\ extra' = pushed_roots(cells)
       /\ locals' = with_locals(ls)
       /\ UNCHANGED <<stack, statics, running, exit>>

\* The rest of it: the new object o, the cells popped in their order, the n
\* arguments gone and the address of the object in their place.
leave_with(f, o, pops, new_stack, new_locals) ==
  /\ pc \in {"alloc", "retry"} /\ req.op = f
  /\ has_room(req.size)
  /\ IF ~pops_match(pops) THEN stop(f, "pool mismatch")
     ELSE /\ place_object(o)
          /\ dump' = no_dump
          /\ stack' = new_stack
          /\ extra' = popped_roots(pops)
          /\ locals' = new_locals
          /\ UNCHANGED <<statics, req, cur_id, running, exit>>
leave(f, o, n, pops) == leave_with(f, o, pops, push(popped(n), new_address), kept_locals)

\* A call that returns a value without allocating.
returns(v, n) == stack' = push(popped(n), v) /\ UNCHANGED statics /\ moves

is_string(p) == is_object(p) /\ object_at(p).type = "STRING"
\* ASSERT_STRING and ASSERT_UNBOXED stop the program.
no_string(p) == is_object(p) /\ ~is_string(p)

\* strncpy to a buffer of zeros stops at the first zero of its source.
strncpy(s, n) == [i \in 1 .. n |-> IF i <= Len(c_text(s)) THEN s[i] ELSE 0]

-------------------------------------------------------------------------------
(* Arrays, s-expressions, closures *)

\* The members of a new object are the first n arguments.
members_reversed(n) == [k \in 1 .. n |-> arg(n + 1 - k)]
members(n) == [k \in 1 .. n |-> arg(k)]

LmakeArray == /\ program("LmakeArray", 1)
              /\ UNBOXED(arg(1)) /\ UNBOX(arg(1)) <= MaxLen
              /\ enter("LmakeArray", "ARRAY", UNBOX(arg(1)), << >>, << >>)
LmakeArray_return ==
  leave("LmakeArray", new_object([i \in 1 .. req.len |-> BOX(0)]), 1, << >>)
LmakeArray_fail == program("LmakeArray", 1) /\ ~UNBOXED(arg(1)) /\ stop("LmakeArray", "failure")

Barray == \E n \in 0 .. MaxLen : /\ program("Barray", n) /\ room_for_result(n)
                                 /\ enter("Barray", "ARRAY", n, << >>, << >>)
Barray_return == leave("Barray", new_object(members(req.len)), req.len, << >>)

Bsexp == \E n \in 0 .. MaxLen : /\ program("Bsexp", n) /\ room_for_result(n)
                                /\ enter("Bsexp", "SEXP", n, << >>, << >>)
Bsexp_return ==
  leave("Bsexp", new_object(<<raw_word>> \o members(req.len)), req.len, << >>)

\* Bclosure registers as many cells as it has captured words, but from ebp + 48
\* on, eight words above the first of them.
captured_cell(k)        == <<"stack", Len(stack) + 1 - k - 8>>
captured_cells(n)       == [k \in 1 .. n |-> captured_cell(k)]
captured_cells_popped(n) == [k \in 1 .. n |-> captured_cell(n + 1 - k)]

Bclosure == \E n \in 0 .. MaxLen :
  /\ program("Bclosure", n) /\ room_for_result(n) /\ Len(stack) >= n + 8
  /\ enter("Bclosure", "CLOSURE", n + 1, captured_cells(n), << >>)

\* It registers its own result last, when the object has been allocated.
Bclosure_overflow == /\ pc \in {"alloc", "retry"} /\ req.op = "Bclosure"
                     /\ has_room(req.size)
                     /\ pool_overflow(<<local_cell("Bclosure_r")>>)
                     /\ stop("Bclosure", "pool overflow")
Bclosure_return ==
  LET n == req.len - 1 IN
    /\ ~pool_overflow(<<local_cell("Bclosure_r")>>)
    /\ leave("Bclosure", new_object(<<raw_word>> \o members(n)), n, captured_cells_popped(n))

\* Ls__Infix_58 registers its arguments but hands copies of them to Bsexp.
Ls__Infix_58 == /\ program("Ls__Infix_58", 2)
                /\ enter("Ls__Infix_58", "SEXP", 2, <<arg_cell(1), arg_cell(2)>>,
                         [Bsexp_p |-> arg(1), Bsexp_q |-> arg(2)])
Ls__Infix_58_return ==
  leave("Ls__Infix_58", new_object(<<raw_word, locals.Bsexp_p, locals.Bsexp_q>>), 2,
        <<arg_cell(2), arg_cell(1)>>)

-------------------------------------------------------------------------------
(* Lclone *)

\* The copies of arrays, s-expressions and closures are made with memcpy, the
\* two words of the header included; the number id of the model is fresh.
memcpy(p) == [object_at(p) EXCEPT !.id = cur_id]

Lclone == /\ program("Lclone", 1) /\ is_object(arg(1)) /\ ~is_string(arg(1))
          /\ enter("Lclone", object_at(arg(1)).type, object_at(arg(1)).len,
                   <<arg_cell(1)>>, << >>)
Lclone_return == leave("Lclone", memcpy(arg(1)), 1, <<arg_cell(1)>>)

\* A string goes through Bstring, up to its first zero.
Lclone_string ==
  /\ program("Lclone", 1) /\ is_string(arg(1))
  /\ enter("Lclone_string", "STRING", Len(c_text(object_at(arg(1)).words)),
           <<arg_cell(1), local_cell("Bstring_p")>>, [Bstring_p |-> arg(1)])
Lclone_string_return ==
  leave("Lclone_string", new_object(strncpy(object_at(locals.Bstring_p).words, req.len)), 1,
        <<local_cell("Bstring_p"), arg_cell(1)>>)

Lclone_unboxed == program("Lclone", 1) /\ UNBOXED(arg(1)) /\ returns(arg(1), 1)

-------------------------------------------------------------------------------
(* Strings *)

LmakeString == /\ program("LmakeString", 1)
               /\ UNBOXED(arg(1)) /\ UNBOX(arg(1)) <= MaxLen
               /\ enter("LmakeString", "STRING", UNBOX(arg(1)), << >>, << >>)
LmakeString_return ==
  leave("LmakeString", new_object([i \in 1 .. req.len |-> 0]), 1, << >>)
LmakeString_fail == program("LmakeString", 1) /\ ~UNBOXED(arg(1)) /\ stop("LmakeString", "failure")

\* Concatenation; lengths and characters are read again after the allocation.
Li__Infix_4343 ==
  /\ program("Li__Infix_4343", 2) /\ is_string(arg(1)) /\ is_string(arg(2))
  /\ enter("Li__Infix_4343", "STRING", object_at(arg(1)).len + object_at(arg(2)).len,
           <<arg_cell(1), arg_cell(2)>>, << >>)
pops_in_push_order == <<arg_cell(1), arg_cell(2)>>
pops_of_4343 == <<arg_cell(2), arg_cell(1)>>
Li__Infix_4343_return ==
  LET da == object_at(arg(1))
      db == object_at(arg(2))
  IN  leave("Li__Infix_4343",
            new_object(strncpy(da.words, da.len) \o strncpy(db.words, db.len)), 2,
            pops_of_4343)
Li__Infix_4343_fail == /\ program("Li__Infix_4343", 2)
                       /\ no_string(arg(1)) \/ no_string(arg(2))
                       /\ stop("Li__Infix_4343", "failure")

Lsubstring ==
  LET pp == UNBOX(arg(2))
      ll == UNBOX(arg(3))
  IN  /\ program("Lsubstring", 3)
      /\ is_string(arg(1)) /\ UNBOXED(arg(2)) /\ UNBOXED(arg(3))
      /\ pp + ll <= object_at(arg(1)).len
      /\ enter("Lsubstring", "STRING", ll, <<arg_cell(1)>>, << >>)
substring_from_start(o, p, n) == strncpy(o.words, n)
substring(o, p, n) == strncpy(SubSeq(o.words, p + 1, o.len), n)
Lsubstring_return ==
  leave("Lsubstring", new_object(substring(object_at(arg(1)), UNBOX(arg(2)), req.len)), 3,
        <<arg_cell(1)>>)
Lsubstring_fail ==
  /\ program("Lsubstring", 3)
  /\ \/ no_string(arg(1)) \/ ~UNBOXED(arg(2)) \/ ~UNBOXED(arg(3))
     \/ /\ is_string(arg(1)) /\ UNBOXED(arg(2)) /\ UNBOXED(arg(3))
        /\ UNBOX(arg(2)) + UNBOX(arg(3)) > object_at(arg(1)).len
  /\ stop("Lsubstring", "failure")

\* Functions that print into a C buffer and make a string of it with Bstring,
\* which registers its argument, the buffer.  What is printed is any text, or
\* nothing.
Texts == Strings \cup {<< >>}
bstring(f, s, cells, ls) ==
  enter(f, "STRING", Len(s), cells \o <<local_cell("Bstring_p")>>,
        [x \in DOMAIN ls \cup {"Bstring_p"} |-> IF x = "Bstring_p" THEN foreign_addr ELSE ls[x]])
bstring_leave(f, n, pops) ==
  /\ pc \in {"alloc", "retry"} /\ req.op = f
  /\ \E s \in Texts : /\ locals.Bstring_p = foreign_addr /\ Len(s) = req.len
                      /\ leave(f, new_object(s), n, <<local_cell("Bstring_p")>> \o pops)

\* A literal of the program, or an environment variable, or a line of input:
\* nothing else is registered.
Bstring == /\ program("Bstring", 0) /\ room_for_result(0)
           /\ \E s \in Strings : bstring("Bstring", s, << >>, << >>)
Bstring_return == bstring_leave("Bstring", 0, << >>)

LgetEnv == /\ program("LgetEnv", 1) /\ is_string(arg(1))
           /\ \/ \E s \in Strings : bstring("LgetEnv", s, << >>, << >>)
              \/ returns(BOX(0), 1)
LgetEnv_return == bstring_leave("LgetEnv", 1, << >>)

LreadLine == /\ program("LreadLine", 0) /\ room_for_result(0)
             /\ \/ \E s \in Strings \ {<< >>} : bstring("LreadLine", s, << >>, << >>)
                \/ returns(BOX(0), 0)
                \/ stop("LreadLine", "failure")
LreadLine_return == bstring_leave("LreadLine", 0, << >>)

\* Lstring and Lstringcat register the value that they have printed.
Lstring == /\ program("Lstring", 1)
           /\ \E s \in Strings : bstring("Lstring", s, <<arg_cell(1)>>, << >>)
Lstring_return == bstring_leave("Lstring", 1, <<arg_cell(1)>>)

\* stringcat prints nothing for an integer; for an object, its text, those of a
\* list, or a message about its type.
stringcat(p) == IF UNBOXED(p) THEN {<< >>} ELSE Texts
Lstringcat == /\ program("Lstringcat", 1)
              /\ UNBOXED(arg(1)) \/ is_object(arg(1))
              /\ \E s \in stringcat(arg(1)) : bstring("Lstringcat", s, <<arg_cell(1)>>, << >>)
Lstringcat_return == bstring_leave("Lstringcat", 1, <<arg_cell(1)>>)

\* fix_unboxed rewrites the integers among the n arguments after the format,
\* where they lie on the stack, to what printf wants.
fix_unboxed(n) == [i \in DOMAIN stack |->
                     IF Len(stack) + 1 - i \in 2 .. n + 1 /\ UNBOXED(stack[i])
                     THEN UNBOX(stack[i]) ELSE stack[i]]

Lsprintf == \E n \in 0 .. MaxLen : \E s \in Strings :
  LET cells == <<arg_cell(1), local_cell("Bstring_p")>> IN
  /\ program("Lsprintf", n + 1) /\ is_string(arg(1))
  /\ IF pool_overflow(cells) THEN stop("Lsprintf", "pool overflow")
     ELSE /\ request("Lsprintf", "STRING", Len(s))
          /\ stack' = fix_unboxed(n)
          /\ extra' = pushed_roots(cells)
          /\ locals' = with_locals([Bstring_p |-> foreign_addr, Lsprintf_n |-> n])
          /\ UNCHANGED <<statics, running, exit>>
Lsprintf_return ==
  bstring_leave("Lsprintf", locals.Lsprintf_n + 1, <<arg_cell(1)>>)
Lsprintf_fail == program("Lsprintf", 1) /\ no_string(arg(1)) /\ stop("Lsprintf", "failure")

\* The string of Lfread is allocated before the file is read, and the read may
\* be short.
Lfread == /\ program("Lfread", 1) /\ is_string(arg(1))
          /\ \/ \E s \in Strings : enter("Lfread", "STRING", Len(s), << >>, << >>)
             \/ stop("Lfread", "failure")
Lfread_return ==
  /\ pc \in {"alloc", "retry"} /\ req.op = "Lfread"
  /\ \/ \E s \in Strings : Len(s) = req.len /\ leave("Lfread", new_object(s), 1, << >>)
     \/ has_room(req.size) /\ stop("Lfread", "failure")
Lfread_fail == program("Lfread", 1) /\ no_string(arg(1)) /\ stop("Lfread", "failure")

-------------------------------------------------------------------------------
(* set_args, which runs before the program *)

set_args_roots == <<local_cell("set_args_p")>>

set_args == \E argc \in Argc :
  /\ pc = "run" /\ running = "start"
  /\ request("set_args", "ARRAY", argc)
  /\ running' = "set_args"
  /\ UNCHANGED <<stack, statics, locals, extra, exit>>

\* LmakeArray has returned: the array goes to p, whose cell is registered.
set_args_array ==
  /\ allocated("set_args", [i \in 1 .. req.len |-> BOX(0)])
  /\ locals' = [set_args_n |-> req.len, set_args_i |-> 0, set_args_p |-> new_address]
  /\ extra' = pushed_roots(set_args_roots)
  /\ UNCHANGED <<stack, statics, req, cur_id, running, exit>>

\* The loop calls Bstring(argv[i]) and then stores the result through p.
in_loop == pc = "run" /\ running = "set_args"
returned(x) == x \in DOMAIN locals

set_args_bstring ==
  /\ in_loop /\ locals.set_args_i < locals.set_args_n /\ ~returned("Bstring_s")
  /\ \E s \in Strings : bstring("set_args_bstring", s, << >>, << >>)
set_args_bstring_return ==
  /\ pc \in {"alloc", "retry"} /\ req.op = "set_args_bstring"
  /\ \E s \in Strings :
       /\ Len(s) = req.len
       /\ leave_with("set_args_bstring", new_object(s), <<local_cell("Bstring_p")>>, stack,
                     [x \in (DOMAIN locals \ {"Bstring_p"}) \cup {"Bstring_s"} |->
                        IF x = "Bstring_s" THEN new_address ELSE locals[x]])

set_args_store ==
  /\ in_loop /\ returned("Bstring_s")
  /\ mem' = [mem EXCEPT ![TO_DATA(locals.set_args_p)].words[locals.set_args_i + 1] =
                           locals.Bstring_s]
  /\ locals' = [x \in DOMAIN locals \ {"Bstring_s"} |->
                  IF x = "set_args_i" THEN locals[x] + 1 ELSE locals[x]]
  /\ UNCHANGED <<heap, stack, statics, extra, pc, req, gc, cur_id, dump, running, exit>>

\* global_sysargs takes the array and stays registered for ever.
set_args_done ==
  /\ in_loop /\ locals.set_args_i = locals.set_args_n /\ ~returned("Bstring_s")
  /\ IF ~pops_match(set_args_roots) THEN stop("set_args", "pool mismatch")
     ELSE /\ locals' = [global_sysargs |-> locals.set_args_p]
          /\ extra' = Append(popped_roots(set_args_roots), local_cell("global_sysargs"))
          /\ running' = "program"
          /\ UNCHANGED <<heap, mem, stack, statics, pc, req, gc, cur_id, dump, exit>>

-------------------------------------------------------------------------------

Program == PUSH \/ DROP \/ DUP \/ LOAD \/ STORE

Enter ==
  \/ LmakeArray \/ LmakeArray_fail \/ Barray \/ Bsexp \/ Bclosure \/ Ls__Infix_58
  \/ Lclone \/ Lclone_string \/ Lclone_unboxed \/ LmakeString \/ LmakeString_fail
  \/ Li__Infix_4343 \/ Li__Infix_4343_fail \/ Lsubstring \/ Lsubstring_fail
  \/ Bstring \/ LgetEnv \/ LreadLine \/ Lstring \/ Lstringcat
  \/ Lsprintf \/ Lsprintf_fail \/ Lfread \/ Lfread_fail

Leave ==
  \/ LmakeArray_return \/ Barray_return \/ Bsexp_return \/ Bclosure_return
  \/ Bclosure_overflow \/ Ls__Infix_58_return \/ Lclone_return \/ Lclone_string_return
  \/ LmakeString_return \/ Li__Infix_4343_return \/ Lsubstring_return \/ Bstring_return
  \/ LgetEnv_return \/ LreadLine_return \/ Lstring_return \/ Lstringcat_return
  \/ Lsprintf_return \/ Lfread_return

SetArgs == set_args \/ set_args_array \/ set_args_bstring \/ set_args_bstring_return
           \/ set_args_store \/ set_args_done

Exited == pc = "failed" /\ UNCHANGED callVars

\* The runtime calls set_args before the program; every static is the boxed 0.
RuntimeInit ==
  /\ GcInit
  /\ stack = [i \in 1 .. FrameWords |-> 0]
  /\ statics = [i \in 1 .. Statics |-> BOX(0)]
  /\ req = [op |-> "none", type |-> "ARRAY", len |-> 0, size |-> 0]
  /\ cur_id = 0 /\ dump = no_dump
  /\ running = "start" /\ exit = [why |-> "none", in |-> "none"]

Calling == Enter \/ Leave \/ SetArgs \/ (CollectStep /\ UNCHANGED <<running, exit>>)
RuntimeNext == Program \/ Calling \/ Exited
RuntimeSpec == RuntimeInit /\ [][RuntimeNext]_callVars

\* One thread: a call that can go on does go on.
FairRuntimeSpec ==
  RuntimeSpec /\ WF_callVars(Leave \/ SetArgs \/ (CollectStep /\ UNCHANGED <<running, exit>>))
===============================================================================
