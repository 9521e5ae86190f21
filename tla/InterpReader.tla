------------------------------ MODULE InterpReader ------------------------------
(***************************************************************************)
(* How the iterative interpreter reads its bytecode: next_byte, next_int   *)
(* and update_ip of iterinter.c with their bounds, the operands that each  *)
(* handler reads, and where each of them takes ip.                         *)
(*                                                                         *)
(* A step is one round of the loop of interpret.  Values are left out:     *)
(* conditions go either way, any closure that was made may be called, and  *)
(* any instruction may stop the program because of its operands.  A call   *)
(* enters one function and END leaves one (module CallStack says why).     *)
(***************************************************************************)
EXTENDS Bytecode

CONSTANT MaxReturns  \* bound: depth of calls, where the call stack overflows
ASSUME MaxReturnsAssumption == MaxReturns \in Nat

VARIABLES
  interp_ip,
  returns,  \* the return addresses on the call stack
  labels,   \* the code offsets in the closures that were made
  interp_status \* "off", "run", "stopped", "failed", or "out_of_area"

interpVars == <<interp_ip, returns, labels, interp_status>>

-------------------------------------------------------------------------------
(* What the handlers read *)

\* The handlers that go on behind their operands, by the number of integers;
\* in a binop the operator code is l - 1, a pattern has no check of its own.
straight_0 == ({0} \X (1 .. 13)) \cup ({1} \X {4, 8, 9, 11}) \cup ({6} \X Nibble)
                \cup ({7} \X (0 .. 3))
straight_1 == {<<1, 0>>, <<1, 1>>, <<5, 8>>, <<5, 10>>, <<7, 4>>} \cup ({2, 3, 4} \X (0 .. 3))
straight_2 == {<<1, 2>>, <<5, 2>>, <<5, 3>>, <<5, 7>>}
straight   == straight_0 \cup straight_1 \cup straight_2
get_string_handlers == {<<1, 1>>, <<1, 2>>, <<5, 7>>}
get_addr_handlers == {2, 3, 4} \X Nibble
JMP   == <<1, 5>>
CJMP  == {<<5, 0>>, <<5, 1>>}
CALLC == <<5, 5>>
CALL  == <<5, 6>>
END   == <<1, 6>>
FAILS == <<5, 9>>

\* ip behind the operands of the instruction at p.  FAIL reads its column as a
\* byte; ld, lda and st read an index before the place, which may be none; what
\* has no handler reads nothing.
behind(p) ==
  CASE opcode(p) \in straight_1 \cup get_addr_handlers \cup CJMP \cup {JMP, CALLC} -> p + 1 + SIZEOF_INT
    [] opcode(p) \in straight_2 \cup {CALL} -> p + 1 + 2 * SIZEOF_INT
    [] opcode(p) = FAILS   -> p + 2 + SIZEOF_INT
    [] opcode(p) = closure -> capture(p, n_captured(p) + 1)
    [] OTHER -> p + 1

\* next_byte and next_int assert that ip stays in front of eof behind what they
\* read: the last byte of the file is never read.
in_area_late(p) == 1 <= p /\ p <= eof
in_area(p) == 1 <= p /\ p < eof
can_fetch_early(p) == /\ p + 2 < eof
                      /\ opcode(p) = closure => p + 1 + 2 * SIZEOF_INT < eof
                      /\ behind(p) < eof
can_fetch(p) == /\ p + 1 < eof
                /\ opcode(p) = closure => p + 1 + 2 * SIZEOF_INT < eof
                /\ behind(p) < eof

label(p) == 1 + signed(int_bytes(p + 1))

\* Checks of the operands themselves: a string that is not in the table, or a
\* variable without a place, stops the program before anything behind it is read.
no_string(p) == /\ opcode(p) \in get_string_handlers /\ p + 1 + SIZEOF_INT < eof
                /\ unsigned(int_bytes(p + 1)) >= stringtab_size
no_addr(p)   == /\ opcode(p) = closure /\ p + 1 + 2 * SIZEOF_INT < eof
                /\ \E i \in 1 .. n_captured(p) :
                     capture(p, i) + 1 < eof /\ code[capture(p, i)] \notin 0 .. 3
rejected(p)  == no_string(p) \/ no_addr(p)

-------------------------------------------------------------------------------

running == interp_status = "run" /\ UNCHANGED code
handles(ops) == /\ running /\ can_fetch(interp_ip) /\ ~rejected(interp_ip)
                /\ opcode(interp_ip) \in ops

stops(why) == interp_status' = why /\ UNCHANGED <<interp_ip, returns, labels>>

\* update_ip
update_ip(p) == IF in_area(p)
                THEN interp_ip' = p /\ UNCHANGED <<labels, interp_status>>
                ELSE UNCHANGED <<interp_ip, labels>> /\ interp_status' = "out_of_area"

Straight == /\ handles(straight)
            /\ interp_ip' = behind(interp_ip)
            /\ UNCHANGED <<returns, labels, interp_status>>

Jump == /\ handles({JMP} \cup CJMP)
        /\ update_ip(label(interp_ip))
        /\ UNCHANGED returns

NoJump == /\ handles(CJMP)
          /\ interp_ip' = behind(interp_ip)
          /\ UNCHANGED <<returns, labels, interp_status>>

MakeClosure == /\ handles({closure})
               /\ labels' = labels \cup {label(interp_ip)}
               /\ interp_ip' = behind(interp_ip)
               /\ UNCHANGED <<returns, interp_status>>

\* The return address is the place behind the operands of the call.
push_call_early(p) == returns' = Append(returns, p + 1)
push_call(p) == returns' = Append(returns, behind(p))
Call == /\ handles({CALL}) /\ Len(returns) < MaxReturns
        /\ push_call(interp_ip)
        /\ update_ip(label(interp_ip))
CallClosure == /\ handles({CALLC}) /\ Len(returns) < MaxReturns
               /\ push_call(interp_ip)
               /\ \E l \in labels : update_ip(l)

\* END sets ip without a check.
Return == /\ handles({END}) /\ returns # << >>
          /\ interp_ip' = returns[Len(returns)]
          /\ returns' = SubSeq(returns, 1, Len(returns) - 1)
          /\ UNCHANGED <<labels, interp_status>>

Stopped == /\ handles({END} \cup ({15} \X Nibble))
           /\ opcode(interp_ip) = END => returns = << >>
           /\ stops("stopped")

\* A handler calls failure(), for whatever reason of its own, or there is none.
Fails == running /\ interp_ip + 1 < eof /\ stops("failed")

\* An assertion of next_byte or next_int fails.
ReadsPastEnd == /\ running /\ ~can_fetch(interp_ip) /\ ~rejected(interp_ip)
                /\ stops("out_of_area")

InterpInit == interp_ip = 1 /\ returns = << >> /\ labels = {} /\ interp_status = "off"
Interpret == \/ Straight \/ Jump \/ NoJump \/ MakeClosure \/ Call \/ CallClosure
             \/ Return \/ Stopped \/ Fails \/ ReadsPastEnd
===============================================================================
