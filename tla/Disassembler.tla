------------------------------ MODULE Disassembler ------------------------------
(***************************************************************************)
(* The disassembler of bytecode files, byterun.c.  It prints a line for    *)
(* each instruction from the first byte on until it meets STOP, and checks *)
(* neither the end of the file nor an index into its tables of names or    *)
(* into the string table: what it reads outside of them is not defined.    *)
(*                                                                         *)
(* A step is one round of the loop of disassemble.                         *)
(***************************************************************************)
EXTENDS Bytecode

VARIABLES
  dis_ip,    \* ip of disassemble
  lines,     \* the positions of the instructions printed
  dis_status \* "reading", "ended", "failed", or "outside" of the file or a table

disassemblerVars == <<dis_ip, lines, dis_status>>

\* The cases of the switch by the number of INTs in them.
no_INT  == ({0, 6} \X Nibble) \cup ({1} \X ({3, 4} \cup 6 .. 11)) \cup ({7} \X (0 .. 3))
one_INT == {<<1, 0>>, <<1, 1>>, <<1, 5>>, <<7, 4>>} \cup ({2, 3, 4} \X (0 .. 3))
             \cup ({5} \X {0, 1, 5, 8, 10})
two_INT == {<<1, 2>>} \cup ({5} \X {2, 3, 6, 7, 9})
STRING_cases == {<<1, 1>>, <<1, 2>>, <<5, 7>>}
stop_case(p) == opcode(p)[1] = 15

\* The position behind the instruction at p.
line_end(p) ==
  CASE opcode(p) \in no_INT  -> p + 1
    [] opcode(p) \in one_INT -> p + 1 + SIZEOF_INT
    [] opcode(p) \in two_INT -> p + 1 + 2 * SIZEOF_INT
    [] opcode(p) = closure   -> capture(p, n_captured(p) + 1)

\* FAIL: no case for the opcode, or for the place of a captured variable.
no_place(p) == /\ p + 2 * SIZEOF_INT < eof
               /\ \E i \in 1 .. n_captured(p) :
                    capture(p, i) < eof /\ code[capture(p, i)] \notin 0 .. 3
no_case(p) == \/ opcode(p) \notin no_INT \cup one_INT \cup two_INT \cup {closure}
              \/ opcode(p) = closure /\ no_place(p)

\* Every byte that is read belongs to the file, every name to its table; the
\* index of a string, an int, is not negative when it is small as a number.
bytes_inside(p) == /\ opcode(p) = closure => p + 2 * SIZEOF_INT < eof
                   /\ line_end(p) <= eof
names_inside(p) ==
  /\ opcode(p)[1] = 0 => opcode(p)[2] \in 1 .. 13                 \* ops[l-1]
  /\ opcode(p)[1] = 6 => opcode(p)[2] \in 0 .. 6                  \* pats[l]
  /\ opcode(p) \in STRING_cases => unsigned(int_bytes(p + 1)) < stringtab_size
printable(p) == ~no_case(p) /\ bytes_inside(p) /\ names_inside(p)

reading == dis_status = "reading" /\ UNCHANGED code
at_case == reading /\ dis_ip < eof /\ ~stop_case(dis_ip)

PrintLine == /\ at_case /\ printable(dis_ip)
             /\ lines' = Append(lines, dis_ip)
             /\ dis_ip' = line_end(dis_ip)
             /\ UNCHANGED dis_status

ReadStop == /\ reading /\ dis_ip < eof /\ stop_case(dis_ip)
            /\ dis_status' = "ended"
            /\ UNCHANGED <<dis_ip, lines>>

FAIL == /\ at_case /\ no_case(dis_ip)
        /\ dis_status' = "failed"
        /\ UNCHANGED <<dis_ip, lines>>

\* Undefined behaviour: bytes behind the file, or what lies around a table.
is_outside(p) == p < eof => ~stop_case(p) /\ ~no_case(p) /\ ~printable(p)
ReadOutside == /\ reading /\ is_outside(dis_ip)
               /\ dis_status' = "outside"
               /\ UNCHANGED <<dis_ip, lines>>

DisassemblerInit == dis_ip = 1 /\ lines = << >> /\ dis_status = "reading"
Disassemble == PrintLine \/ ReadStop \/ FAIL \/ ReadOutside
===============================================================================
