------------------------------ MODULE BytecodeTools ------------------------------
(***************************************************************************)
(* The three programs that read a bytecode file, on the same file: the     *)
(* frequency counter alone, or the disassembler and, if it comes to the    *)
(* end, the interpreter.                                                   *)
(***************************************************************************)
EXTENDS FreqCount, Disassembler, InterpReader

VARIABLE tool  \* the program that is run: "freq_count", "byterun" or "iterinter"

counterVars == <<ip, codes, printed, status>>
fileVars == <<code, counterVars, disassemblerVars, interpVars, tool>>

Count == /\ tool = "freq_count"
         /\ Next
         /\ UNCHANGED <<disassemblerVars, interpVars, tool>>
Byterun == /\ tool = "byterun"
         /\ Disassemble
         /\ UNCHANGED <<counterVars, interpVars, tool>>
Start == /\ tool = "byterun" /\ dis_status = "ended"
         /\ tool' = "iterinter" /\ interp_status' = "run"
         /\ UNCHANGED <<code, counterVars, disassemblerVars, interp_ip, returns, labels>>
Run   == /\ tool = "iterinter"
         /\ Interpret
         /\ UNCHANGED <<counterVars, disassemblerVars, tool>>
Over  == /\ dis_status \in {"failed", "outside"} \/ interp_status \notin {"off", "run"}
         /\ UNCHANGED fileVars

FileInit == /\ Init /\ DisassemblerInit /\ InterpInit
            /\ tool \in {"freq_count", "byterun"}
FileNext == Count \/ Byterun \/ Start \/ Run \/ Over
FileSpec == FileInit /\ [][FileNext]_fileVars

-------------------------------------------------------------------------------
(* Properties *)

\* Every variable of the two readers has its type; ip of the interpreter, which
\* END sets without the check of update_ip, stays inside the bytecode area.
ReadersTypeOK ==
  /\ dis_ip \in Nat \ {0} /\ lines \in Seq(1 .. eof - 1)
  /\ dis_status \in {"reading", "ended", "failed", "outside"}
  /\ dis_ip <= eof
  /\ interp_status \in {"off", "run", "stopped", "failed", "out_of_area"}
  /\ interp_status # "off" => interp_ip \in 1 .. eof - 1
  /\ returns \in Seq(1 .. eof - 1) /\ Len(returns) <= MaxReturns

\* Where the instructions of a file that byterun has disassembled begin, and
\* the STOP at its end.
line_starts == {lines[i] : i \in DOMAIN lines}
next_line(i) == IF i = Len(lines) THEN dis_ip ELSE lines[i + 1]
places_of_code == line_starts \cup {dis_ip}

\* The frequency counter reads exactly the instructions that the disassembler
\* prints, though each of them checks other things; and what stops the one, in
\* front of the end of the file, stops the other, but for an operator or a
\* pattern without a name.
SameInstructions ==
  /\ \A i \in DOMAIN lines :
       /\ insn_end(lines[i]) = next_line(i)
       /\ dis_status = "ended" => can_read(lines[i])
  /\ dis_status \in {"failed", "outside"} /\ dis_ip < eof =>
       ~can_read(dis_ip) \/ ~has_name(dis_ip)

\* The labels in the code are instructions, as those the compiler writes are.
has_label(p) == opcode(p) \in {JMP, CALL, closure} \cup CJMP
linked == \A p \in line_starts : has_label(p) => label(p) \in places_of_code

\* Wherever jumps, calls, closures and returns take it, the interpreter only
\* executes the instructions that the disassembler prints: no handler reads
\* fewer or more operands than there are, or takes an operand for an opcode.
StaysOnInstructions ==
  linked /\ interp_status = "run" =>
    /\ interp_ip \in places_of_code
    /\ \A i \in DOMAIN returns : returns[i] \in places_of_code
    /\ labels \subseteq places_of_code

\* The strict bounds of next_byte and next_int reject nothing in such a file
\* but the STOP that is its last byte.
RunsWhatIsPrinted ==
  linked /\ interp_status = "out_of_area" => interp_ip = dis_ip /\ dis_ip = eof - 1
===============================================================================
