------------------------------- MODULE MCBytecode -------------------------------
(* Small files for the three programs that read bytecode. *)
EXTENDS BytecodeTools

\* BINOP and the numbers 0 and 1, CONST, STRING, CLOSURE, STOP
CounterBytes == {0, 1, 16, 17, 84, 240}
\* BINOP + and the numbers 1 and 3, END, CJMPz, CLOSURE, CALLC, CALL, STOP
ControlBytes == {1, 3, 22, 80, 84, 85, 86, 240}
MCByte == CounterBytes \cup ControlBytes

\* The interpreter's files consist of other bytes than those of the counter.
MCInit ==
  /\ \E bytes \in {CounterBytes, ControlBytes} : \E n \in 0 .. MaxCode :
       /\ code \in [1 .. n -> bytes]
       /\ tool \in (IF bytes = ControlBytes THEN {"byterun"} ELSE {"freq_count", "byterun"})
  /\ FileInit
MCSpec == MCInit /\ [][FileNext]_fileVars
===============================================================================
