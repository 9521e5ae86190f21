-------------------------------- MODULE Bytecode --------------------------------
(***************************************************************************)
(* The code of a bytecode file, which three programs of this repository    *)
(* read: the frequency counter, the disassembler byterun and the iterative *)
(* interpreter.  An instruction is a byte whose halves are its opcode,     *)
(* followed by integers; a closure is followed by a byte and an integer    *)
(* for each variable it captures.                                          *)
(*                                                                         *)
(* The code is a sequence of bytes, the positions in it stand for          *)
(* addresses.  Each program has a switch of its own; what is here is how   *)
(* bytes make opcodes and numbers, which is the same in the three of them. *)
(***************************************************************************)
EXTENDS Integers, Sequences, FiniteSets

CONSTANTS
  Byte,          \* the bytes that occur in the code
  MaxCode,       \* bound: bytes of code
  SIZEOF_INT,    \* bytes of an integer
  stringtab_size

ASSUME CodeAssumption ==
  /\ Byte \subseteq 0 .. 255 /\ MaxCode \in Nat
  /\ SIZEOF_INT \in Nat \ {0} /\ stringtab_size \in Nat

VARIABLE code    \* the bytes from code_ptr to eof

eof == Len(code) + 1

Nibble == 0 .. 15
opcode(p) == <<code[p] \div 16, code[p] % 16>>
closure == <<5, 4>>

\* Bytes to a little-endian two's complement number.
power256[i \in Nat] == IF i = 0 THEN 1 ELSE 256 * power256[i - 1]
unsigned(bytes) ==
  LET up_to[i \in 0 .. SIZEOF_INT] ==
        IF i = 0 THEN 0 ELSE up_to[i - 1] + bytes[i] * power256[i - 1]
  IN  up_to[SIZEOF_INT]
signed(bytes) == LET u == unsigned(bytes) IN
                 IF 2 * u < power256[SIZEOF_INT] THEN u ELSE u - power256[SIZEOF_INT]
int_bytes(p) == [i \in 1 .. SIZEOF_INT |-> code[p + i - 1]]

\* The variables a closure captures: the loop runs while i < n, n is signed.
capture_size == 1 + SIZEOF_INT
n_captured(p) == LET n == signed(int_bytes(p + 1 + SIZEOF_INT)) IN IF n \in Nat THEN n ELSE 0
capture(p, i) == p + 1 + 2 * SIZEOF_INT + (i - 1) * capture_size
===============================================================================
