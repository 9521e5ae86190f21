------------------------------- MODULE StringBuf --------------------------------
(***************************************************************************)
(* The string buffer of runtime.c, in which Lstring and Lstringcat build   *)
(* the text of a value.  A text is a sequence of pieces, one for each call *)
(* of printStringBuf; vsnprintf writes a piece as far as there is room,    *)
(* and when there was none the buffer is extended and the piece written    *)
(* once more from its beginning.                                           *)
(***************************************************************************)
EXTENDS Integers, Sequences, SequencesExt

CONSTANT STRINGBUF_INIT \* symbols of a new buffer

ASSUME StringBufAssumption == STRINGBUF_INIT \in Nat \ {0}

VARIABLES
  held,   \* the symbols in the buffer, up to the zero
  ptr,    \* where the next piece goes
  len,    \* size of the buffer
  pieces, \* what is still to be printed
  asked   \* all of the text that has been asked for

bufVars == <<held, ptr, len, pieces, asked>>

createStringBuf == held' = << >> /\ ptr' = 0 /\ len' = STRINGBUF_INIT

\* A call of printStringBuf for each piece, in a new buffer.
Ask(text) == /\ pieces = << >>
             /\ createStringBuf
             /\ pieces' = text /\ asked' = text

rest == len - ptr
written(piece) == SubSeq(held, 1, ptr) \o SubSeq(piece, 1, IF Len(piece) < rest THEN Len(piece) ELSE rest - 1)
does_not_fit_late(piece) == Len(piece) > rest
does_not_fit(piece) == Len(piece) >= rest

\* One round of vprintStringBuf.
VprintStringBuf ==
  /\ pieces # << >>
  /\ LET piece == Head(pieces) IN
       /\ held' = written(piece)
       /\ IF does_not_fit(piece)
          THEN len' = 2 * len /\ UNCHANGED <<ptr, pieces>>
          ELSE ptr' = ptr + Len(piece) /\ pieces' = Tail(pieces) /\ UNCHANGED len
  /\ UNCHANGED asked

StringBufInit == held = << >> /\ ptr = 0 /\ len = STRINGBUF_INIT /\ pieces = << >> /\ asked = << >>

\* The buffer of a program that prints any texts of some symbols.
StringBufSpec(Symbols) ==
  StringBufInit /\ [][(\E text \in Seq(Seq(Symbols)) : Ask(text)) \/ VprintStringBuf]_bufVars
=================================================================================
