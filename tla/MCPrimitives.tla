------------------------------ MODULE MCPrimitives ------------------------------
(* A small heap, and words of six bits, for the primitives. *)
EXTENDS PrimitiveCalls

string(text)      == [type |-> "STRING", text |-> text, code |-> 0, name |-> << >>, members |-> << >>]
array(ms)         == [type |-> "ARRAY", text |-> << >>, code |-> 0, name |-> << >>, members |-> ms]
closure(code, ms) == [type |-> "CLOSURE", text |-> << >>, code |-> code, name |-> << >>, members |-> ms]
sexp(name, ms)    == [type |-> "SEXP", text |-> << >>, code |-> 0, name |-> name, members |-> ms]
MCCons == <<3, 1>>

\* Equal values at different addresses, and values that differ at one place;
\* a string with a zero, and tags with the same first characters.
MCHeap ==
  8 :> string(<<97>>) @@ 10 :> string(<<97>>) @@ 12 :> string(<<97, 98>>) @@ 14 :> string(<<97, 0>>)
  @@ 16 :> array(<<3>>) @@ 18 :> array(<<3>>) @@ 20 :> array(<<8, 16>>) @@ 22 :> array(<<10, 18>>)
  @@ 24 :> sexp(<<1, 2, 1>>, <<3, 5>>) @@ 26 :> sexp(<<1, 2, 2>>, <<3, 5>>)
  @@ 28 :> sexp(<<1>>, <<3, 8>>) @@ 30 :> sexp(<<2>>, << >>) @@ 32 :> sexp(<<1, 2>>, <<3, 7>>)
  @@ 34 :> closure(4, <<3>>) @@ 36 :> closure(4, <<3, 3>>) @@ 38 :> array(<<20, 22>>)
  @@ 40 :> array(<<38, 1>>) @@ 42 :> sexp(MCCons, <<8, 1>>) @@ 44 :> sexp(MCCons, <<12, 42>>)

Numbers == {-16, -8, -1, 0, 1, 7, 15}
Foreign == {2, 4}
Words == {BOX(n) : n \in Numbers} \cup Foreign \cup DOMAIN MCHeap
\* One word of each kind, as the third operand of the laws.
Thirds == {BOX(-8), BOX(7), 2, 10, 18, 26, 34, 40}
MCInit == /\ \E v \in Words, w \in Words, third \in Thirds : regs = <<v, w, third>>
          /\ stopped = FALSE
          /\ StringBufInit
MCSpec == MCInit /\ [][PrimitivesNext]_primitiveVars
===============================================================================
