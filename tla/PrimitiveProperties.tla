-------------------------- MODULE PrimitiveProperties ---------------------------
(***************************************************************************)
(* What arithmetic, patterns and the string buffer mean to a program that  *)
(* holds three words.                                                      *)
(***************************************************************************)
EXTENDS Patterns, StringBuf

VARIABLE
  regs \* the words the program holds; results go into the first of them

x == regs[1]
y == regs[2]
z == regs[3]

RegsTypeOK == regs \in [1 .. 3 -> Word]

\* What lies in front of an address outside the heap is not said.
has_header(w) == UNBOXED(w) \/ is_valid_heap_pointer(w)

\* Boxed arithmetic is arithmetic modulo 2^31 in the interpreter and in the
\* synonyms: laws that a program relies on survive every overflow, and results
\* that fit are exact (binop, Ls__Infix_*).
ArithmeticIsModular ==
  UNBOXED(x) /\ UNBOXED(y) =>
    LET exact(op) == apply(op, UNBOX(x), UNBOX(y)) IN
    /\ \A op \in operators : ~zero_division(op, UNBOX(y)) =>
         /\ synonym(op, x, y) = binop(op, x, y) /\ UNBOXED(binop(op, x, y))
         /\ 2 * exact(op) \in -half .. half - 1 => UNBOX(binop(op, x, y)) = exact(op)
    /\ binop("-", binop("+", x, y), y) = x
    /\ UNBOXED(z) =>
         binop("*", x, binop("+", y, z)) = binop("+", binop("*", x, y), binop("*", x, z))
    /\ UNBOX(y) # 0 =>
         binop("+", binop("*", binop("/", x, y), y), binop("%", x, y)) = x
    /\ binop("<", x, y) # binop(">=", x, y)

\* What a boxed integer can say of a length, and the tags in the heap.
lengths == 0 .. (half - 1) \div 2
names == {Heap[p].name : p \in {q \in DOMAIN Heap : Heap[q].type = "SEXP"}}

\* The interpreter's patterns for the types.
patt_of == [STRING |-> "string", ARRAY |-> "array", SEXP |-> "sexp", CLOSURE |-> "closure"]

\* The patterns for the types and for integers are a partition of the values, a
\* constructor pattern matches what was built with a tag of the same first
\* characters and as many members, and each pattern of the interpreter says
\* what its counterpart in the runtime says (Btag, B*_patt, patt, check_tag).
PatternsMatch ==
  has_header(x) =>
    LET yes == BOX(1)
        kind == IF UNBOXED(x) THEN "val" ELSE Heap[x].type
    IN /\ \A type \in DOMAIN type_tag :
            /\ Btype_patt(x, type) = yes <=> kind = type
            /\ PATT(x, patt_of[type]) = Btype_patt(x, type)
       /\ Bunboxed_patt(x) = yes <=> kind = "val"
       /\ PATT(x, "val") = Bunboxed_patt(x) /\ PATT(x, "ref") = Bboxed_patt(x)
       /\ Bboxed_patt(x) # Bunboxed_patt(x)
       /\ \A s \in names, n \in lengths : ~tag_fails(s) =>
            (TAG_instruction(x, s, n) = yes <=>
               kind = "SEXP" /\ first_chars(Heap[x].name) = first_chars(s)
                 /\ Len(Heap[x].members) = n)
       /\ \A n \in lengths : Barray_patt(x, BOX(n)) = yes <=>
                              kind = "ARRAY" /\ Len(Heap[x].members) = n
       /\ kind = "SEXP" => de_hash[contents(x)[1]] = first_chars(Heap[x].name)

\* However often the buffer is extended in the middle of a text, it holds all
\* of what was printed once, and a zero behind it (vprintStringBuf).
BufferHoldsText ==
  /\ ptr < len /\ Len(held) < len
  /\ SubSeq(held, 1, ptr) \o FlattenSeq(pieces) = FlattenSeq(asked)
=================================================================================
