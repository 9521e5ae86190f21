----------------------------- MODULE PrimitiveCalls -----------------------------
(***************************************************************************)
(* A program that calls the primitives of the runtime one after the other: *)
(* each result is an operand of the next call, until a value is printed or *)
(* a check of the runtime stops the program.                               *)
(***************************************************************************)
EXTENDS Printing, PrimitiveProperties

VARIABLE
  stopped \* failure() was called

primitiveVars == <<regs, stopped, bufVars>>

goes_on == ~stopped /\ pieces = << >> /\ UNCHANGED bufVars
returns(w) == goes_on /\ regs' = [regs EXCEPT ![1] = w] /\ UNCHANGED stopped
fails_if(check) == goes_on /\ check /\ stopped' = TRUE /\ UNCHANGED regs

Synonym(op) == /\ ~synonym_fails(op, x, y) /\ ~zero_division(op, UNBOX(y))
               /\ returns(synonym(op, x, y))
SynonymFails(op) == fails_if(synonym_fails(op, x, y))
Binop(op) == ~zero_division(op, UNBOX(y)) /\ returns(binop(op, x, y))
Compare == returns(Lcompare(x, y))
FlatCompare == returns(LflatCompare(x, y))
CompareTags == /\ has_header(x) /\ has_header(y) /\ ~LcompareTags_fails(x, y)
               /\ returns(LcompareTags(x, y))
CompareTagsFails == /\ has_header(x) /\ has_header(y)
                    /\ fails_if(LcompareTags_fails(x, y))
Hash == returns(Lhash(x))
Kind == has_header(x) /\ returns(LkindOf(x))
Match == /\ has_header(x) /\ has_header(y)
         /\ \/ \E patt \in patts : returns(PATT(x, patt))
            \/ is_type(y, "STRING") /\ returns(Bstring_patt(x, y))

\* Lstring and Lstringcat: the operands are used up, the text is what remains.
Prints(text) == /\ ~stopped /\ Ask(text)
               /\ regs' = [i \in DOMAIN regs |-> BOX(0)]
               /\ UNCHANGED stopped
Lstring    == Prints(printValue(x))
Lstringcat == has_header(x) /\ Prints(stringcat(x))
Vsnprintf  == VprintStringBuf /\ UNCHANGED <<regs, stopped>>
Stopped    == stopped /\ UNCHANGED primitiveVars

PrimitivesNext ==
  \/ \E op \in operators : Synonym(op) \/ SynonymFails(op) \/ Binop(op)
  \/ Compare \/ FlatCompare \/ CompareTags \/ CompareTagsFails \/ Hash \/ Kind \/ Match
  \/ Lstring \/ Lstringcat \/ Vsnprintf \/ Stopped

-------------------------------------------------------------------------------
(* Properties *)

RECURSIVE inside(_), same(_, _)
inside(p) == {p} \cup (IF is_valid_heap_pointer(p)
                       THEN UNION {inside(members(p)[i]) : i \in DOMAIN members(p)} ELSE {})

\* What two values are equal in, whatever their addresses.
same(p, q) ==
  \/ p = q
  \/ /\ is_valid_heap_pointer(p) /\ is_valid_heap_pointer(q) /\ Heap[p].type = Heap[q].type
     /\ Heap[p].type = "STRING" => c_text(p) = c_text(q)
     /\ Heap[p].code = Heap[q].code
     /\ first_chars(Heap[p].name) = first_chars(Heap[q].name)
     /\ Len(Heap[p].members) = Len(Heap[q].members)
     /\ \A i \in DOMAIN Heap[p].members : same(Heap[p].members[i], Heap[q].members[i])

\* Integers and addresses whose differences have a bit to spare.
narrow(p) == \A w \in inside(p) : is_valid_heap_pointer(w) \/ 2 * int(w) \in -half .. half - 1

\* Lcompare orders all values, of whatever types, and tells them apart, as long
\* as no difference loses its sign when it is boxed; LcompareTags agrees with
\* it on s-expressions.
order(p, q) == UNBOX(Lcompare(p, q))
CompareIsOrder ==
  narrow(x) /\ narrow(y) =>
    /\ order(x, y) = 0 <=> same(x, y)
    /\ order(x, y) < 0 <=> order(y, x) > 0
    /\ narrow(z) /\ order(x, y) <= 0 /\ order(y, z) <= 0 => order(x, z) <= 0
    /\ has_header(x) /\ has_header(y) /\ ~LcompareTags_fails(x, y) =>
         LcompareTags(x, y) = BOX(0) \/ (UNBOX(LcompareTags(x, y)) < 0 <=> order(x, y) < 0)

\* Values that Lcompare cannot tell apart have one hash, wherever a collection
\* has put them, unless a string holds a zero; it is no negative number (Lhash).
no_zeros(p) == \A w \in inside(p) : is_valid_heap_pointer(w) /\ is_type(w, "STRING")
                                      => c_text(w) = Heap[w].text
EqualValuesHashEqual ==
  /\ UNBOX(Lhash(x)) \in 0 .. 2^HASH_BITS - 1
  /\ Lcompare(x, y) = BOX(0) /\ no_zeros(x) /\ no_zeros(y) => Lhash(x) = Lhash(y)
=================================================================================
