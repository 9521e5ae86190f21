-------------------------------- MODULE Patterns --------------------------------
(***************************************************************************)
(* What the objects of the heap hold, the hash of a tag, and the patterns  *)
(* of runtime.c with the instructions TAG, ARRAY and PATT of the           *)
(* interpreter.                                                            *)
(*                                                                         *)
(* The heap is given by what its objects hold; header and contents follow  *)
(* from it as the allocating functions write them.  A tag is a sequence of *)
(* positions in the table chars, where '_' is the first.                   *)
(***************************************************************************)
EXTENDS Arithmetic, Sequences

CONSTANTS
  CHAR_BITS, \* bits of a position in chars
  TAG_CHARS, \* the characters of a tag that LtagHash reads
  Heap       \* [contents address -> [type, text, code, name, members]]

\* The hash of a tag fits into a boxed integer.
ASSUME TagAssumption ==
  CHAR_BITS \in Nat \ {0} /\ TAG_CHARS \in Nat /\ CHAR_BITS * TAG_CHARS < WORD_SIZE - 1

-------------------------------------------------------------------------------
(* Objects *)

type_tag == [STRING |-> 1, ARRAY |-> 3, SEXP |-> 5, CLOSURE |-> 7]
is_valid_heap_pointer(p) == p \in DOMAIN Heap

\* The hash of a tag: the positions of its first characters, one behind the other.
first_chars(s) == SubSeq(s, 1, IF Len(s) < TAG_CHARS THEN Len(s) ELSE TAG_CHARS)
hash_of_chars(s) ==
  LET pos == first_chars(s)
      hash[i \in 0 .. Len(pos)] == IF i = 0 THEN 0 ELSE hash[i - 1] * 2^CHAR_BITS + pos[i]
  IN  hash[Len(pos)]

\* The characters of a hash, without the '_' that it begins with.
de_hash[n \in Nat] == IF n = 0 THEN << >>
                     ELSE Append(de_hash[n \div 2^CHAR_BITS], n % 2^CHAR_BITS)

\* LtagHash stops at a character that is not in the table, and when the hash
\* does not give the characters back.
tag_fails(s) == \/ \E i \in DOMAIN first_chars(s) : s[i] \notin 0 .. 2^CHAR_BITS - 1
                \/ de_hash[hash_of_chars(s)] # first_chars(s)
LtagHash(s) == BOX(hash_of_chars(s))

\* What the allocating functions leave behind: contents are aligned, and the
\* tag of an s-expression was hashed.
ASSUME HeapAssumption ==
  \A p \in DOMAIN Heap :
    /\ ~UNBOXED(p)
    /\ Heap[p].type \in DOMAIN type_tag
    /\ Heap[p].text \in Seq(Nat) /\ Heap[p].members \in Seq(Word)
    /\ Heap[p].name \in Seq(Nat)
    /\ Heap[p].type = "SEXP" => ~tag_fails(Heap[p].name)

contents(p) == LET o == Heap[p] IN
  CASE o.type = "SEXP"    -> <<UNBOX(LtagHash(o.name))>> \o o.members
    [] o.type = "CLOSURE" -> <<o.code>> \o o.members
    [] o.type = "ARRAY"   -> o.members
header(p) == LET o == Heap[p] IN
  type_tag[o.type] + 8 * (CASE o.type = "STRING"  -> Len(o.text)
                            [] o.type = "CLOSURE" -> Len(o.members) + 1
                            [] OTHER              -> Len(o.members))
TAG(p) == header(p) % 8
LEN(p) == header(p) \div 8
is_type(p, type) == ~UNBOXED(p) /\ TAG(p) = type_tag[type]
c_text(p) == LET t == Heap[p].text
                 zeros == {i \in DOMAIN t : t[i] = 0}
             IN  IF zeros = {} THEN t ELSE SubSeq(t, 1, (CHOOSE i \in zeros : \A j \in zeros : i <= j) - 1)

\* strcmp, of which only the sign is said.
strcmp(s, t) ==
  LET differ == {i \in DOMAIN s \cap DOMAIN t : s[i] # t[i]}
      i == CHOOSE k \in differ : \A j \in differ : k <= j
  IN  IF s = t THEN 0
      ELSE IF (differ # {} /\ s[i] < t[i]) \/ (differ = {} /\ Len(s) < Len(t)) THEN -1 ELSE 1

-------------------------------------------------------------------------------
(* Patterns *)

LkindOf(p) == IF UNBOXED(p) THEN 9 ELSE TAG(p)

Btag_by_length(d, t, n) == truth(is_type(d, "SEXP") /\ LEN(d) = UNBOX(n))
Btag(d, t, n) == truth(is_type(d, "SEXP") /\ contents(d)[1] = UNBOX(t) /\ LEN(d) = UNBOX(n))
Barray_patt(d, n) == truth(is_type(d, "ARRAY") /\ LEN(d) = UNBOX(n))
Bstring_patt(x, y) == truth(is_type(x, "STRING") /\ strcmp(c_text(x), c_text(y)) = 0)
Bboxed_patt(x)   == truth(~UNBOXED(x))
Bunboxed_patt(x) == truth(UNBOXED(x))
Btype_patt(x, type) == truth(is_type(x, type))

\* PATT of the interpreter; str_literal takes a second operand (PATT_str).
patts == {"string", "array", "sexp", "ref", "val", "closure"}
check_tag_sexp_as_array(x, patt) ==
  CASE patt = "ref"     -> ~UNBOXED(x)
    [] patt = "string"  -> is_type(x, "STRING")
    [] patt = "array"   -> is_type(x, "SEXP")
    [] patt = "sexp"    -> is_type(x, "ARRAY")
    [] patt = "closure" -> is_type(x, "CLOSURE")
check_tag(x, patt) ==
  CASE patt = "ref"     -> ~UNBOXED(x)
    [] patt = "string"  -> is_type(x, "STRING")
    [] patt = "array"   -> is_type(x, "ARRAY")
    [] patt = "sexp"    -> is_type(x, "SEXP")
    [] patt = "closure" -> is_type(x, "CLOSURE")
PATT(x, patt) == IF patt = "val" THEN truth(UNBOXED(x)) ELSE truth(check_tag(x, patt))
TAG_instruction(x, s, n) == Btag(x, LtagHash(s), BOX(n))
=================================================================================
