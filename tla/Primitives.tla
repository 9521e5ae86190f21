------------------------------- MODULE Primitives -------------------------------
(***************************************************************************)
(* The functions of runtime.c that follow a value through the heap without *)
(* allocating: hashing and comparison.                                     *)
(***************************************************************************)
EXTENDS Patterns, SequencesExt

CONSTANTS
  HASH_BITS, \* bits of the mask 0x3fffff
  HASH_DEPTH

ASSUME HashAssumption == HASH_BITS \in 0 .. WORD_SIZE - 2 /\ HASH_DEPTH \in Nat

-------------------------------------------------------------------------------
(* Hashing *)

HASH_APPEND(acc, x) == LET s == word(acc + x)
                           part == 2^(WORD_SIZE \div 2)
                       IN  (s % part) * part + s \div part

hash_all(acc, s) == FoldLeft(HASH_APPEND, acc, s)

\* What is hashed of an object in front of its members.
hashed_first(p) ==
  <<TAG(p), LEN(p)>> \o (CASE TAG(p) = type_tag.STRING -> c_text(p)
                           [] TAG(p) = type_tag.ARRAY  -> << >>
                           [] OTHER                    -> <<contents(p)[1]>>)
members(p) == CASE TAG(p) = type_tag.STRING -> << >>
                [] TAG(p) = type_tag.ARRAY  -> contents(p)
                [] OTHER                    -> Tail(contents(p))

RECURSIVE inner_hash(_, _, _)
hash_members_raw(depth, acc, p) == hash_all(acc, members(p))
hash_members(depth, acc, p) == FoldLeft(LAMBDA a, w : inner_hash(depth + 1, a, w), acc, members(p))
inner_hash(depth, acc, p) ==
  IF depth > HASH_DEPTH THEN acc
  ELSE IF UNBOXED(p) THEN HASH_APPEND(acc, UNBOX(p))
  ELSE IF is_valid_heap_pointer(p)
       THEN hash_members(depth, hash_all(acc, hashed_first(p)), p)
       ELSE HASH_APPEND(acc, p)

Lhash(p) == BOX(inner_hash(0, 0, p) % 2^HASH_BITS)

-------------------------------------------------------------------------------
(* Comparison *)

\* COMPARE_AND_RETURN(x, y): what is different decides.
unequal(x, y) == [decides |-> x # y, result |-> BOX(x - y)]
first_that_decides(rounds) ==
  LET deciding == {i \in DOMAIN rounds : rounds[i].decides}
  IN  IF deciding = {} THEN BOX(0)
      ELSE rounds[CHOOSE i \in deciding : \A j \in deciding : i <= j].result

RECURSIVE Lcompare(_, _)
compare_members_unshifted(p, q) ==
  [i \in 1 .. LEN(p) |-> LET c == Lcompare(contents(p)[i], contents(q)[i])
                         IN  [decides |-> c # BOX(0), result |-> c]]
compare_members(p, q) ==
  [i \in DOMAIN members(p) |-> LET c == Lcompare(members(p)[i], members(q)[i])
                               IN  [decides |-> c # BOX(0), result |-> c]]
compare_objects(p, q) ==
  CASE TAG(p) # TAG(q) -> BOX(TAG(p) - TAG(q))
    [] TAG(p) = TAG(q) /\ TAG(p) = type_tag.STRING -> BOX(strcmp(c_text(p), c_text(q)))
    [] OTHER ->
         LET front == (IF TAG(p) = type_tag.ARRAY THEN << >>
                       ELSE <<unequal(contents(p)[1], contents(q)[1])>>)
                        \o <<unequal(LEN(p), LEN(q))>>
         IN  first_that_decides(IF \E i \in DOMAIN front : front[i].decides
                                THEN front ELSE compare_members(p, q))
Lcompare(p, q) ==
  CASE p = q                         -> BOX(0)
    [] UNBOXED(p) /\ UNBOXED(q) /\ p # q -> BOX(UNBOX(p) - UNBOX(q))
    [] UNBOXED(p) /\ ~UNBOXED(q)     -> BOX(-1)
    [] ~UNBOXED(p) /\ UNBOXED(q)     -> BOX(1)
    [] ~UNBOXED(p) /\ ~UNBOXED(q) /\ p # q ->
         CASE is_valid_heap_pointer(p) /\ is_valid_heap_pointer(q)   -> compare_objects(p, q)
           [] is_valid_heap_pointer(p) /\ ~is_valid_heap_pointer(q)  -> BOX(-1)
           [] ~is_valid_heap_pointer(p) /\ is_valid_heap_pointer(q)  -> BOX(1)
           [] ~is_valid_heap_pointer(p) /\ ~is_valid_heap_pointer(q) -> BOX(p - q)

\* LflatCompare: ~UNBOXED(q) is never zero, so a boxed p is compared as an address.
LflatCompare(p, q) ==
  CASE UNBOXED(p) /\ UNBOXED(q)  -> BOX(UNBOX(p) - UNBOX(q))
    [] UNBOXED(p) /\ ~UNBOXED(q) -> word(-1)
    [] OTHER                     -> BOX(p - q)

LcompareTags_fails(p, q) == ~is_type(p, "SEXP") \/ ~is_type(q, "SEXP")
LcompareTags(p, q) == BOX(contents(p)[1] - contents(q)[1])
=================================================================================
