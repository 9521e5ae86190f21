-------------------------------- MODULE Printing --------------------------------
(***************************************************************************)
(* The texts that Lstring and Lstringcat write into the string buffer: a   *)
(* sequence of pieces, one for each call of printStringBuf.                *)
(*                                                                         *)
(* A character of a number, an address or a word of the format is left     *)
(* out: each of them is one symbol.                                        *)
(***************************************************************************)
EXTENDS Primitives

CONSTANT CONS \* the tag of lists

separated(texts) == FlattenSeq([i \in DOMAIN texts |->
                                 IF i = 1 THEN texts[i] ELSE <<<<",", " ">>>> \o texts[i]])

\* The cells of a list: one after the other as long as they have members and
\* the tail is boxed.
RECURSIVE list_cells(_)
list_cells(p) == IF LEN(p) = 0 \/ UNBOXED(members(p)[2]) THEN <<p>>
                 ELSE <<p>> \o list_cells(members(p)[2])
elements(p, print(_)) == LET cells == list_cells(p) IN
  [i \in DOMAIN cells |-> IF LEN(cells[i]) = 0 THEN << >> ELSE print(members(cells[i])[1])]

RECURSIVE printValue(_)
printValue(p) ==
  IF UNBOXED(p) \/ ~is_valid_heap_pointer(p) THEN <<<<p>>>>
  ELSE LET inside == separated([i \in DOMAIN members(p) |-> printValue(members(p)[i])]) IN
    CASE TAG(p) = type_tag.STRING  -> <<<<"\"">> \o c_text(p) \o <<"\"">>>>
      [] TAG(p) = type_tag.CLOSURE ->
           <<<<"<closure">>, <<contents(p)[1]>>>>
             \o (IF LEN(p) = 1 THEN << >> ELSE <<<<",", " ">>>> \o inside) \o <<<<">">>>>
      [] TAG(p) = type_tag.ARRAY   -> <<<<"[">>>> \o inside \o <<<<"]">>>>
      [] TAG(p) = type_tag.SEXP    ->
           IF de_hash[contents(p)[1]] = CONS
           THEN <<<<"{">>>> \o separated(elements(p, printValue)) \o <<<<"}">>>>
           ELSE <<de_hash[contents(p)[1]]>>
                  \o (IF LEN(p) = 0 THEN << >> ELSE <<<<" (">>>> \o inside \o <<<<")">>>>)

RECURSIVE stringcat(_)
stringcat(p) ==
  CASE UNBOXED(p)         -> << >>
    [] is_type(p, "STRING") -> <<c_text(p)>>
    [] is_type(p, "SEXP") /\ de_hash[contents(p)[1]] = CONS ->
         FlattenSeq(elements(p, stringcat))
    [] OTHER -> <<<<"***">>>>
=================================================================================
