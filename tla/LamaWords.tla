------------------------------ MODULE LamaWords ------------------------------
(***************************************************************************)
(* Words and objects of the Lama runtime (runtime_common.h, and the size   *)
(* functions of gc.c).  A word is a natural number; its lowest bit tells a *)
(* boxed value (an address, even) from an unboxed integer (odd).  An       *)
(* object is a header of two words, data_header and forward_address, that  *)
(* is followed by its contents; pointers to an object point at the         *)
(* contents, never at the header.                                          *)
(***************************************************************************)
EXTENDS Integers

UNBOXED(x) == x % 2 = 1
BOX(n)     == 2 * n + 1
UNBOX(x)   == x \div 2

WORD_BYTES     == 4
DATA_HEADER_SZ == 8
MEMBER_SIZE    == 4

BYTES_TO_WORDS(bytes) == (bytes - 1) \div WORD_BYTES + 1
WORDS_TO_BYTES(words) == words * WORD_BYTES

TO_DATA(p)                     == p - DATA_HEADER_SZ
get_object_content_ptr(header) == header + DATA_HEADER_SZ

lama_type == {"ARRAY", "CLOSURE", "STRING", "SEXP"}

\* Size in bytes, header included, of an object whose header says LEN = len.
\* The members of an s-expression follow a tag word, a string ends in a zero.
obj_bytes(type, len) ==
  DATA_HEADER_SZ + (CASE type = "ARRAY"   -> MEMBER_SIZE * len
                      [] type = "CLOSURE" -> MEMBER_SIZE * len
                      [] type = "SEXP"    -> MEMBER_SIZE * (len + 1)
                      [] type = "STRING"  -> len + 1)

\* The same rounded up to whole words, as alloc and the heap iterator do.
obj_words(type, len) == BYTES_TO_WORDS(obj_bytes(type, len))

\* field_begin_iterator: the first word of a closure is a code offset and the
\* first word of an s-expression its tag; neither is a field of the object.
\* The iterator of a string starts at its end, behind all len characters.
first_field(type, len) ==
  CASE type \in {"CLOSURE", "SEXP"} -> 2
    [] type = "STRING"              -> len + 1
    [] type = "ARRAY"               -> 1
==============================================================================
