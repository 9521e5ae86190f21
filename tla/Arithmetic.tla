------------------------------- MODULE Arithmetic -------------------------------
(***************************************************************************)
(* Boxed integers: the words that carry them, the operators of the         *)
(* language, and the two implementations of these, binop of the            *)
(* interpreter and the functions Ls__Infix_* of runtime.c.                 *)
(*                                                                         *)
(* A word is a natural number below 2^WORD_SIZE and keeps that width.      *)
(***************************************************************************)
EXTENDS Integers

CONSTANT WORD_SIZE \* bits of a word

ASSUME WordAssumption == WORD_SIZE \in Nat \ {0} /\ WORD_SIZE % 2 = 0

Word == 0 .. 2^WORD_SIZE - 1
half == 2^(WORD_SIZE - 1)
word(n) == n % (2 * half)
int(w) == IF w < half THEN w ELSE w - 2 * half

UNBOXED(w) == w % 2 = 1
UNBOX(w)   == int(w) \div 2
BOX(n)     == word(2 * n + 1)
truth(b)   == BOX(IF b THEN 1 ELSE 0)

-------------------------------------------------------------------------------
(* Arithmetic *)

operators == {"+", "-", "*", "/", "%", "<", "<=", ">", ">=", "==", "!=", "&&", "!!"}

\* Division of C: the quotient is cut off at the point.
quotient(a, b) == LET size(n) == IF n < 0 THEN -n ELSE n
                      q == size(a) \div size(b)
                  IN  IF (a < 0) = (b < 0) THEN q ELSE -q
zero_division(op, b) == op \in {"/", "%"} /\ b = 0
apply(op, a, b) ==
  LET bit(holds) == IF holds THEN 1 ELSE 0 IN
  CASE op = "+"  -> a + b
    [] op = "-"  -> a - b
    [] op = "*"  -> a * b
    [] op = "/"  -> quotient(a, b)
    [] op = "%"  -> a - b * quotient(a, b)
    [] op = "<"  -> bit(a < b)
    [] op = "<=" -> bit(a <= b)
    [] op = ">"  -> bit(a > b)
    [] op = ">=" -> bit(a >= b)
    [] op = "==" -> bit(a = b)
    [] op = "!=" -> bit(a # b)
    [] op = "&&" -> bit(a # 0 /\ b # 0)
    [] op = "!!" -> bit(a # 0 \/ b # 0)

\* binop of the interpreter: any two words, without a check.
binop_raw(op, x, y) == BOX(apply(op, int(x), UNBOX(y)))
binop(op, x, y) == BOX(apply(op, UNBOX(x), UNBOX(y)))

\* The functional synonyms Ls__Infix_*: == compares words, - subtracts addresses
\* too, and the others want integers.
synonym_fails(op, x, y) ==
  CASE op = "==" -> FALSE
    [] op = "-"  -> UNBOXED(x) # UNBOXED(y)
    [] OTHER     -> ~UNBOXED(x) \/ ~UNBOXED(y)
synonym(op, x, y) ==
  CASE op = "=="                   -> truth(x = y)
    [] op = "-" /\ ~UNBOXED(x)     -> BOX(int(x) - int(y))
    [] OTHER                       -> BOX(apply(op, UNBOX(x), UNBOX(y)))
================================================================================
