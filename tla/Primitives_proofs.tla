---------------------------- MODULE Primitives_proofs ----------------------------
(***************************************************************************)
(* Theorems about arithmetic, patterns and the string buffer, for words of *)
(* every even width, tags of every length and every heap.                  *)
(*                                                                         *)
(* Arithmetic: UNBOX after BOX changes an integer by a multiple of half,   *)
(* and BOX does not see such a multiple.  Each law is thus one of the      *)
(* integers, with multiples of half to collect.                            *)
(*                                                                         *)
(* Patterns: the hash of a tag is smaller than a boxed integer, so boxing  *)
(* keeps it, and de_hash leads back from it to the characters.             *)
(*                                                                         *)
(* The buffer: what it holds up to ptr, with the pieces still to be        *)
(* written, is what was asked for, whether a piece fits or is cut off.     *)
(***************************************************************************)
EXTENDS PrimitiveProperties, TLAPS, FiniteSetTheorems, SequenceTheorems, WellFoundedInduction

-------------------------------------------------------------------------------
(* Powers of two, as numbers of subsets *)

LEMMA PowerPositive == ASSUME NEW n \in Nat PROVE 2^n \in Nat /\ 1 <= 2^n
<1>1. IsFiniteSet(1 .. n) /\ Cardinality(1 .. n) = n BY FS_Interval
<1>2. IsFiniteSet(SUBSET (1 .. n)) /\ Cardinality(SUBSET (1 .. n)) = 2^n BY <1>1, FS_SUBSET
<1>3. 2^n \in Nat BY <1>2, FS_CardinalityType
<1>4. {} \in SUBSET (1 .. n) OBVIOUS
<1>5. Cardinality(SUBSET (1 .. n)) # 0 BY <1>2, <1>4, FS_EmptySet
<1> QED BY <1>2, <1>3, <1>5

\* The subsets of a longer interval are those without its last number, and as
\* many with it.
LEMMA PowerDoubles == ASSUME NEW n \in Nat PROVE 2^(n + 1) = 2 * 2^n
<1> DEFINE without == SUBSET (1 .. n)
           with == {S \cup {n + 1} : S \in without}
           f == [S \in without |-> S \cup {n + 1}]
<1>1. IsFiniteSet(1 .. n) /\ Cardinality(1 .. n) = n BY FS_Interval
<1>2. IsFiniteSet(1 .. (n + 1)) /\ Cardinality(1 .. (n + 1)) = n + 1
  <2>1. n + 1 \in Int /\ ~(1 > n + 1) /\ n + 1 - 1 + 1 = n + 1 OBVIOUS
  <2> QED BY <2>1, FS_Interval
<1>3. IsFiniteSet(without) /\ Cardinality(without) = 2^n BY <1>1, FS_SUBSET
<1>4. Cardinality(SUBSET (1 .. (n + 1))) = 2^(n + 1) BY <1>2, FS_SUBSET
<1>5. \A S \in without : n + 1 \notin S OBVIOUS
<1>6. f \in Bijection(without, with)
  <2>1. f \in [without -> with] OBVIOUS
  <2>2. \A S, T \in without : f[S] = f[T] => S = T
    <3> SUFFICES ASSUME NEW S \in without, NEW T \in without, S \cup {n + 1} = T \cup {n + 1}
                 PROVE  S = T
      OBVIOUS
    <3>1. n + 1 \notin S /\ n + 1 \notin T BY <1>5
    <3> QED BY <3>1
  <2>3. \A t \in with : \E S \in without : f[S] = t OBVIOUS
  <2> HIDE DEF without, with, f
  <2> QED BY <2>1, <2>2, <2>3 DEF Bijection, Injection, Surjection, IsInjective
<1>7. IsFiniteSet(with) /\ Cardinality(with) = 2^n
  BY <1>3, <1>6, FS_Bijection DEF ExistsBijection
<1>8. SUBSET (1 .. (n + 1)) = without \cup with
  <2>1. ASSUME NEW S \in SUBSET (1 .. (n + 1)) PROVE S \in without \cup with
    <3>1. CASE n + 1 \notin S BY <3>1
    <3>2. CASE n + 1 \in S
      <4>1. S \ {n + 1} \in without OBVIOUS
      <4>2. S = (S \ {n + 1}) \cup {n + 1} BY <3>2
      <4> QED BY <4>1, <4>2
    <3> QED BY <3>1, <3>2
  <2>2. without \subseteq SUBSET (1 .. (n + 1)) OBVIOUS
  <2>3. ASSUME NEW S \in without PROVE S \cup {n + 1} \in SUBSET (1 .. (n + 1))
    <3>1. n + 1 \in 1 .. (n + 1) OBVIOUS
    <3> QED BY <2>2, <3>1
  <2>4. with \subseteq SUBSET (1 .. (n + 1)) BY <2>3
  <2> QED BY <2>1, <2>2, <2>4
<1>9. without \cap with = {} BY <1>5
<1>10. Cardinality(without \cap with) = 0 BY <1>9, FS_EmptySet
<1>11. Cardinality(without \cup with) = 2^n + 2^n - 0
  <2> HIDE DEF without, with
  <2> QED BY <1>3, <1>7, <1>10, FS_Union
<1>12. 2^(n + 1) = 2^n + 2^n - 0 BY <1>4, <1>8, <1>11
<1> QED BY <1>12, PowerPositive

\* half is a positive even number, and the words are the numbers below twice half.
LEMMA HalfEven ==
  /\ half \in Nat /\ 2 <= half /\ \E g \in Nat : half = 2 * g
  /\ Word = 0 .. 2 * half - 1
<1> DEFINE n == WORD_SIZE - 2
<1>1. n \in Nat /\ WORD_SIZE - 1 = n + 1 /\ n + 1 \in Nat /\ WORD_SIZE = (n + 1) + 1
  BY WordAssumption
<1> HIDE DEF n
<1>2. half = 2^(n + 1) BY <1>1 DEF half
<1>3. half = 2 * 2^n BY <1>1, <1>2, PowerDoubles
<1>4. 2^n \in Nat /\ 1 <= 2^n BY <1>1, PowerPositive
<1>5. 2^WORD_SIZE = 2 * half BY <1>1, <1>2, PowerDoubles
<1>6. Word = 0 .. 2 * half - 1 BY <1>5 DEF Word
<1>7. half \in Nat /\ 2 <= half BY <1>3, <1>4
<1> QED BY <1>3, <1>4, <1>6, <1>7

-------------------------------------------------------------------------------
(* Remainders *)

LEMMA DivMod ==
  ASSUME NEW m \in Nat, 0 < m, NEW n \in Int
  PROVE  /\ n % m \in 0 .. m - 1 /\ n \div m \in Int
         /\ n = m * (n \div m) + (n % m)
  OBVIOUS

LEMMA ModUnique ==
  ASSUME NEW m \in Nat, 0 < m, NEW n \in Int, NEW q \in Int, NEW r \in 0 .. m - 1, n = q * m + r
  PROVE  n % m = r
  OBVIOUS

\* Numbers that differ by a multiple of half are boxed alike.
LEMMA BoxModulo == ASSUME NEW n \in Int, NEW k \in Int PROVE BOX(n + k * half) = BOX(n)
<1>1. half \in Nat /\ 2 <= half BY HalfEven
<1> DEFINE m == 2 * half
           r == (2 * n + 1) % m
           q == (2 * n + 1) \div m
<1>2. m \in Nat /\ 0 < m BY <1>1
<1>3. 2 * n + 1 \in Int OBVIOUS
<1>4. r \in 0 .. m - 1 /\ q \in Int /\ 2 * n + 1 = m * q + r
  <2> HIDE DEF m
  <2> QED BY <1>2, <1>3, DivMod
<1> HIDE DEF r, q
<1>5. k * half \in Int BY <1>1
<1>6. 2 * (n + k * half) + 1 = (q + k) * m + r
  <2>1. 2 * (n + k * half) + 1 = (2 * n + 1) + 2 * (k * half) BY <1>5
  <2>2. 2 * (k * half) = k * m BY <1>1
  <2>3. (q + k) * m = m * q + k * m BY <1>2, <1>4
  <2>4. k * m \in Int /\ m * q \in Int /\ r \in Int BY <1>2, <1>4
  <2> HIDE DEF m
  <2> QED BY <1>4, <2>1, <2>2, <2>3, <2>4
<1>7. (2 * (n + k * half) + 1) % m = r
  <2>1. 2 * (n + k * half) + 1 \in Int /\ q + k \in Int BY <1>4, <1>5
  <2> HIDE DEF m
  <2> QED BY <1>2, <1>4, <1>6, <2>1, ModUnique
<1> QED BY <1>7 DEF BOX, word, r, m

\* What is boxed is an odd word, and unboxing it restores the number up to a
\* multiple of half, or exactly if its double fits.
LEMMA UnboxBox ==
  ASSUME NEW n \in Int
  PROVE  /\ BOX(n) \in Word /\ UNBOXED(BOX(n)) /\ UNBOX(BOX(n)) \in Int
         /\ \E k \in Int : UNBOX(BOX(n)) = n + k * half
         /\ 2 * n \in -half .. half - 1 => UNBOX(BOX(n)) = n
<1>1. half \in Nat /\ 2 <= half /\ Word = 0 .. 2 * half - 1 BY HalfEven
<1> PICK g \in Nat : half = 2 * g BY HalfEven
<1> DEFINE m == 2 * half
<1>2. m \in Nat /\ 0 < m /\ 2 * n + 1 \in Int BY <1>1
<1>3. PICK q \in Int : BOX(n) \in 0 .. m - 1 /\ 2 * n + 1 = m * q + BOX(n)
  <2> HIDE DEF m
  <2>1. (2 * n + 1) % m \in 0 .. m - 1 /\ (2 * n + 1) \div m \in Int
        /\ 2 * n + 1 = m * ((2 * n + 1) \div m) + ((2 * n + 1) % m)
    BY <1>2, DivMod
  <2>2. BOX(n) = (2 * n + 1) % m BY DEF BOX, word, m
  <2> QED BY <2>1, <2>2
<1> DEFINE h == q * half
           w == BOX(n)
<1> HIDE DEF w
<1>4. h \in Int /\ m * q = 2 * h BY <1>1
<1> HIDE DEF h
<1>5. w \in 0 .. 2 * half - 1 /\ w = 2 * (n - h) + 1 BY <1>1, <1>3, <1>4 DEF w
<1>6. w \in Word /\ UNBOXED(w) BY <1>1, <1>4, <1>5 DEF UNBOXED
<1>7. CASE w < half
  <2>1. int(w) = 2 * (n - h) + 1 BY <1>5, <1>7 DEF int
  <2>2. UNBOX(w) = n - h BY <1>4, <2>1 DEF UNBOX
  <2>3. n - h = n + (-q) * half BY <1>1, <1>4 DEF h
  <2>4. ASSUME 2 * n \in -half .. half - 1 PROVE h = 0
    <3>1. -half < h + h /\ h + h < 2 * half BY <1>1, <1>4, <1>5, <1>7, <2>4
    <3>2. -half < h /\ h < half BY <1>1, <1>4, <1>5, <1>7, <2>4
    <3>3. q = 0 BY <1>1, <3>2 DEF h
    <3> QED BY <1>1, <3>3 DEF h
  <2>5. \E k \in Int : UNBOX(w) = n + k * half
    <3>1. -q \in Int OBVIOUS
    <3> QED BY <2>2, <2>3, <3>1
  <2>6. UNBOX(w) \in Int BY <1>4, <2>2
  <2>7. 2 * n \in -half .. half - 1 => UNBOX(w) = n BY <1>4, <2>2, <2>4
  <2> QED BY <1>6, <2>5, <2>6, <2>7 DEF w
<1>8. CASE ~(w < half)
  <2>1. int(w) = 2 * (n - h - half) + 1 BY <1>1, <1>4, <1>5, <1>8 DEF int
  <2>2. UNBOX(w) = n - h - half BY <1>1, <1>4, <2>1 DEF UNBOX
  <2>3. n - h - half = n + (-q - 1) * half BY <1>1, <1>4 DEF h
  <2>4. ASSUME 2 * n \in -half .. half - 1 PROVE h + half = 0
    <3>1. -half < h + half /\ h + half < half BY <1>1, <1>4, <1>5, <1>8, <2>4
    <3>2. q + 1 = 0 BY <1>1, <3>1 DEF h
    <3> QED BY <1>1, <3>2 DEF h
  <2>5. \E k \in Int : UNBOX(w) = n + k * half
    <3>1. -q - 1 \in Int OBVIOUS
    <3> QED BY <2>2, <2>3, <3>1
  <2>6. UNBOX(w) \in Int BY <1>1, <1>4, <2>2
  <2>7. 2 * n \in -half .. half - 1 => UNBOX(w) = n BY <1>1, <1>4, <2>2, <2>4
  <2> QED BY <1>6, <2>5, <2>6, <2>7 DEF w
<1> QED BY <1>7, <1>8

\* Boxing what was unboxed restores the word.
LEMMA BoxUnbox ==
  ASSUME NEW w \in Word, UNBOXED(w)
  PROVE  UNBOX(w) \in Int /\ BOX(UNBOX(w)) = w
<1>1. half \in Nat /\ 2 <= half /\ Word = 0 .. 2 * half - 1 BY HalfEven
<1> PICK g \in Nat : half = 2 * g BY HalfEven
<1>2. PICK a \in Int : w = 2 * a + 1 BY <1>1 DEF UNBOXED
<1>3. BOX(a) = w
  <2> DEFINE m == 2 * half
  <2>1. m \in Nat /\ 0 < m /\ w \in 0 .. m - 1 /\ w \in Int /\ w = 0 * m + w BY <1>1
  <2>2. w % m = w
    <3> HIDE DEF m
    <3> QED BY <2>1, ModUnique
  <2> QED BY <1>2, <2>2 DEF BOX, word
<1>4. CASE w < half
  <2>1. UNBOX(w) = a BY <1>2, <1>4 DEF UNBOX, int
  <2> QED BY <1>3, <2>1
<1>5. CASE ~(w < half)
  <2>1. int(w) = 2 * (a - half) + 1 BY <1>1, <1>2, <1>5 DEF int
  <2>2. UNBOX(w) = a - half /\ a - half \in Int BY <1>1, <2>1 DEF UNBOX
  <2>3. a - half = a + (0 - 1) * half BY <1>1
  <2>4. 0 - 1 \in Int OBVIOUS
  <2>5. BOX(a + (0 - 1) * half) = BOX(a) BY <2>4, BoxModulo
  <2> QED BY <1>3, <2>2, <2>3, <2>5
<1> QED BY <1>4, <1>5

-------------------------------------------------------------------------------
(* The operators *)

LEMMA QuotientInt == ASSUME NEW a \in Int, NEW b \in Int, b # 0 PROVE quotient(a, b) \in Int
  BY DEF quotient

LEMMA ApplyInt ==
  ASSUME NEW op \in operators, NEW a \in Int, NEW b \in Int, ~zero_division(op, b)
  PROVE  apply(op, a, b) \in Int
<1>1. CASE op \in {"/", "%"}
  <2>1. quotient(a, b) \in Int BY <1>1, QuotientInt DEF zero_division
  <2> QED BY <1>1, <2>1 DEF apply
<1>2. CASE op \notin {"/", "%"} BY <1>2 DEF apply, operators
<1> QED BY <1>1, <1>2

\* The two implementations agree on boxed integers, box what they return, and
\* are exact as long as the result fits.
LEMMA Implementations ==
  ASSUME NEW v \in Word, NEW w \in Word, UNBOXED(v), UNBOXED(w),
         NEW op \in operators, ~zero_division(op, UNBOX(w))
  PROVE  /\ synonym(op, v, w) = binop(op, v, w) /\ UNBOXED(binop(op, v, w))
         /\ 2 * apply(op, UNBOX(v), UNBOX(w)) \in -half .. half - 1
              => UNBOX(binop(op, v, w)) = apply(op, UNBOX(v), UNBOX(w))
<1>1. /\ UNBOX(v) \in Int /\ BOX(UNBOX(v)) = v
      /\ UNBOX(w) \in Int /\ BOX(UNBOX(w)) = w
  BY BoxUnbox
<1>2. apply(op, UNBOX(v), UNBOX(w)) \in Int BY <1>1, ApplyInt
<1>3. UNBOXED(binop(op, v, w))
  BY <1>2, UnboxBox DEF binop
<1>4. 2 * apply(op, UNBOX(v), UNBOX(w)) \in -half .. half - 1
        => UNBOX(binop(op, v, w)) = apply(op, UNBOX(v), UNBOX(w))
  BY <1>2, UnboxBox DEF binop
<1>5. CASE op = "=="
  <2>1. v = w <=> UNBOX(v) = UNBOX(w) BY <1>1
  <2>2. apply(op, UNBOX(v), UNBOX(w)) = IF v = w THEN 1 ELSE 0 BY <1>5, <2>1 DEF apply
  <2>3. synonym(op, v, w) = truth(v = w) BY <1>5 DEF synonym
  <2> QED BY <1>3, <1>4, <2>2, <2>3 DEF truth, binop
<1>6. CASE op # "=="
  <2>1. synonym(op, v, w) = BOX(apply(op, UNBOX(v), UNBOX(w))) BY <1>6 DEF synonym
  <2> QED BY <1>3, <1>4, <2>1 DEF binop
<1> QED BY <1>5, <1>6

LEMMA Applied ==
  ASSUME NEW a, NEW b
  PROVE  /\ apply("+", a, b) = a + b
         /\ apply("-", a, b) = a - b
         /\ apply("*", a, b) = a * b
         /\ apply("/", a, b) = quotient(a, b)
         /\ apply("%", a, b) = a - b * quotient(a, b)
         /\ apply("<", a, b) = IF a < b THEN 1 ELSE 0
         /\ apply(">=", a, b) = IF a >= b THEN 1 ELSE 0
  BY DEF apply

-------------------------------------------------------------------------------
(* Laws *)

\* Subtraction takes back an addition.
LEMMA AddSubtract ==
  ASSUME NEW v \in Word, NEW w \in Word, UNBOXED(v), UNBOXED(w)
  PROVE  binop("-", binop("+", v, w), w) = v
<1> DEFINE a == UNBOX(v)
           b == UNBOX(w)
<1>1. a \in Int /\ BOX(a) = v /\ b \in Int BY BoxUnbox
<1>2. binop("-", binop("+", v, w), w) = BOX(UNBOX(BOX(a + b)) - b) BY Applied DEF binop
<1> HIDE DEF a, b
<1>3. half \in Nat BY HalfEven
<1>4. a + b \in Int BY <1>1
<1>5. PICK k \in Int : UNBOX(BOX(a + b)) = (a + b) + k * half BY <1>4, UnboxBox
<1>6. UNBOX(BOX(a + b)) - b = a + k * half
  <2>1. k * half \in Int BY <1>3
  <2> QED BY <1>1, <1>5, <2>1
<1> QED BY <1>1, <1>2, <1>6, BoxModulo

\* Multiplication distributes over addition.
LEMMA Distributes ==
  ASSUME NEW u \in Word, NEW v \in Word, NEW w \in Word, UNBOXED(u), UNBOXED(v), UNBOXED(w)
  PROVE  binop("*", u, binop("+", v, w)) = binop("+", binop("*", u, v), binop("*", u, w))
<1> DEFINE a == UNBOX(u)
           b == UNBOX(v)
           c == UNBOX(w)
<1>1. a \in Int /\ b \in Int /\ c \in Int BY BoxUnbox
<1>2. /\ binop("*", u, binop("+", v, w)) = BOX(a * UNBOX(BOX(b + c)))
      /\ binop("+", binop("*", u, v), binop("*", u, w))
           = BOX(UNBOX(BOX(a * b)) + UNBOX(BOX(a * c)))
  BY Applied DEF binop
<1> HIDE DEF a, b, c
<1>3. half \in Int BY HalfEven
<1>4. b + c \in Int /\ a * b \in Int /\ a * c \in Int BY <1>1
<1>5. PICK k \in Int : UNBOX(BOX(b + c)) = (b + c) + k * half BY <1>4, UnboxBox
<1>6. PICK i \in Int : UNBOX(BOX(a * b)) = a * b + i * half BY <1>4, UnboxBox
<1>7. PICK j \in Int : UNBOX(BOX(a * c)) = a * c + j * half BY <1>4, UnboxBox
<1>8. a * ((b + c) + k * half) = (a * b + a * c) + (a * k) * half BY <1>1, <1>3
<1>9. (a * b + i * half) + (a * c + j * half) = (a * b + a * c) + (i + j) * half
  BY <1>1, <1>3
<1>10. a * b + a * c \in Int /\ a * k \in Int /\ i + j \in Int BY <1>1
<1>11. BOX((a * b + a * c) + (a * k) * half) = BOX(a * b + a * c) BY <1>10, BoxModulo
<1>12. BOX((a * b + a * c) + (i + j) * half) = BOX(a * b + a * c) BY <1>10, BoxModulo
<1> QED BY <1>2, <1>5, <1>6, <1>7, <1>8, <1>9, <1>11, <1>12

\* A quotient, multiplied, and the remainder make up the dividend, even for the
\* one quotient that does not fit.
LEMMA DivideMultiply ==
  ASSUME NEW v \in Word, NEW w \in Word, UNBOXED(v), UNBOXED(w), UNBOX(w) # 0
  PROVE  binop("+", binop("*", binop("/", v, w), w), binop("%", v, w)) = v
<1> DEFINE a == UNBOX(v)
           b == UNBOX(w)
           q == quotient(a, b)
           r == a - b * q
           p == UNBOX(BOX(q)) * b
<1>1. a \in Int /\ BOX(a) = v /\ b \in Int BY BoxUnbox
<1>2. q \in Int BY <1>1, QuotientInt
<1>3. binop("+", binop("*", binop("/", v, w), w), binop("%", v, w))
        = BOX(UNBOX(BOX(p)) + UNBOX(BOX(r)))
  BY Applied DEF binop
<1> HIDE DEF a, b, q
<1>4. half \in Int BY HalfEven
<1>5. PICK k \in Int : UNBOX(BOX(q)) = q + k * half BY <1>2, UnboxBox
<1>6. p = b * q + (k * b) * half BY <1>1, <1>2, <1>4, <1>5
<1>7. b * q \in Int /\ (k * b) * half \in Int /\ p \in Int /\ r \in Int
  BY <1>1, <1>2, <1>4, <1>6
<1>8. PICK i \in Int : UNBOX(BOX(p)) = p + i * half BY <1>7, UnboxBox
<1>9. PICK j \in Int : UNBOX(BOX(r)) = r + j * half BY <1>7, UnboxBox
<1>10. UNBOX(BOX(p)) + UNBOX(BOX(r)) = a + (k * b + i + j) * half
  <2>1. i * half \in Int /\ j * half \in Int BY <1>4
  <2>2. (k * b + i + j) * half = (k * b) * half + i * half + j * half BY <1>1, <1>4
  <2> HIDE DEF p
  <2> QED BY <1>1, <1>6, <1>7, <1>8, <1>9, <2>1, <2>2
<1>11. k * b + i + j \in Int BY <1>1
<1> QED BY <1>1, <1>3, <1>10, <1>11, BoxModulo

LEMMA LessOrNot ==
  ASSUME NEW v \in Word, NEW w \in Word, UNBOXED(v), UNBOXED(w)
  PROVE  binop("<", v, w) # binop(">=", v, w)
<1>1. UNBOX(v) \in Int /\ UNBOX(w) \in Int BY BoxUnbox
<1>2. half \in Nat /\ 2 <= half BY HalfEven
<1>3. BOX(0) = 1 BY <1>2 DEF BOX, word
<1>4. BOX(1) = 3 BY <1>2 DEF BOX, word
<1> QED BY <1>1, <1>3, <1>4, Applied DEF binop

\* Boxed arithmetic is arithmetic modulo half, in the interpreter and in the
\* functional synonyms, whatever words a program holds and however wide they
\* are (binop, Ls__Infix_*).
THEOREM ArithmeticIsModularHolds == RegsTypeOK => ArithmeticIsModular
<1> SUFFICES ASSUME RegsTypeOK, UNBOXED(x), UNBOXED(y) PROVE ArithmeticIsModular
  BY DEF ArithmeticIsModular
<1>1. x \in Word /\ y \in Word /\ z \in Word BY DEF RegsTypeOK, x, y, z
<1>2. \A op \in operators : ~zero_division(op, UNBOX(y)) =>
        /\ synonym(op, x, y) = binop(op, x, y) /\ UNBOXED(binop(op, x, y))
        /\ 2 * apply(op, UNBOX(x), UNBOX(y)) \in -half .. half - 1
             => UNBOX(binop(op, x, y)) = apply(op, UNBOX(x), UNBOX(y))
  BY <1>1, Implementations
<1>3. binop("-", binop("+", x, y), y) = x BY <1>1, AddSubtract
<1>4. UNBOXED(z) =>
        binop("*", x, binop("+", y, z)) = binop("+", binop("*", x, y), binop("*", x, z))
  BY <1>1, Distributes
<1>5. UNBOX(y) # 0 =>
        binop("+", binop("*", binop("/", x, y), y), binop("%", x, y)) = x
  BY <1>1, DivideMultiply
<1>6. binop("<", x, y) # binop(">=", x, y) BY <1>1, LessOrNot
<1> QED BY <1>2, <1>3, <1>4, <1>5, <1>6 DEF ArithmeticIsModular

-------------------------------------------------------------------------------
(* Tags *)

LEMMA SmallestPlace ==
  ASSUME NEW S \in SUBSET Nat, S # {}
  PROVE  \E m \in S : \A n \in S : m <= n
<1>1. PICK m \in S : \A n \in S : ~ (<<n, m>> \in OpToRel(<, Nat))
  BY NatLessThanWellFounded, WFMin, Zenon
<1>2. \A n \in S : n \in Nat /\ m \in Nat /\ ~ (n < m)
  BY <1>1, Zenon DEF OpToRel
<1> QED BY <1>2

LEMMA PowerAdds == ASSUME NEW a \in Nat, NEW b \in Nat PROVE 2^(a + b) = 2^a * 2^b
<1> DEFINE wrong == {n \in Nat : 2^(a + n) # 2^a * 2^n}
<1> SUFFICES ASSUME wrong # {} PROVE FALSE OBVIOUS
<1>1. PICK n \in wrong : \A i \in wrong : n <= i BY SmallestPlace
<1>2. CASE n = 0
  <2>1. 2^0 = 1
    <3>1. IsFiniteSet({}) /\ Cardinality({}) = 0 BY FS_EmptySet
    <3>2. Cardinality(SUBSET {}) = 2^0 BY <3>1, FS_SUBSET
    <3>3. SUBSET {} = {{}} OBVIOUS
    <3> QED BY <3>2, <3>3, FS_Singleton
  <2>2. 2^a \in Nat BY PowerPositive
  <2>3. a + n = a BY <1>2
  <2> QED BY <1>1, <1>2, <2>1, <2>2, <2>3
<1>3. CASE n # 0
  <2> DEFINE i == n - 1
  <2>1. i \in Nat /\ n = i + 1 /\ a + n = (a + i) + 1 /\ a + i \in Nat BY <1>1, <1>3
  <2>2. i \notin wrong BY <1>1, <1>3
  <2>3. 2^(a + i) = 2^a * 2^i BY <2>1, <2>2
  <2> HIDE DEF i
  <2>4. 2^n = 2 * 2^i /\ 2^(a + n) = 2 * 2^(a + i) BY <2>1, PowerDoubles
  <2>5. 2^a \in Nat /\ 2^i \in Nat BY <2>1, PowerPositive
  <2>6. 2 * (2^a * 2^i) = 2^a * (2 * 2^i) BY <2>5
  <2> QED BY <1>1, <2>3, <2>4, <2>6
<1> QED BY <1>2, <1>3

LEMMA FirstChars ==
  ASSUME NEW s \in Seq(Nat)
  PROVE  /\ first_chars(s) \in Seq(Nat)
         /\ Len(first_chars(s)) \in 0 .. TAG_CHARS /\ Len(first_chars(s)) <= Len(s)
         /\ \A i \in 1 .. Len(first_chars(s)) : first_chars(s)[i] = s[i]
  BY TagAssumption DEF first_chars

\* The recursive function in LtagHash exists.
hash(pos) == CHOOSE f : f = [i \in 0 .. Len(pos) |->
                               IF i = 0 THEN 0 ELSE f[i - 1] * 2^CHAR_BITS + pos[i]]

LEMMA HashDefined ==
  ASSUME NEW s \in Seq(Nat)
  PROVE  hash(s) = [i \in 0 .. Len(s) |->
                      IF i = 0 THEN 0 ELSE hash(s)[i - 1] * 2^CHAR_BITS + s[i]]
<1> DEFINE n == Len(s)
           Is(f, m) == f = [i \in 0 .. m |-> IF i = 0 THEN 0 ELSE f[i - 1] * 2^CHAR_BITS + s[i]]
           wrong == {m \in Nat : ~ \E f : Is(f, m)}
<1>1. n \in Nat OBVIOUS
<1>2. wrong = {}
  <2> SUFFICES ASSUME wrong # {} PROVE FALSE OBVIOUS
  <2>1. PICK m \in wrong : \A i \in wrong : m <= i BY SmallestPlace
  <2>2. CASE m = 0
    <3> DEFINE f == [i \in 0 .. 0 |-> 0]
    <3>1. Is(f, 0) OBVIOUS
    <3> QED BY <2>1, <2>2, <3>1
  <2>3. CASE m # 0
    <3>1. m - 1 \in Nat /\ m - 1 \notin wrong
      <4>1. m \in Nat OBVIOUS
      <4> HIDE DEF wrong
      <4> QED BY <2>1, <2>3, <4>1
    <3>2. PICK g : Is(g, m - 1) BY <3>1
    <3> DEFINE f == [i \in 0 .. m |-> IF i < m THEN g[i] ELSE g[m - 1] * 2^CHAR_BITS + s[m]]
    <3>3. \A i \in 0 .. m : f[i] = IF i = 0 THEN 0 ELSE f[i - 1] * 2^CHAR_BITS + s[i]
      <4>1. SUFFICES ASSUME NEW i \in 0 .. m
                     PROVE  f[i] = IF i = 0 THEN 0 ELSE f[i - 1] * 2^CHAR_BITS + s[i]
        OBVIOUS
      <4>2. CASE i = 0
        <5>1. 0 \in 0 .. m - 1 /\ 0 < m BY <2>1, <2>3
        <5> QED BY <3>2, <4>2, <5>1
      <4>3. CASE i # 0 /\ i < m
        <5>1. i \in 0 .. m - 1 /\ i - 1 \in 0 .. m /\ i - 1 < m BY <2>1, <4>3
        <5>2. f[i] = g[i] /\ f[i - 1] = g[i - 1] BY <4>3, <5>1
        <5>3. g[i] = g[i - 1] * 2^CHAR_BITS + s[i] BY <3>2, <4>3, <5>1
        <5> QED BY <4>3, <5>2, <5>3
      <4>4. CASE i = m
        <5>1. m \in 0 .. m /\ ~(m < m) /\ m - 1 \in 0 .. m /\ m - 1 < m BY <2>1, <2>3
        <5>2. f[m] = g[m - 1] * 2^CHAR_BITS + s[m] /\ f[m - 1] = g[m - 1] BY <5>1
        <5> QED BY <2>3, <4>4, <5>2
      <4> QED BY <2>1, <4>2, <4>3, <4>4
    <3>4. Is(f, m)
      <4>1. f = [i \in 0 .. m |-> f[i]] OBVIOUS
      <4> HIDE DEF f
      <4> QED BY <3>3, <4>1
    <3> QED BY <2>1, <3>4
  <2> QED BY <2>2, <2>3
<1>3. \E f : Is(f, n) BY <1>1, <1>2
<1> QED BY <1>3 DEF hash

LEMMA HashOfChars ==
  ASSUME NEW s
  PROVE  hash_of_chars(s) = hash(first_chars(s))[Len(first_chars(s))]
  BY DEF hash_of_chars, hash

\* Of characters that are in the table, the hash fits into a boxed integer.
LEMMA HashFits ==
  ASSUME NEW s \in Seq(Nat), ~tag_fails(s)
  PROVE  hash_of_chars(s) \in Nat /\ UNBOX(LtagHash(s)) = hash_of_chars(s)
<1> DEFINE pos == first_chars(s)
           n == Len(pos)
           p == 2^CHAR_BITS
           h == hash(pos)
           wrong == {i \in 0 .. n : h[i] \notin 0 .. 2^(CHAR_BITS * i) - 1}
<1>1. n \in 0 .. TAG_CHARS /\ pos \in Seq(Nat) /\ DOMAIN pos = 1 .. n
      /\ TAG_CHARS \in Nat /\ CHAR_BITS \in Nat \ {0}
  BY FirstChars, TagAssumption
<1>2. p \in Nat /\ 1 <= p BY <1>1, PowerPositive
<1>3. \A i \in 1 .. n : pos[i] \in 0 .. p - 1 BY <1>1, FirstChars DEF tag_fails
<1>4. h[0] = 0 /\ \A i \in 1 .. n : h[i] = h[i - 1] * p + pos[i]
  <2>1. 0 \in 0 .. n /\ \A i \in 1 .. n : i \in 0 .. n /\ i # 0 BY <1>1
  <2> HIDE DEF pos
  <2> QED BY <1>1, <2>1, HashDefined
<1> HIDE DEF h, p, pos
<1>5. wrong = {}
  <2> SUFFICES ASSUME wrong # {} PROVE FALSE OBVIOUS
  <2>1. wrong \in SUBSET Nat BY <1>1
  <2>2. PICK i \in wrong : \A j \in wrong : i <= j BY <2>1, SmallestPlace
  <2>3. CASE i = 0
    <3>1. CHAR_BITS * i \in Nat BY <1>1, <2>3
    <3>2. 1 <= 2^(CHAR_BITS * i) /\ 2^(CHAR_BITS * i) \in Nat BY <3>1, PowerPositive
    <3> QED BY <1>4, <2>2, <2>3, <3>2
  <2>4. CASE i # 0
    <3> DEFINE a == CHAR_BITS * (i - 1)
    <3>1. i \in 1 .. n /\ i - 1 \in 0 .. n /\ i - 1 \notin wrong BY <1>1, <2>2, <2>4
    <3>2. a \in Nat /\ CHAR_BITS * i = a + CHAR_BITS BY <1>1, <3>1
    <3>3. h[i - 1] \in 0 .. 2^a - 1 BY <3>1
    <3> HIDE DEF a
    <3>4. 2^(CHAR_BITS * i) = 2^a * p BY <1>1, <3>2, PowerAdds DEF p
    <3>5. 2^a \in Nat BY <3>2, PowerPositive
    <3>6. h[i] = h[i - 1] * p + pos[i] /\ pos[i] \in 0 .. p - 1 BY <1>3, <1>4, <3>1
    <3>7. h[i - 1] * p \in 0 .. 2^a * p - p
      <4>1. \A u \in Nat : \A v \in 0 .. u - 1 : v * p \in 0 .. u * p - p
        <5>1. SUFFICES ASSUME NEW u \in Nat, NEW v \in 0 .. u - 1 PROVE v * p \in 0 .. u * p - p
          OBVIOUS
        <5>2. u - 1 - v \in Nat BY <5>1
        <5>3. (u - 1 - v) * p \in Nat /\ v * p \in Nat BY <1>2, <5>1, <5>2
        <5>4. (u - 1 - v) * p = u * p - p - v * p BY <1>2, <5>1
        <5>5. u * p \in Nat BY <1>2
        <5> QED BY <1>2, <5>3, <5>4, <5>5
      <4> QED BY <3>3, <3>5, <4>1
    <3>8. h[i] \in 0 .. 2^a * p - 1
      <4>1. 2^a * p \in Nat BY <1>2, <3>5
      <4> QED BY <1>2, <3>6, <3>7, <4>1
    <3> QED BY <2>2, <3>4, <3>8
  <2> QED BY <2>3, <2>4
<1>6. hash_of_chars(s) = h[n] BY HashOfChars DEF h, pos
<1>7. h[n] \in 0 .. 2^(CHAR_BITS * n) - 1
  <2>1. n \in 0 .. n BY <1>1
  <2> HIDE DEF n
  <2> QED BY <1>5, <2>1
<1> DEFINE b == CHAR_BITS * n
           c == WORD_SIZE - 2 - b
<1>8. b \in Nat /\ c \in Nat
  <2>1. CHAR_BITS * (TAG_CHARS - n) \in Nat BY <1>1
  <2>2. CHAR_BITS * (TAG_CHARS - n) = CHAR_BITS * TAG_CHARS - CHAR_BITS * n BY <1>1
  <2>3. CHAR_BITS * n \in Nat /\ CHAR_BITS * TAG_CHARS \in Nat BY <1>1
  <2> QED BY <1>1, <2>1, <2>2, <2>3, TagAssumption, WordAssumption
<1>9. half = 2 * (2^b * 2^c)
  <2>1. WORD_SIZE - 1 = (b + c) + 1 /\ b + c \in Nat BY <1>8, WordAssumption
  <2> HIDE DEF b, c
  <2>2. half = 2 * 2^(b + c) BY <2>1, PowerDoubles DEF half
  <2> QED BY <1>8, <2>2, PowerAdds
<1>10. 2^b <= 2^b * 2^c /\ 2^b * 2^c \in Nat
  <2> HIDE DEF b, c
  <2>1. 2^b \in Nat /\ 2^c \in Nat /\ 1 <= 2^c BY <1>8, PowerPositive
  <2>2. 2^b * (2^c - 1) \in Nat BY <2>1
  <2>3. 2^b * (2^c - 1) = 2^b * 2^c - 2^b BY <2>1
  <2>4. 2^b * 2^c \in Nat BY <2>1
  <2> QED BY <2>1, <2>2, <2>3, <2>4
<1>11. h[n] \in Nat /\ 2 * h[n] \in -half .. half - 1
  <2>1. h[n] \in 0 .. 2^b - 1 /\ 2^b \in Nat BY <1>7, <1>8, PowerPositive
  <2> HIDE DEF b, c
  <2> QED BY <1>9, <1>10, <2>1
<1>12. UNBOX(BOX(h[n])) = h[n]
  <2> DEFINE v == h[n]
  <2>1. v \in Int /\ 2 * v \in -half .. half - 1 BY <1>11
  <2> HIDE DEF v
  <2>2. UNBOX(BOX(v)) = v BY <2>1, UnboxBox
  <2> QED BY <2>2 DEF v
<1> QED BY <1>6, <1>11, <1>12 DEF LtagHash

-------------------------------------------------------------------------------
(* Patterns *)

LEMMA TruthIs == ASSUME NEW b \in BOOLEAN PROVE truth(b) = IF b THEN 3 ELSE 1
<1>1. half \in Nat /\ 2 <= half BY HalfEven
<1> QED BY <1>1 DEF truth, BOX, word

\* The header of an object holds its type and its length.
LEMMA HeaderOf ==
  ASSUME NEW p \in DOMAIN Heap
  PROVE  /\ TAG(p) = type_tag[Heap[p].type]
         /\ Heap[p].type \in {"ARRAY", "SEXP"} => LEN(p) = Len(Heap[p].members)
<1> DEFINE o == Heap[p]
<1>1. o.type \in DOMAIN type_tag /\ Len(o.text) \in Nat /\ Len(o.members) \in Nat
  BY HeapAssumption
<1> HIDE DEF o
<1>2. type_tag[o.type] \in {1, 3, 5, 7} BY <1>1 DEF type_tag
<1> DEFINE n == CASE o.type = "STRING"  -> Len(o.text)
                  [] o.type = "CLOSURE" -> Len(o.members) + 1
                  [] OTHER              -> Len(o.members)
           t == type_tag[o.type]
<1>3. n \in Nat BY <1>1
<1>4. o.type \in {"ARRAY", "SEXP"} => n = Len(o.members) OBVIOUS
<1>5. header(p) = t + 8 * n BY DEF header, o
<1> HIDE DEF n
<1>6. t \in 0 .. 7 BY <1>2
<1> HIDE DEF t
<1>7. header(p) % 8 = t /\ header(p) \div 8 = n BY <1>3, <1>5, <1>6
<1> QED BY <1>4, <1>7 DEF TAG, LEN, t, o

LEMMA TypeIs ==
  ASSUME NEW w, has_header(w), NEW type \in DOMAIN type_tag
  PROVE  is_type(w, type) <=> ~UNBOXED(w) /\ Heap[w].type = type
<1>1. CASE UNBOXED(w) BY <1>1 DEF is_type
<1>2. CASE ~UNBOXED(w)
  <2>1. w \in DOMAIN Heap BY <1>2 DEF has_header, is_valid_heap_pointer
  <2>2. TAG(w) = type_tag[Heap[w].type] /\ Heap[w].type \in DOMAIN type_tag
    BY <2>1, HeaderOf, HeapAssumption
  <2> QED BY <1>2, <2>2 DEF is_type, type_tag
<1> QED BY <1>1, <1>2

LEMMA LengthUnboxed == ASSUME NEW n \in lengths PROVE n \in Nat /\ UNBOX(BOX(n)) = n
<1>1. half \in Nat /\ 2 <= half BY HalfEven
<1>2. n \in Nat /\ 2 * n \in -half .. half - 1 BY <1>1 DEF lengths
<1> QED BY <1>2, UnboxBox

\* The first word of an s-expression is the hash of its tag.
LEMMA FirstIsHash ==
  ASSUME NEW p \in DOMAIN Heap, Heap[p].type = "SEXP"
  PROVE  /\ contents(p)[1] = hash_of_chars(Heap[p].name)
         /\ de_hash[contents(p)[1]] = first_chars(Heap[p].name)
<1>1. /\ Heap[p].name \in Seq(Nat) /\ ~tag_fails(Heap[p].name)
      /\ Heap[p].members \in Seq(Word)
  BY HeapAssumption
<1>2. contents(p)[1] = UNBOX(LtagHash(Heap[p].name)) BY <1>1 DEF contents
<1>3. contents(p)[1] = hash_of_chars(Heap[p].name) BY <1>1, <1>2, HashFits
<1> QED BY <1>1, <1>3 DEF tag_fails

\* Two tags that can be hashed have one hash if their first characters agree.
LEMMA SameHash ==
  ASSUME NEW s \in Seq(Nat), NEW t \in Seq(Nat), ~tag_fails(s), ~tag_fails(t)
  PROVE  hash_of_chars(s) = hash_of_chars(t) <=> first_chars(s) = first_chars(t)
<1>1. hash_of_chars(s) = hash_of_chars(t) => first_chars(s) = first_chars(t) BY DEF tag_fails
<1>2. first_chars(s) = first_chars(t) => hash_of_chars(s) = hash_of_chars(t) BY HashOfChars
<1> QED BY <1>1, <1>2

\* A pattern matches a value exactly if the value is of the type, the tag and
\* the length that the pattern names, in the runtime, and each pattern of the
\* interpreter (check_tag, patt) matches what its counterpart there matches, for
\* every heap that the allocating functions leave behind.
THEOREM PatternsMatchHolds == PatternsMatch
<1> SUFFICES ASSUME has_header(x) PROVE PatternsMatch BY DEF PatternsMatch
<1> DEFINE yes == BOX(1)
           kind == IF UNBOXED(x) THEN "val" ELSE Heap[x].type
<1>1. yes = 3
  <2>1. half \in Nat /\ 2 <= half BY HalfEven
  <2> QED BY <2>1 DEF BOX, word
<1>2. \A b \in BOOLEAN : truth(b) = IF b THEN 3 ELSE 1 BY TruthIs
<1>3. \A type \in DOMAIN type_tag :
        /\ is_type(x, type) \in BOOLEAN
        /\ is_type(x, type) <=> ~UNBOXED(x) /\ Heap[x].type = type
  <2>1. \A type : is_type(x, type) \in BOOLEAN BY DEF is_type
  <2> QED BY <2>1, TypeIs
<1>4. DOMAIN type_tag = {"STRING", "ARRAY", "SEXP", "CLOSURE"} BY DEF type_tag
<1>5. \A type \in DOMAIN type_tag : is_type(x, type) <=> kind = type BY <1>3, <1>4
<1>6. UNBOXED(x) \in BOOLEAN BY DEF UNBOXED
<1>7. ~UNBOXED(x) => x \in DOMAIN Heap BY DEF has_header, is_valid_heap_pointer
<1>8. UNBOXED(x) <=> kind = "val"
  <2>1. ~UNBOXED(x) => Heap[x].type \in DOMAIN type_tag BY <1>7, HeapAssumption
  <2> QED BY <1>4, <2>1
<1> HIDE DEF yes, kind
<1>9. \A type \in DOMAIN type_tag : Btype_patt(x, type) = yes <=> kind = type
  BY <1>1, <1>2, <1>3, <1>5 DEF Btype_patt
<1>10. ASSUME NEW type \in DOMAIN type_tag PROVE PATT(x, patt_of[type]) = Btype_patt(x, type)
  <2>1. check_tag(x, patt_of[type]) = is_type(x, type) /\ patt_of[type] # "val"
    BY <1>4 DEF patt_of, check_tag
  <2> QED BY <2>1 DEF PATT, Btype_patt
<1>11. Bunboxed_patt(x) = yes <=> kind = "val" BY <1>1, <1>2, <1>6, <1>8 DEF Bunboxed_patt
<1>12. /\ PATT(x, "val") = Bunboxed_patt(x) /\ PATT(x, "ref") = Bboxed_patt(x)
       /\ Bboxed_patt(x) # Bunboxed_patt(x)
  <2>1. check_tag(x, "ref") = ~UNBOXED(x) BY DEF check_tag
  <2>2. PATT(x, "ref") = Bboxed_patt(x) /\ PATT(x, "val") = Bunboxed_patt(x)
    BY <2>1 DEF PATT, Bboxed_patt, Bunboxed_patt
  <2>3. (~UNBOXED(x)) \in BOOLEAN BY DEF UNBOXED
  <2>4. CASE UNBOXED(x)
    <3>1. truth(~UNBOXED(x)) = 1 BY <1>2, <2>3, <2>4
    <3>2. truth(UNBOXED(x)) = 3 BY <1>2, <1>6, <2>4
    <3> QED BY <2>2, <3>1, <3>2 DEF Bboxed_patt, Bunboxed_patt
  <2>5. CASE ~UNBOXED(x)
    <3>1. truth(~UNBOXED(x)) = 3 BY <1>2, <2>3, <2>5
    <3>2. truth(UNBOXED(x)) = 1 BY <1>2, <1>6, <2>5
    <3> QED BY <2>2, <3>1, <3>2 DEF Bboxed_patt, Bunboxed_patt
  <2> QED BY <2>4, <2>5
<1>13. ASSUME NEW s \in names, NEW n \in lengths, ~tag_fails(s)
       PROVE  TAG_instruction(x, s, n) = yes <=>
                kind = "SEXP" /\ first_chars(Heap[x].name) = first_chars(s)
                  /\ Len(Heap[x].members) = n
  <2>1. s \in Seq(Nat) BY HeapAssumption DEF names
  <2>2. UNBOX(LtagHash(s)) = hash_of_chars(s) BY <1>13, <2>1, HashFits
  <2>3. UNBOX(BOX(n)) = n BY LengthUnboxed
  <2> DEFINE matches == is_type(x, "SEXP") /\ contents(x)[1] = hash_of_chars(s) /\ LEN(x) = n
  <2>4. TAG_instruction(x, s, n) = truth(matches)
    BY <2>2, <2>3 DEF TAG_instruction, Btag
  <2>5. matches \in BOOLEAN BY <1>3, <1>4
  <2>6. matches <=> kind = "SEXP" /\ first_chars(Heap[x].name) = first_chars(s)
                      /\ Len(Heap[x].members) = n
    <3>1. CASE kind # "SEXP" BY <1>4, <1>5, <3>1
    <3>2. CASE kind = "SEXP"
      <4>1. is_type(x, "SEXP") /\ x \in DOMAIN Heap /\ Heap[x].type = "SEXP"
        BY <1>3, <1>4, <1>5, <1>7, <3>2
      <4>2. LEN(x) = Len(Heap[x].members) BY <4>1, HeaderOf
      <4>3. contents(x)[1] = hash_of_chars(Heap[x].name) BY <4>1, FirstIsHash
      <4>4. Heap[x].name \in Seq(Nat) /\ ~tag_fails(Heap[x].name) BY <4>1, HeapAssumption
      <4>5. hash_of_chars(Heap[x].name) = hash_of_chars(s)
              <=> first_chars(Heap[x].name) = first_chars(s)
        BY <1>13, <2>1, <4>4, SameHash
      <4> QED BY <3>2, <4>1, <4>2, <4>3, <4>5
    <3> QED BY <3>1, <3>2
  <2> HIDE DEF matches
  <2> QED BY <1>1, <1>2, <2>4, <2>5, <2>6
<1>14. ASSUME NEW n \in lengths
       PROVE  Barray_patt(x, BOX(n)) = yes <=> kind = "ARRAY" /\ Len(Heap[x].members) = n
  <2> DEFINE matches == is_type(x, "ARRAY") /\ LEN(x) = n
  <2>1. Barray_patt(x, BOX(n)) = truth(matches) BY LengthUnboxed DEF Barray_patt
  <2>2. matches \in BOOLEAN BY <1>3, <1>4
  <2>3. matches <=> kind = "ARRAY" /\ Len(Heap[x].members) = n
    <3>1. CASE kind # "ARRAY" BY <1>4, <1>5, <3>1
    <3>2. CASE kind = "ARRAY"
      <4>1. is_type(x, "ARRAY") /\ x \in DOMAIN Heap /\ Heap[x].type = "ARRAY"
        BY <1>3, <1>4, <1>5, <1>7, <3>2
      <4> QED BY <3>2, <4>1, HeaderOf
    <3> QED BY <3>1, <3>2
  <2> HIDE DEF matches
  <2> QED BY <1>1, <1>2, <2>1, <2>2, <2>3
<1>15. kind = "SEXP" => de_hash[contents(x)[1]] = first_chars(Heap[x].name)
  <2>1. kind = "SEXP" => x \in DOMAIN Heap /\ Heap[x].type = "SEXP"
    BY <1>3, <1>4, <1>5, <1>7
  <2> QED BY <2>1, FirstIsHash
<1> QED BY <1>9, <1>11, <1>12, <1>13, <1>14, <1>15, <1>10 DEF PatternsMatch, yes, kind

-------------------------------------------------------------------------------
(* The string buffer *)

\* The recursive function in FlattenSeq exists.
flat(s) == CHOOSE f : f = [i \in 1 .. Len(s) |-> IF i = 1 THEN s[i] ELSE f[i - 1] \o s[i]]

LEMMA FlatDefined ==
  ASSUME NEW S, NEW s \in Seq(Seq(S))
  PROVE  \A i \in 1 .. Len(s) : flat(s)[i] = IF i = 1 THEN s[i] ELSE flat(s)[i - 1] \o s[i]
<1> DEFINE Is(f, m) == f = [i \in 1 .. m |-> IF i = 1 THEN s[i] ELSE f[i - 1] \o s[i]]
           wrong == {m \in Nat : ~ \E f : Is(f, m)}
<1>1. Len(s) \in Nat OBVIOUS
<1>2. wrong = {}
  <2> SUFFICES ASSUME wrong # {} PROVE FALSE OBVIOUS
  <2>1. PICK m \in wrong : \A i \in wrong : m <= i BY SmallestPlace
  <2>2. CASE m = 0
    <3> DEFINE f == [i \in 1 .. 0 |-> 0]
    <3>1. Is(f, 0) OBVIOUS
    <3> QED BY <2>1, <2>2, <3>1
  <2>3. CASE m # 0
    <3>1. m - 1 \in Nat /\ m - 1 \notin wrong
      <4>1. m \in Nat OBVIOUS
      <4> HIDE DEF wrong
      <4> QED BY <2>1, <2>3, <4>1
    <3>2. PICK g : Is(g, m - 1) BY <3>1
    <3> DEFINE f == [i \in 1 .. m |-> IF i < m THEN g[i] ELSE IF m = 1 THEN s[m] ELSE g[m - 1] \o s[m]]
    <3>3. \A i \in 1 .. m : f[i] = IF i = 1 THEN s[i] ELSE f[i - 1] \o s[i]
      <4>1. SUFFICES ASSUME NEW i \in 1 .. m
                     PROVE  f[i] = IF i = 1 THEN s[i] ELSE f[i - 1] \o s[i]
        OBVIOUS
      <4>2. CASE i < m
        <5>1. i \in 1 .. m - 1 /\ (i # 1 => i - 1 \in 1 .. m /\ i - 1 < m) BY <2>1, <4>2
        <5>2. f[i] = g[i] /\ (i # 1 => f[i - 1] = g[i - 1]) BY <4>2, <5>1
        <5>3. g[i] = IF i = 1 THEN s[i] ELSE g[i - 1] \o s[i] BY <3>2, <5>1
        <5> QED BY <5>2, <5>3
      <4>3. CASE i = m
        <5>1. m \in 1 .. m /\ ~(m < m) /\ (m # 1 => m - 1 \in 1 .. m /\ m - 1 < m) BY <2>1, <2>3
        <5>2. f[m] = IF m = 1 THEN s[m] ELSE g[m - 1] \o s[m] BY <5>1
        <5>3. m # 1 => f[m - 1] = g[m - 1] BY <5>1
        <5> QED BY <4>3, <5>2, <5>3
      <4> QED BY <2>1, <4>2, <4>3
    <3>4. Is(f, m)
      <4>1. f = [i \in 1 .. m |-> f[i]] OBVIOUS
      <4> HIDE DEF f
      <4> QED BY <3>3, <4>1
    <3> QED BY <2>1, <3>4
  <2> QED BY <2>2, <2>3
<1>3. \E f : Is(f, Len(s)) BY <1>1, <1>2
<1>4. Is(flat(s), Len(s)) BY <1>3 DEF flat
<1> DEFINE f == flat(s)
<1> HIDE DEF f
<1>5. f = [i \in 1 .. Len(s) |-> IF i = 1 THEN s[i] ELSE f[i - 1] \o s[i]] BY <1>4 DEF f
<1>6. \A i \in 1 .. Len(s) : f[i] = IF i = 1 THEN s[i] ELSE f[i - 1] \o s[i] BY <1>5
<1> QED BY <1>6 DEF f

LEMMA FlatSteps ==
  ASSUME NEW S, NEW s \in Seq(Seq(S)), s # << >>
  PROVE  /\ FlattenSeq(s) = flat(s)[Len(s)] /\ Len(s) \in Nat \ {0}
         /\ flat(s)[1] = s[1]
         /\ \A i \in 1 .. Len(s) - 1 : flat(s)[i + 1] = flat(s)[i] \o s[i + 1]
<1>1. Len(s) \in Nat \ {0} OBVIOUS
<1>2. FlattenSeq(s) = flat(s)[Len(s)] BY <1>1 DEF FlattenSeq, flat
<1>3. 1 \in 1 .. Len(s) /\ \A i \in 1 .. Len(s) - 1 : i + 1 \in 1 .. Len(s) /\ i + 1 # 1 /\ (i + 1) - 1 = i
  BY <1>1
<1>4. flat(s)[1] = s[1] BY <1>3, FlatDefined
<1>5. ASSUME NEW i \in 1 .. Len(s) - 1 PROVE flat(s)[i + 1] = flat(s)[i] \o s[i + 1]
  <2> DEFINE k == i + 1
  <2>1. k \in 1 .. Len(s) /\ k # 1 /\ k - 1 = i BY <1>3
  <2> HIDE DEF k
  <2>2. flat(s)[k] = flat(s)[k - 1] \o s[k] BY <2>1, FlatDefined
  <2> QED BY <2>1, <2>2 DEF k
<1> QED BY <1>1, <1>2, <1>4, <1>5

LEMMA FlattenType ==
  ASSUME NEW S, NEW s \in Seq(Seq(S))
  PROVE  /\ FlattenSeq(s) \in Seq(S)
         /\ s # << >> => \A i \in 1 .. Len(s) : flat(s)[i] \in Seq(S)
<1>1. CASE s = << >> BY <1>1 DEF FlattenSeq
<1>2. CASE s # << >>
  <2> DEFINE wrong == {i \in 1 .. Len(s) : flat(s)[i] \notin Seq(S)}
  <2>1. wrong = {}
    <3> SUFFICES ASSUME wrong # {} PROVE FALSE OBVIOUS
    <3>1. wrong \in SUBSET Nat OBVIOUS
    <3>2. PICK i \in wrong : \A j \in wrong : i <= j BY <3>1, SmallestPlace
    <3>3. i # 1
      <4>1. flat(s)[1] = s[1] BY <1>2, FlatSteps
      <4>2. 1 \in 1 .. Len(s) => s[1] \in Seq(S) OBVIOUS
      <4> QED BY <3>2, <4>1, <4>2
    <3> DEFINE j == i - 1
    <3>4. j \in 1 .. Len(s) - 1 /\ i = j + 1 /\ ~(i <= j) BY <3>3
    <3>5. j \in 1 .. Len(s) /\ j \notin wrong BY <3>2, <3>4
    <3> HIDE DEF j
    <3>6. flat(s)[j] \in Seq(S) /\ s[j + 1] \in Seq(S) BY <3>4, <3>5
    <3>7. flat(s)[i] = flat(s)[j] \o s[j + 1] BY <1>2, <3>4, FlatSteps
    <3>8. flat(s)[j] \o s[j + 1] \in Seq(S) BY <3>6, ConcatProperties
    <3> QED BY <3>2, <3>7, <3>8
  <2>2. \A i \in 1 .. Len(s) : flat(s)[i] \in Seq(S) BY <2>1
  <2>3. FlattenSeq(s) = flat(s)[Len(s)] /\ Len(s) \in Nat \ {0} BY <1>2, FlatSteps
  <2>4. Len(s) \in 1 .. Len(s) BY <2>3
  <2> QED BY <2>2, <2>3, <2>4
<1> QED BY <1>1, <1>2

LEMMA ConcatAssociates ==
  ASSUME NEW S
  PROVE  \A a, b, c \in Seq(S) : (a \o b) \o c = a \o (b \o c)
<1> SUFFICES ASSUME NEW a \in Seq(S), NEW b \in Seq(S), NEW c \in Seq(S)
             PROVE  (a \o b) \o c = a \o (b \o c)
  OBVIOUS
<1> QED BY ConcatAssociative

\* A text is its first piece and what follows.
LEMMA FlattenHeadTail ==
  ASSUME NEW S, NEW s \in Seq(Seq(S)), s # << >>
  PROVE  FlattenSeq(s) = Head(s) \o FlattenSeq(Tail(s))
<1> DEFINE t == Tail(s)
<1>1. t \in Seq(Seq(S)) /\ Len(t) = Len(s) - 1 /\ Head(s) = s[1] /\ s[1] \in Seq(S)
      /\ Len(s) \in Nat \ {0} /\ \A i \in 1 .. Len(t) : t[i] = s[i + 1]
  OBVIOUS
<1> HIDE DEF t
<1>2. CASE t = << >>
  <2>1. Len(s) = 1 BY <1>1, <1>2
  <2>2. FlattenSeq(s) = s[1] BY <2>1, FlatSteps
  <2>3. FlattenSeq(t) = << >> BY <1>2 DEF FlattenSeq
  <2> QED BY <1>1, <2>2, <2>3 DEF t
<1>3. CASE t # << >>
  <2> DEFINE wrong == {i \in 1 .. Len(t) : flat(s)[i + 1] # s[1] \o flat(t)[i]}
  <2>1. wrong = {}
    <3> SUFFICES ASSUME wrong # {} PROVE FALSE OBVIOUS
    <3>1. wrong \in SUBSET Nat
      <4>1. wrong \subseteq 1 .. Len(t) OBVIOUS
      <4>2. 1 .. Len(t) \subseteq Nat BY <1>1
      <4> HIDE DEF wrong
      <4> QED BY <4>1, <4>2
    <3>2. PICK i \in wrong : \A j \in wrong : i <= j BY <3>1, SmallestPlace
    <3>3. i \in 1 .. Len(t) /\ i + 1 \in 1 .. Len(s) /\ i \in 1 .. Len(s) - 1
          /\ t[i] = s[i + 1] /\ t[i] \in Seq(S)
      BY <1>1
    <3>4. flat(s)[i + 1] = flat(s)[i] \o t[i] BY <3>3, FlatSteps
    <3>5. CASE i = 1
      <4>1. flat(s)[1] = s[1] /\ flat(t)[1] = t[1] BY <1>1, <1>3, FlatSteps
      <4> QED BY <3>2, <3>4, <3>5, <4>1
    <3>6. CASE i # 1
      <4> DEFINE j == i - 1
      <4>1. j \in 1 .. Len(t) - 1 /\ j \in 1 .. Len(t) /\ i = j + 1 /\ ~(i <= j)
        BY <1>1, <3>3, <3>6
      <4>2. j \notin wrong BY <3>2, <4>1
      <4> HIDE DEF j
      <4>3. flat(s)[i] = s[1] \o flat(t)[j] BY <4>1, <4>2
      <4>4. flat(t)[i] = flat(t)[j] \o t[i] BY <1>1, <1>3, <4>1, FlatSteps
      <4>5. flat(t)[j] \in Seq(S) BY <1>1, <1>3, <4>1, FlattenType
      <4>6. (s[1] \o flat(t)[j]) \o t[i] = s[1] \o (flat(t)[j] \o t[i])
        <5> DEFINE a == s[1]
                   b == flat(t)[j]
                   c == t[i]
        <5>1. a \in Seq(S) /\ b \in Seq(S) /\ c \in Seq(S) BY <1>1, <3>3, <4>5
        <5> HIDE DEF a, b, c, wrong
        <5>2. (a \o b) \o c = a \o (b \o c) BY ONLY <5>1, ConcatAssociates
        <5> QED BY <5>2 DEF a, b, c
      <4> QED BY <3>2, <3>4, <4>3, <4>4, <4>6
    <3> QED BY <3>5, <3>6
  <2>2. Len(t) \in 1 .. Len(t) /\ Len(t) + 1 = Len(s) BY <1>1, <1>3
  <2>3. flat(s)[Len(s)] = s[1] \o flat(t)[Len(t)] BY <2>1, <2>2
  <2>4. FlattenSeq(s) = flat(s)[Len(s)] /\ FlattenSeq(t) = flat(t)[Len(t)]
    BY <1>1, <1>3, FlatSteps
  <2> QED BY <1>1, <2>3, <2>4 DEF t
<1> QED BY <1>2, <1>3

\* What stands in front of ptr is printed, and there is always room for a zero.
BufferInv(Symbols) ==
  /\ held \in Seq(Symbols) /\ ptr \in 0 .. Len(held) /\ len \in Nat
  /\ pieces \in Seq(Seq(Symbols)) /\ asked \in Seq(Seq(Symbols))
  /\ BufferHoldsText

LEMMA NewBuffer ==
  ASSUME NEW S, NEW text \in Seq(Seq(S))
  PROVE  /\ 0 < STRINGBUF_INIT /\ Len(<< >>) < STRINGBUF_INIT /\ STRINGBUF_INIT \in Nat
         /\ SubSeq(<< >>, 1, 0) \o FlattenSeq(text) = FlattenSeq(text)
<1>1. FlattenSeq(text) \in Seq(S) BY FlattenType
<1>2. SubSeq(<< >>, 1, 0) = << >> OBVIOUS
<1> QED BY <1>1, <1>2, StringBufAssumption

LEMMA BufferStep ==
  ASSUME NEW S, BufferInv(S), VprintStringBuf
  PROVE  BufferInv(S)'
<1> DEFINE piece == Head(pieces)
           front == SubSeq(held, 1, ptr)
           k == IF Len(piece) < rest THEN Len(piece) ELSE rest - 1
           part == SubSeq(piece, 1, k)
<1>1. /\ held \in Seq(S) /\ ptr \in 0 .. Len(held) /\ len \in Nat /\ ptr < len
      /\ pieces \in Seq(Seq(S)) /\ pieces # << >> /\ asked \in Seq(Seq(S)) /\ asked' = asked
      /\ front \o FlattenSeq(pieces) = FlattenSeq(asked)
  BY DEF BufferInv, BufferHoldsText, VprintStringBuf
<1>2. piece \in Seq(S) /\ Tail(pieces) \in Seq(Seq(S)) BY <1>1
<1>3. front \in Seq(S) /\ Len(front) = ptr BY <1>1
<1>4. rest \in Nat \ {0} /\ rest = len - ptr BY <1>1 DEF rest
<1> HIDE DEF piece, front
<1>5. k \in 0 .. Len(piece) /\ k <= rest - 1 BY <1>2, <1>4
<1> HIDE DEF k
<1>6. part \in Seq(S) /\ Len(part) = k BY <1>2, <1>5
<1> HIDE DEF part
<1>7. held' = front \o part BY DEF VprintStringBuf, written, front, part, piece, k
<1>8. held' \in Seq(S) /\ Len(held') = ptr + k /\ Len(held') < len
  <2>1. held' \in Seq(S) /\ Len(held') = ptr + k
    BY <1>3, <1>6, <1>7, ConcatProperties
  <2> QED BY <1>1, <1>2, <1>4, <1>5, <2>1
<1>9. SubSeq(held', 1, ptr) = front BY <1>1, <1>3, <1>6, <1>7
<1>10. CASE does_not_fit(piece)
  <2>1. len' = 2 * len /\ ptr' = ptr /\ pieces' = pieces
    BY <1>10 DEF VprintStringBuf, piece
  <2>2. len' \in Nat /\ len < len' /\ ptr' \in 0 .. Len(held') BY <1>1, <1>5, <1>8, <2>1
  <2>3. SubSeq(held', 1, ptr') \o FlattenSeq(pieces') = FlattenSeq(asked') BY <1>1, <1>9, <2>1
  <2> QED BY <1>1, <1>8, <2>1, <2>2, <2>3 DEF BufferInv, BufferHoldsText
<1>11. CASE ~does_not_fit(piece)
  <2>1. len' = len /\ ptr' = ptr + Len(piece) /\ pieces' = Tail(pieces)
    BY <1>11 DEF VprintStringBuf, piece
  <2>2. k = Len(piece) BY <1>2, <1>4, <1>11 DEF does_not_fit, k
  <2>3. part = piece BY <1>2, <2>2 DEF part
  <2>4. ptr' = Len(held') BY <1>8, <2>1, <2>2
  <2>5. SubSeq(held', 1, ptr') = front \o piece BY <1>7, <1>8, <2>3, <2>4
  <2>6. FlattenSeq(pieces) = piece \o FlattenSeq(pieces')
    BY <1>1, <2>1, FlattenHeadTail DEF piece
  <2>7. FlattenSeq(pieces') \in Seq(S) BY <1>2, <2>1, FlattenType
  <2>8. (front \o piece) \o FlattenSeq(pieces') = front \o (piece \o FlattenSeq(pieces'))
    BY <1>2, <1>3, <2>7
  <2>9. SubSeq(held', 1, ptr') \o FlattenSeq(pieces') = FlattenSeq(asked')
    BY <1>1, <2>5, <2>6, <2>8
  <2>10. ptr' \in 0 .. Len(held') /\ ptr' < len' BY <1>8, <2>1, <2>4
  <2> QED BY <1>1, <1>2, <1>8, <2>1, <2>9, <2>10 DEF BufferInv, BufferHoldsText
<1> QED BY <1>10, <1>11

\* The string buffer never loses or repeats a part of a text, and there is
\* room for the zero behind it, whatever is printed and however small the
\* buffer is at first (vprintStringBuf).
THEOREM BufferHoldsTextHolds ==
  ASSUME NEW CONSTANT Symbols
  PROVE  StringBufSpec(Symbols) => []BufferHoldsText
<1>1. StringBufInit => BufferInv(Symbols)
  <2> SUFFICES ASSUME StringBufInit PROVE BufferInv(Symbols) OBVIOUS
  <2>1. << >> \in Seq(Seq(Symbols)) /\ << >> \in Seq(Symbols) /\ Len(<< >>) = 0 OBVIOUS
  <2>2. /\ 0 < STRINGBUF_INIT /\ Len(<< >>) < STRINGBUF_INIT /\ STRINGBUF_INIT \in Nat
        /\ SubSeq(<< >>, 1, 0) \o FlattenSeq(<< >>) = FlattenSeq(<< >>)
    BY <2>1, NewBuffer
  <2> QED BY <2>1, <2>2 DEF StringBufInit, BufferInv, BufferHoldsText
<1>2. ASSUME BufferInv(Symbols),
             [(\E text \in Seq(Seq(Symbols)) : Ask(text)) \/ VprintStringBuf]_bufVars
      PROVE  BufferInv(Symbols)'
  <2>1. ASSUME NEW text \in Seq(Seq(Symbols)), Ask(text) PROVE BufferInv(Symbols)'
    <3>1. /\ held' = << >> /\ ptr' = 0 /\ len' = STRINGBUF_INIT
          /\ pieces' = text /\ asked' = text
      BY <2>1 DEF Ask, createStringBuf
    <3>2. << >> \in Seq(Symbols) /\ Len(<< >>) = 0 OBVIOUS
    <3> QED BY <3>1, <3>2, NewBuffer DEF BufferInv, BufferHoldsText
  <2>2. CASE VprintStringBuf BY <1>2, <2>2, BufferStep
  <2>3. CASE UNCHANGED bufVars BY <1>2, <2>3 DEF bufVars, BufferInv, BufferHoldsText
  <2> QED BY <1>2, <2>1, <2>2, <2>3
<1>3. BufferInv(Symbols) => BufferHoldsText BY DEF BufferInv
<1> QED BY <1>1, <1>2, <1>3, PTL DEF StringBufSpec

================================================================================
