--------------------------- MODULE BytecodeTools_proofs ---------------------------
(***************************************************************************)
(* Theorems about the three programs that read bytecode, for every file,   *)
(* every set of bytes, every width of an integer and every depth of calls: *)
(* what the frequency counter holds lies inside the code it has read, the  *)
(* instructions are a prefix code, which is what operator< rests on, the   *)
(* counter reads the instructions that the disassembler prints, and the    *)
(* interpreter executes no others.                                         *)
(***************************************************************************)
EXTENDS BytecodeTools, TLAPS, SequenceTheorems, FiniteSetTheorems, WellFoundedInduction

-------------------------------------------------------------------------------
(* Decoding *)

\* The groups of opcodes have no opcode in common.
LEMMA GroupsDisjoint ==
  /\ no_operands \cap (one_int \cup a_string) = {}
  /\ no_operands \cap (two_ints \cup a_string_and_int) = {}
  /\ (one_int \cup a_string) \cap (two_ints \cup a_string_and_int) = {}
  /\ closure \notin no_operands \cup one_int \cup a_string \cup two_ints \cup a_string_and_int
  BY DEF no_operands, one_int, two_ints, a_string, a_string_and_int, closure, Nibble

\* read_instruction advances by what the group of the opcode says.
LEMMA InsnEnd ==
  ASSUME NEW p
  PROVE  /\ opcode(p) \in no_operands => insn_end(p) = p + 1
         /\ opcode(p) \in one_int \cup a_string => insn_end(p) = p + 1 + SIZEOF_INT
         /\ opcode(p) \in two_ints \cup a_string_and_int => insn_end(p) = p + 1 + 2 * SIZEOF_INT
         /\ opcode(p) = closure => insn_end(p) = capture(p, n_captured(p) + 1)
<1>1. opcode(p) \in no_operands => insn_end(p) = p + 1
  BY GroupsDisjoint DEF insn_end
<1>2. opcode(p) \in one_int \cup a_string => insn_end(p) = p + 1 + SIZEOF_INT
  BY GroupsDisjoint DEF insn_end
<1>3. opcode(p) \in two_ints \cup a_string_and_int => insn_end(p) = p + 1 + 2 * SIZEOF_INT
  BY GroupsDisjoint DEF insn_end
<1>4. opcode(p) = closure => insn_end(p) = capture(p, n_captured(p) + 1)
  BY GroupsDisjoint DEF insn_end
<1> QED BY <1>1, <1>2, <1>3, <1>4

\* The loop over captured variables runs a natural number of times.
LEMMA CapturedNat == ASSUME NEW p PROVE n_captured(p) \in Nat
  BY DEF n_captured

\* Arithmetic: one more factor.
LEMMA OneMore ==
  ASSUME NEW n \in Nat, NEW c \in Nat
  PROVE  n * c \in Nat /\ (n - 1) * c \in Int /\ n * c = (n - 1) * c + c
<1>1. \A m \in Int : m * c \in Int /\ (m + 1) * c = m * c + c OBVIOUS
<1>2. n * c \in Nat OBVIOUS
<1> QED BY <1>1, <1>2

\* One captured variable takes a byte and an integer.
LEMMA CaptureStep ==
  ASSUME NEW p \in Nat, NEW n \in Nat
  PROVE  /\ capture(p, n) \in Int
         /\ capture(p, n + 1) = capture(p, n) + 1 + SIZEOF_INT
         /\ capture(p, 1) = p + 1 + 2 * SIZEOF_INT
         /\ capture(p, n + 1) - p >= 1 + 2 * SIZEOF_INT
<1> DEFINE c == capture_size
<1>1. SIZEOF_INT \in Nat /\ c = 1 + SIZEOF_INT /\ c \in Nat
  BY CodeAssumption DEF capture_size
<1>2. capture(p, n + 1) = p + 1 + 2 * SIZEOF_INT + n * c
  <2>1. n + 1 - 1 = n OBVIOUS
  <2> QED BY <2>1 DEF capture
<1>3. capture(p, 1) = p + 1 + 2 * SIZEOF_INT
  <2>1. 1 - 1 = 0 /\ 0 * c = 0 BY <1>1
  <2> QED BY <1>1, <2>1 DEF capture
<1>4. capture(p, n) = p + 1 + 2 * SIZEOF_INT + (n - 1) * c
  BY DEF capture
<1>5. n * c \in Nat /\ (n - 1) * c \in Int /\ n * c = (n - 1) * c + c
  BY <1>1, OneMore
<1> HIDE DEF c
<1> QED BY <1>1, <1>2, <1>3, <1>4, <1>5

\* An instruction that is read has a byte at least and ends inside the code.
LEMMA InsnInside ==
  ASSUME NEW p \in Nat \ {0}, Len(code) \in Nat, p < eof, can_read(p)
  PROVE  insn_end(p) \in Nat /\ p < insn_end(p) /\ insn_end(p) <= eof
<1>1. SIZEOF_INT \in Nat \ {0} BY CodeAssumption
<1>2. CASE opcode(p) \in no_operands
  BY <1>2, InsnEnd DEF eof
<1>3. CASE opcode(p) \in one_int \/ opcode(p) \in a_string
  BY <1>1, <1>3, InsnEnd, GroupsDisjoint DEF eof, can_read, ints_fit, string_fits
<1>4. CASE opcode(p) \in two_ints \/ opcode(p) \in a_string_and_int
  BY <1>1, <1>4, InsnEnd, GroupsDisjoint DEF eof, can_read, ints_fit
<1>5. CASE opcode(p) = closure
  <2> DEFINE n == n_captured(p)
  <2>1. n \in Nat BY CapturedNat
  <2>2. closure_fits(p) BY <1>5, GroupsDisjoint DEF can_read
  <2>3. insn_end(p) = capture(p, n + 1) BY <1>5, InsnEnd
  <2>4. insn_end(p) \in Nat /\ p < insn_end(p)
    <3>1. /\ capture(p, n) \in Int /\ capture(p, n + 1) = capture(p, n) + 1 + SIZEOF_INT
          /\ capture(p, n + 1) - p >= 1 + 2 * SIZEOF_INT
      BY <2>1, CaptureStep
    <3> QED BY <1>1, <2>3, <3>1
  <2>5. CASE n = 0
    BY <1>1, <2>2, <2>3, <2>4, <2>5, CaptureStep DEF closure_fits, ints_fit, eof
  <2>6. CASE n # 0
    <3>1. n \in 1 .. n BY <2>1, <2>6
    <3>2. ints_fit(capture(p, n) + 1, 1) BY <2>2, <3>1 DEF closure_fits
    <3>3. capture(p, n + 1) = capture(p, n) + 1 + SIZEOF_INT /\ capture(p, n) \in Int
      BY <2>1, CaptureStep
    <3> QED BY <1>1, <2>3, <2>4, <3>2, <3>3 DEF ints_fit, eof
  <2> QED BY <2>4, <2>5, <2>6
<1> QED BY <1>2, <1>3, <1>4, <1>5 DEF can_read

\* The first byte of an instruction is its opcode, whatever follows.
LEMMA SameOpcode ==
  ASSUME NEW p, NEW q, code[p] = code[q] PROVE opcode(p) = opcode(q)
  BY DEF opcode

\* Two closures whose first bytes agree capture the same number of variables.
LEMMA SameCaptured ==
  ASSUME NEW p \in Nat, NEW q \in Nat,
         \A m \in 0 .. 2 * SIZEOF_INT : code[p + m] = code[q + m]
  PROVE  n_captured(p) = n_captured(q)
<1>1. SIZEOF_INT \in Nat BY CodeAssumption
<1>2. ASSUME NEW i \in 1 .. SIZEOF_INT
      PROVE  code[p + 1 + SIZEOF_INT + i - 1] = code[q + 1 + SIZEOF_INT + i - 1]
  <2>1. SIZEOF_INT + i \in 0 .. 2 * SIZEOF_INT BY <1>1
  <2>2. code[p + (SIZEOF_INT + i)] = code[q + (SIZEOF_INT + i)] BY <2>1
  <2>3. /\ p + 1 + SIZEOF_INT + i - 1 = p + (SIZEOF_INT + i)
        /\ q + 1 + SIZEOF_INT + i - 1 = q + (SIZEOF_INT + i)
    BY <1>1
  <2> QED BY <2>2, <2>3
<1>3. int_bytes(p + 1 + SIZEOF_INT) = int_bytes(q + 1 + SIZEOF_INT)
  BY <1>2 DEF int_bytes
<1> QED BY <1>3 DEF n_captured

\* The instructions are a prefix code.
LEMMA PrefixCode ==
  ASSUME NEW p \in Nat \ {0}, NEW q \in Nat \ {0}, Len(code) \in Nat,
         p < eof, can_read(p), q < eof, can_read(q),
         \A m \in 0 .. insn_end(p) - p - 1 : code[p + m] = code[q + m]
  PROVE  insn_end(p) - p = insn_end(q) - q
<1>1. SIZEOF_INT \in Nat \ {0} BY CodeAssumption
<1>2. insn_end(p) \in Nat /\ p < insn_end(p) BY InsnInside
<1>3. code[p] = code[q]
  <2>1. 0 \in 0 .. insn_end(p) - p - 1 BY <1>2
  <2>2. code[p + 0] = code[q + 0] BY <2>1
  <2> QED BY <2>2
<1>4. opcode(p) = opcode(q) BY <1>3, SameOpcode
<1>5. CASE opcode(p) # closure
  BY <1>1, <1>4, <1>5, InsnEnd DEF can_read
<1>6. CASE opcode(p) = closure
  <2> DEFINE n == n_captured(p)
  <2>1. n \in Nat BY CapturedNat
  <2>2. insn_end(p) = capture(p, n + 1) /\ insn_end(q) = capture(q, n_captured(q) + 1)
    BY <1>4, <1>6, InsnEnd
  <2>3. insn_end(p) - p >= 1 + 2 * SIZEOF_INT BY <2>1, <2>2, CaptureStep
  <2>4. \A m \in 0 .. 2 * SIZEOF_INT : m \in 0 .. insn_end(p) - p - 1
    BY <1>1, <1>2, <2>3
  <2>5. n_captured(q) = n BY <2>4, SameCaptured
  <2> HIDE DEF n
  <2>6. PICK x \in Nat : x = n * capture_size
    BY <1>1, <2>1, OneMore DEF capture_size
  <2>7. n + 1 - 1 = n BY <2>1
  <2>8. /\ capture(p, n + 1) = p + 1 + 2 * SIZEOF_INT + x
        /\ capture(q, n + 1) = q + 1 + 2 * SIZEOF_INT + x
    <3>1. /\ capture(p, n + 1) = p + 1 + 2 * SIZEOF_INT + n * capture_size
          /\ capture(q, n + 1) = q + 1 + 2 * SIZEOF_INT + n * capture_size
      BY <2>1, <2>7 DEF capture
    <3> QED BY <2>6, <3>1
  <2> QED BY <1>1, <2>2, <2>5, <2>8 DEF n
<1> QED BY <1>5, <1>6

-------------------------------------------------------------------------------
(* The inductive invariant *)

Line  == [bytes: Seq(Byte), count: Nat \ {0}]
Entry == [begin: Nat \ {0}, end: Nat, count: Nat \ {0}]

\* The entry e of the map holds an instruction of the code.
decoded(e) == e.begin < eof /\ can_read(e.begin) /\ e.end = insn_end(e.begin)

IInv == TypeOK /\ \A k \in DOMAIN codes : decoded(codes[k])

\* A part of the code is a sequence of bytes.
LEMMA PartOfCode ==
  ASSUME code \in Seq(Byte), NEW m \in Nat \ {0}, NEW n \in Nat, n <= eof
  PROVE  SubSeq(code, m, n - 1) \in Seq(Byte)
<1>1. \A i \in m .. n - 1 : code[i] \in Byte
  BY LenProperties DEF eof
<1> QED BY <1>1, SubSeqProperties

\* The entry of an instruction that is new, and an entry that counts one more.
first_entry(i) == [begin |-> i.begin, end |-> i.end, count |-> 1]
one_more(e)    == [begin |-> e.begin, end |-> e.end, count |-> e.count + 1]

\* What try_emplace does to the map: the entry of the instruction counts one
\* more, or the instruction gets an entry, and the entries behind move on.
CountedAgain(i, k) ==
  /\ k \in DOMAIN codes /\ ~less(i, codes[k])
  /\ Len(codes') = Len(codes)
  /\ \A j \in 1 .. Len(codes) : codes'[j] = IF j = k THEN one_more(codes[k]) ELSE codes[j]
Inserted(i, k) ==
  /\ k \in 1 .. Len(codes) + 1 /\ (k \in DOMAIN codes => less(i, codes[k]))
  /\ Len(codes') = Len(codes) + 1
  /\ \A j \in 1 .. Len(codes) + 1 :
       codes'[j] = IF j < k THEN codes[j] ELSE IF j = k THEN first_entry(i) ELSE codes[j - 1]

\* try_emplace finds a place for every instruction.
LEMMA LowerBound ==
  ASSUME codes \in Seq(Entry), NEW i
  PROVE  lower_bound(i) \in 1 .. Len(codes) + 1
<1> DEFINE lower == {k \in DOMAIN codes : less(codes[k], i)}
<1>1. Len(codes) \in Nat /\ DOMAIN codes = 1 .. Len(codes)
  BY LenProperties
<1>2. IsFiniteSet(1 .. Len(codes)) /\ Cardinality(1 .. Len(codes)) = Len(codes)
  BY <1>1, FS_Interval
<1>3. lower \subseteq 1 .. Len(codes) BY <1>1
<1>4. IsFiniteSet(lower) /\ Cardinality(lower) <= Len(codes)
  BY <1>2, <1>3, FS_Subset
<1>5. Cardinality(lower) \in Nat BY <1>4, FS_CardinalityType
<1> QED BY <1>1, <1>4, <1>5 DEF lower_bound

\* The map after increment, entry by entry.
LEMMA Increment ==
  ASSUME codes \in Seq(Entry), NEW i, i.begin \in Nat \ {0}, i.end \in Nat, increment(i)
  PROVE  /\ codes' \in Seq(Entry)
         /\ CountedAgain(i, lower_bound(i)) \/ Inserted(i, lower_bound(i))
<1> DEFINE k == lower_bound(i)
           new == first_entry(i)
<1>1. Len(codes) \in Nat /\ DOMAIN codes = 1 .. Len(codes)
      /\ \A j \in 1 .. Len(codes) : codes[j] \in Entry
  BY LenProperties
<1>2. k \in 1 .. Len(codes) + 1 BY LowerBound
<1>0. \/ /\ k \in DOMAIN codes /\ ~less(i, codes[k])
         /\ codes' = [codes EXCEPT ![k].count = @ + 1]
      \/ /\ ~ (k \in DOMAIN codes /\ ~less(i, codes[k]))
         /\ codes' = SubSeq(codes, 1, k - 1) \o <<new>> \o SubSeq(codes, k, Len(codes))
  BY DEF increment, first_entry
<1> HIDE DEF k
<1>3. CASE codes' = [codes EXCEPT ![k].count = @ + 1] /\ k \in DOMAIN codes
           /\ ~less(i, codes[k])
  <2>1. codes[k] \in Entry BY <1>1, <1>3
  <2>2. PICK x \in Nat \ {0}, y \in Nat, n \in Nat \ {0} :
          codes[k] = [begin |-> x, end |-> y, count |-> n]
    BY <2>1 DEF Entry
  <2> DEFINE e == one_more(codes[k])
  <2>3. e \in Entry BY <2>2 DEF Entry, one_more
  <2>4. [codes[k] EXCEPT !.count = codes[k].count + 1] = e BY <2>2 DEF one_more
  <2>5. codes' = [codes EXCEPT ![k] = e] BY <1>3, <2>4
  <2> HIDE DEF e
  <2>6. k \in 1 .. Len(codes) BY <1>1, <1>3
  <2>7. /\ codes' \in Seq(Entry) /\ Len(codes') = Len(codes)
        /\ \A j \in 1 .. Len(codes) : codes'[j] = IF j = k THEN e ELSE codes[j]
    BY <2>3, <2>5, <2>6, ExceptSeq
  <2> QED BY <1>3, <2>7 DEF e, CountedAgain, k
<1>4. CASE /\ codes' = SubSeq(codes, 1, k - 1) \o <<new>> \o SubSeq(codes, k, Len(codes))
           /\ ~ (k \in DOMAIN codes /\ ~less(i, codes[k]))
  <2> DEFINE low == SubSeq(codes, 1, k - 1)
             high == SubSeq(codes, k, Len(codes))
             one == <<new>>
  <2>1. new \in Entry BY DEF Entry, first_entry
  <2> HIDE DEF new
  <2>2. one \in Seq(Entry) /\ Len(one) = 1 /\ one[1] = new BY <2>1
  <2>3. /\ low \in Seq(Entry) /\ Len(low) = k - 1
        /\ \A j \in 1 .. k - 1 : low[j] = codes[j]
    <3>1. k - 1 \in Int /\ \A j \in 1 .. k - 1 : codes[j] \in Entry BY <1>1, <1>2
    <3>2. /\ low \in Seq(Entry)
          /\ Len(low) = IF 1 <= k - 1 THEN k - 1 - 1 + 1 ELSE 0
          /\ \A j \in 1 .. k - 1 - 1 + 1 : low[j] = codes[1 + j - 1]
      BY <3>1, SubSeqProperties
    <3> QED BY <1>2, <3>2
  <2>4. /\ high \in Seq(Entry) /\ Len(high) = Len(codes) - k + 1
        /\ \A j \in 1 .. Len(codes) - k + 1 : high[j] = codes[k + j - 1]
    <3>1. k \in Int /\ \A j \in k .. Len(codes) : codes[j] \in Entry BY <1>1, <1>2
    <3>2. /\ high \in Seq(Entry)
          /\ Len(high) = IF k <= Len(codes) THEN Len(codes) - k + 1 ELSE 0
          /\ \A j \in 1 .. Len(codes) - k + 1 : high[j] = codes[k + j - 1]
      BY <1>1, <3>1, SubSeqProperties
    <3> QED BY <1>1, <1>2, <3>2
  <2> HIDE DEF low, high, one
  <2>5. /\ low \o one \in Seq(Entry) /\ Len(low \o one) = k
        /\ \A j \in 1 .. k : (low \o one)[j] = IF j <= k - 1 THEN low[j] ELSE one[j - (k - 1)]
    <3>1. /\ low \o one \in Seq(Entry) /\ Len(low \o one) = Len(low) + Len(one)
          /\ \A j \in 1 .. Len(low) + Len(one) :
               (low \o one)[j] = IF j <= Len(low) THEN low[j] ELSE one[j - Len(low)]
      BY <2>2, <2>3, ConcatProperties
    <3>2. Len(low) + Len(one) = k BY <1>2, <2>2, <2>3
    <3>3. Len(low) = k - 1 BY <2>3
    <3> QED BY <3>1, <3>2, <3>3
  <2>6. /\ (low \o one) \o high \in Seq(Entry)
        /\ Len((low \o one) \o high) = Len(codes) + 1
        /\ \A j \in 1 .. Len(codes) + 1 :
             ((low \o one) \o high)[j] = IF j <= k THEN (low \o one)[j] ELSE high[j - k]
    <3> DEFINE both == low \o one
    <3>1. both \in Seq(Entry) BY <2>5
    <3>2. /\ both \o high \in Seq(Entry) /\ Len(both \o high) = Len(both) + Len(high)
          /\ \A j \in 1 .. Len(both) + Len(high) :
               (both \o high)[j] = IF j <= Len(both) THEN both[j] ELSE high[j - Len(both)]
      BY <2>4, <3>1, ConcatProperties
    <3>3. Len(both) = k BY <2>5
    <3> HIDE DEF both
    <3>4. Len(both) + Len(high) = Len(codes) + 1 BY <1>1, <1>2, <2>4, <3>3
    <3> QED BY <3>2, <3>3, <3>4 DEF both
  <2>7. codes' = (low \o one) \o high BY <1>4 DEF low, one, high
  <2>9. ASSUME NEW j \in 1 .. Len(codes) + 1
        PROVE  codes'[j] = IF j < k THEN codes[j] ELSE IF j = k THEN new ELSE codes[j - 1]
    <3>0. k \in Nat /\ j \in Nat BY <1>1, <1>2
    <3>1. CASE j < k
      <4>1. j \in 1 .. k - 1 /\ j \in 1 .. k /\ j <= k /\ j <= k - 1
        BY <1>1, <1>2, <3>1
      <4>2. codes'[j] = (low \o one)[j] BY <2>6, <2>7, <4>1
      <4>3. (low \o one)[j] = codes[j] BY <2>3, <2>5, <4>1
      <4> QED BY <3>1, <4>2, <4>3
    <3>2. CASE j = k
      <4>1. j \in 1 .. k /\ j <= k /\ ~ j <= k - 1 /\ j - (k - 1) = 1 /\ ~ (j < k)
        BY <1>1, <1>2, <3>2
      <4>2. codes'[j] = (low \o one)[j] BY <2>6, <2>7, <4>1
      <4>3. (low \o one)[j] = one[j - (k - 1)] BY <2>5, <4>1
      <4> QED BY <2>2, <3>2, <4>1, <4>2, <4>3
    <3>3. CASE j > k
      <4>1. /\ ~ j <= k /\ j - k \in 1 .. Len(codes) - k + 1
            /\ k + (j - k) - 1 = j - 1 /\ ~ (j < k) /\ j # k
        BY <1>1, <1>2, <3>3
      <4>2. codes'[j] = high[j - k] BY <2>6, <2>7, <4>1
      <4>3. high[j - k] = codes[j - 1] BY <2>4, <4>1
      <4> QED BY <4>1, <4>2, <4>3
    <3> QED BY <3>0, <3>1, <3>2, <3>3
  <2>10. k \in DOMAIN codes => less(i, codes[k]) BY <1>4
  <2> QED BY <1>2, <2>6, <2>7, <2>9, <2>10 DEF Inserted, k, new
<1> QED BY <1>0, <1>3, <1>4 DEF k

\* An entry of the map after increment was one before, or is the instruction.
LEMMA EntriesAfter ==
  ASSUME codes \in Seq(Entry), NEW i, i.begin \in Nat \ {0}, i.end \in Nat, increment(i),
         NEW k \in DOMAIN codes'
  PROVE  \/ codes'[k].begin = i.begin /\ codes'[k].end = i.end
         \/ \E j \in DOMAIN codes : /\ codes'[k].begin = codes[j].begin
                                    /\ codes'[k].end = codes[j].end
<1>1. /\ Len(codes) \in Nat /\ DOMAIN codes = 1 .. Len(codes)
      /\ codes' \in Seq(Entry) /\ DOMAIN codes' = 1 .. Len(codes')
  <2>1. codes' \in Seq(Entry) BY Increment
  <2> QED BY <2>1, LenProperties
<1>2. ASSUME NEW l, CountedAgain(i, l)
      PROVE  \E j \in DOMAIN codes : /\ codes'[k].begin = codes[j].begin
                                     /\ codes'[k].end = codes[j].end
  <2>1. /\ l \in DOMAIN codes /\ k \in 1 .. Len(codes)
        /\ codes'[k] = IF k = l THEN one_more(codes[l]) ELSE codes[k]
    BY <1>1, <1>2 DEF CountedAgain
  <2>2. k \in DOMAIN codes BY <1>1, <2>1
  <2> QED BY <2>1, <2>2 DEF one_more
<1>3. ASSUME NEW l, Inserted(i, l)
      PROVE  \/ codes'[k].begin = i.begin /\ codes'[k].end = i.end
             \/ \E j \in DOMAIN codes : codes'[k] = codes[j]
  <2>1. /\ l \in 1 .. Len(codes) + 1 /\ k \in 1 .. Len(codes) + 1
        /\ codes'[k] = IF k < l THEN codes[k] ELSE IF k = l THEN first_entry(i) ELSE codes[k - 1]
    BY <1>1, <1>3 DEF Inserted
  <2>2. CASE k < l
    <3>1. k \in DOMAIN codes BY <1>1, <2>1, <2>2
    <3> QED BY <2>1, <2>2, <3>1
  <2>3. CASE k = l
    BY <2>1, <2>3 DEF first_entry
  <2>4. CASE k > l
    <3>1. k - 1 \in DOMAIN codes /\ ~ (k < l) /\ k # l BY <1>1, <2>1, <2>4
    <3> QED BY <2>1, <3>1
  <2> QED BY <2>1, <2>2, <2>3, <2>4
<1> QED BY <1>2, <1>3, Increment

\* The file and the empty map satisfy the invariant.
LEMMA InitIInv == ASSUME Init PROVE IInv
<1>1. PICK n \in 0 .. MaxCode : code \in [1 .. n -> Byte] BY DEF Init
<1>2. code \in Seq(Byte) BY <1>1, CodeAssumption
<1>3. 1 \in 1 .. eof BY <1>2, LenProperties DEF eof
<1> QED BY <1>2, <1>3, EmptySeq DEF Init, IInv, TypeOK

\* The entries stay what they are when neither the code nor the map changes.
LEMMA DecodedKept ==
  ASSUME NEW e, decoded(e), code' = code PROVE decoded(e)'
  BY DEF decoded, can_read, insn_end, opcode, eof, ints_fit, string_fits, int_bytes,
         closure_fits, capture, n_captured

\* The steps of the counter preserve the invariant.
LEMMA NextIInv == ASSUME IInv, [Next]_vars PROVE IInv'
<1>1. /\ code \in Seq(Byte) /\ Len(code) \in Nat /\ ip \in 1 .. eof /\ codes \in Seq(Entry)
      /\ Len(codes) \in Nat /\ DOMAIN codes = 1 .. Len(codes)
      /\ \A k \in DOMAIN codes : codes[k] \in Entry
  <2>1. code \in Seq(Byte) /\ ip \in 1 .. eof /\ codes \in Seq(Entry)
    BY DEF IInv, TypeOK, Entry
  <2>2. Len(code) \in Nat BY <2>1, LenProperties
  <2>3. Len(codes) \in Nat /\ DOMAIN codes = 1 .. Len(codes) BY <2>1, LenProperties
  <2>4. \A k \in 1 .. Len(codes) : codes[k] \in Entry BY <2>1, ElementOfSeq
  <2> QED BY <2>1, <2>2, <2>3, <2>4
<1>2. CASE ReadInstruction
  <2> DEFINE i == [begin |-> ip, end |-> insn_end(ip)]
  <2>1. ip \in Nat \ {0} /\ ip < eof /\ can_read(ip) /\ code' = code /\ printed' = printed
        /\ status' = status /\ ip' = i.end /\ increment(i) /\ i.begin = ip /\ i.end = insn_end(ip)
    BY <1>1, <1>2 DEF ReadInstruction, next_ip
  <2>2. insn_end(ip) \in Nat /\ ip < insn_end(ip) /\ insn_end(ip) <= eof
    BY <1>1, <2>1, InsnInside
  <2> HIDE DEF i
  <2>3. /\ codes' \in Seq(Entry)
        /\ \A k \in DOMAIN codes' :
             \/ codes'[k].begin = i.begin /\ codes'[k].end = i.end
             \/ \E j \in DOMAIN codes : /\ codes'[k].begin = codes[j].begin
                                        /\ codes'[k].end = codes[j].end
    <3>1. i.begin \in Nat \ {0} /\ i.end \in Nat BY <2>1, <2>2
    <3> QED BY <1>1, <2>1, <3>1, Increment, EntriesAfter
  <2>4. eof' = eof BY <2>1 DEF eof
  <2>5. ip' \in 1 .. eof' BY <1>1, <2>1, <2>2, <2>4 DEF eof
  <2>6. ASSUME NEW k \in DOMAIN codes'
        PROVE  codes'[k].begin < codes'[k].end /\ codes'[k].end <= ip' /\ decoded(codes[k])'
    <3>1. CASE codes'[k].begin = i.begin /\ codes'[k].end = i.end
      <4>1. decoded(i) BY <2>1 DEF decoded
      <4>2. decoded(codes[k])'
        BY <2>1, <3>1, <4>1, DecodedKept DEF decoded
      <4> QED BY <2>1, <2>2, <3>1, <4>2
    <3>2. ASSUME NEW j \in DOMAIN codes,
                 codes'[k].begin = codes[j].begin, codes'[k].end = codes[j].end
          PROVE  codes'[k].begin < codes'[k].end /\ codes'[k].end <= ip' /\ decoded(codes[k])'
      <4>1. codes[j].begin < codes[j].end /\ codes[j].end <= ip /\ decoded(codes[j])
        BY DEF IInv, TypeOK
      <4>2. decoded(codes[k])'
        BY <2>1, <3>2, <4>1, DecodedKept DEF decoded
      <4>3. codes[j].end \in Nat BY <1>1 DEF Entry
      <4> QED BY <1>1, <2>1, <2>2, <3>2, <4>1, <4>2, <4>3 DEF eof
    <3> QED BY <2>3, <3>1, <3>2
  <2> QED BY <1>1, <2>1, <2>3, <2>5, <2>6 DEF IInv, TypeOK, Entry
<1>3. ASSUME UNCHANGED <<code, ip, codes>>, printed' \in Seq(Line),
             status' \in {"reading", "failed", "done", "outside"}
      PROVE  IInv'
  <2>1. ASSUME NEW k \in DOMAIN codes PROVE decoded(codes[k])'
    BY <1>3, DecodedKept DEF IInv, decoded
  <2>2. TypeOK'
    BY <1>3 DEF IInv, TypeOK, eof, Line
  <2> QED BY <1>3, <2>1, <2>2 DEF IInv
<1>4. CASE Failure \/ Ended \/ UNCHANGED vars
  <2>1. printed \in Seq(Line) /\ status \in {"reading", "failed", "done", "outside"}
    BY DEF IInv, TypeOK, Line
  <2> QED BY <1>3, <1>4, <2>1 DEF Failure, Ended, vars
<1>5. CASE PrintFrequency
  <2>1. PICK order \in [DOMAIN codes -> DOMAIN codes], n \in 0 .. Len(codes) :
          printed' = [k \in 1 .. n |-> line(codes[order[k]])]
    BY <1>5 DEF PrintFrequency
  <2>2. ASSUME NEW k \in DOMAIN codes PROVE line(codes[k]) \in Line
    <3>1. decoded(codes[k]) /\ codes[k] \in Entry BY <1>1 DEF IInv
    <3>2. codes[k].begin \in Nat \ {0} /\ codes[k].count \in Nat \ {0} BY <3>1 DEF Entry
    <3>3. insn_end(codes[k].begin) \in Nat /\ insn_end(codes[k].begin) <= eof
      BY <1>1, <3>1, <3>2, InsnInside DEF decoded
    <3>4. SubSeq(code, codes[k].begin, insn_end(codes[k].begin) - 1) \in Seq(Byte)
      BY <1>1, <3>2, <3>3, PartOfCode
    <3> QED BY <3>2, <3>4 DEF line, Line
  <2>3. printed' \in [1 .. n -> Line]
    <3>1. ASSUME NEW k \in 1 .. n PROVE line(codes[order[k]]) \in Line
      <4>1. k \in DOMAIN codes BY <1>1, <2>1
      <4>2. order[k] \in DOMAIN codes BY <2>1, <4>1
      <4> QED BY <2>2, <4>2
    <3> QED BY <2>1, <3>1
  <2>4. printed' \in Seq(Line) BY <2>1, <2>3
  <2> QED BY <1>3, <1>5, <2>4 DEF PrintFrequency
<1> QED BY <1>2, <1>3, <1>4, <1>5 DEF Next

-------------------------------------------------------------------------------
(* The order of the map *)

\* A set of naturals has a smallest element.
LEMMA SmallestPlace ==
  ASSUME NEW S \in SUBSET Nat, S # {}
  PROVE  \E m \in S : \A n \in S : m <= n
<1>1. PICK m \in S : \A n \in S : ~ (<<n, m>> \in OpToRel(<, Nat))
  BY NatLessThanWellFounded, WFMin, Zenon
<1>2. \A n \in S : n \in Nat /\ m \in Nat /\ ~ (n < m)
  BY <1>1, Zenon DEF OpToRel
<1> QED BY <1>2

\* A record whose bounds are those of an instruction of the code.
key(e) == e.begin \in Nat \ {0} /\ decoded(e)

\* The bytes of an instruction are numbers.
LEMMA KeyBytes ==
  ASSUME code \in Seq(Byte), NEW e, key(e)
  PROVE  /\ e.begin \in Nat /\ e.end \in Nat /\ e.end - e.begin \in Nat \ {0}
         /\ \A m \in 0 .. e.end - e.begin - 1 : code[e.begin + m] \in Nat
<1>1. Len(code) \in Nat /\ \A n \in 1 .. Len(code) : code[n] \in Byte
  BY LenProperties
<1>2. e.end \in Nat /\ e.begin < e.end /\ e.end <= Len(code) + 1 /\ e.begin \in Nat \ {0}
  BY <1>1, InsnInside DEF key, decoded, eof
<1>3. \A m \in 0 .. e.end - e.begin - 1 : e.begin + m \in 1 .. Len(code)
  BY <1>1, <1>2
<1>4. Byte \subseteq Nat BY CodeAssumption
<1>5. \A m \in 0 .. e.end - e.begin - 1 : code[e.begin + m] \in Nat
  BY <1>1, <1>3, <1>4
<1> QED BY <1>2, <1>5

\* The first difference of the instructions e and f is at k, where e is less.
differs(e, f, k) ==
  /\ k \in 0 .. e.end - e.begin - 1 /\ k \in 0 .. f.end - f.begin - 1
  /\ \A m \in 0 .. k - 1 : code[e.begin + m] = code[f.begin + m]
  /\ code[e.begin + k] < code[f.begin + k]

\* Instructions that agree on all bytes of one of them are of one length.
LEMMA AgreeIsEqual ==
  ASSUME code \in Seq(Byte), NEW e, key(e), NEW f, key(f),
         \A m \in 0 .. e.end - e.begin - 1 : code[e.begin + m] = code[f.begin + m]
  PROVE  e.end - e.begin = f.end - f.begin
<1>1. Len(code) \in Nat BY LenProperties
<1> QED BY <1>1, PrefixCode DEF key, decoded

\* memcmp, which looks at as many bytes as its left operand has, finds a
\* difference inside both operands.
LEMMA LessDiffers ==
  ASSUME code \in Seq(Byte), NEW e, key(e), NEW f, key(f)
  PROVE  less(e, f) <=> \E k \in Nat : differs(e, f, k)
<1>1. /\ e.end - e.begin \in Nat \ {0} /\ f.end - f.begin \in Nat \ {0}
      /\ e.begin \in Nat /\ f.begin \in Nat
  BY KeyBytes
<1>2. ASSUME less(e, f) PROVE \E k \in Nat : differs(e, f, k)
  <2>1. PICK k \in 0 .. e.end - e.begin - 1 :
          /\ \A m \in 0 .. k - 1 : code[e.begin + m] = code[f.begin + m]
          /\ code[e.begin + k] < code[f.begin + k]
    BY <1>2 DEF less, memcmp_less
  <2>2. CASE k \in 0 .. f.end - f.begin - 1
    BY <2>1, <2>2 DEF differs
  <2>3. CASE k \notin 0 .. f.end - f.begin - 1
    <3>1. \A m \in 0 .. f.end - f.begin - 1 : m \in 0 .. k - 1
      BY <1>1, <2>1, <2>3
    <3>2. \A m \in 0 .. f.end - f.begin - 1 : code[f.begin + m] = code[e.begin + m]
      BY <2>1, <3>1
    <3>3. e.end - e.begin = f.end - f.begin BY <3>2, AgreeIsEqual
    <3> QED BY <2>1, <2>3, <3>3
  <2> QED BY <2>2, <2>3
<1>3. ASSUME NEW k \in Nat, differs(e, f, k) PROVE less(e, f)
  BY <1>3 DEF differs, less, memcmp_less
<1> QED BY <1>2, <1>3

\* operator< is not symmetric ...
LEMMA LessAsymmetric ==
  ASSUME code \in Seq(Byte), NEW e, key(e), NEW f, key(f), less(e, f)
  PROVE  ~less(f, e)
<1>1. SUFFICES ASSUME less(f, e) PROVE FALSE OBVIOUS
<1>2. PICK k \in Nat : differs(e, f, k) BY LessDiffers
<1>3. PICK n \in Nat : differs(f, e, n) BY <1>1, LessDiffers
<1>4. code[e.begin + k] \in Nat /\ code[f.begin + k] \in Nat BY <1>2, KeyBytes DEF differs
<1>5. code[e.begin + n] \in Nat /\ code[f.begin + n] \in Nat BY <1>3, KeyBytes DEF differs
<1>6. CASE k < n
  <2>1. k \in 0 .. n - 1 BY <1>6
  <2>2. code[f.begin + k] = code[e.begin + k] BY <1>3, <2>1 DEF differs
  <2> QED BY <1>2, <1>4, <2>2 DEF differs
<1>7. CASE n < k
  <2>1. n \in 0 .. k - 1 BY <1>7
  <2>2. code[e.begin + n] = code[f.begin + n] BY <1>2, <2>1 DEF differs
  <2> QED BY <1>3, <1>5, <2>2 DEF differs
<1>8. CASE n = k
  BY <1>2, <1>3, <1>4, <1>8 DEF differs
<1> QED BY <1>6, <1>7, <1>8

\* ... it is transitive ...
LEMMA LessTransitive ==
  ASSUME code \in Seq(Byte), NEW e, key(e), NEW f, key(f), NEW g, key(g),
         less(e, f), less(f, g)
  PROVE  less(e, g)
<1>1. PICK k \in Nat : differs(e, f, k) BY LessDiffers
<1>2. PICK n \in Nat : differs(f, g, n) BY LessDiffers
<1>3. code[e.begin + k] \in Nat /\ code[f.begin + k] \in Nat BY <1>1, KeyBytes DEF differs
<1>4. code[f.begin + n] \in Nat /\ code[g.begin + n] \in Nat BY <1>2, KeyBytes DEF differs
<1>5. ASSUME NEW l \in Nat, l <= k, l <= n
      PROVE  \A m \in 0 .. l - 1 : code[e.begin + m] = code[g.begin + m]
  <2>1. \A m \in 0 .. l - 1 : m \in 0 .. k - 1 /\ m \in 0 .. n - 1 BY <1>5
  <2> QED BY <1>1, <1>2, <2>1 DEF differs
<1>6. CASE k < n
  <2>1. k \in 0 .. n - 1 BY <1>6
  <2>2. code[f.begin + k] = code[g.begin + k] BY <1>2, <2>1 DEF differs
  <2>3. \A m \in 0 .. k - 1 : code[e.begin + m] = code[g.begin + m] BY <1>5, <1>6
  <2> QED BY <1>1, <2>2, <2>3 DEF differs, less, memcmp_less
<1>7. CASE n < k
  <2>1. n \in 0 .. k - 1 BY <1>7
  <2>2. code[e.begin + n] = code[f.begin + n] BY <1>1, <2>1 DEF differs
  <2>3. \A m \in 0 .. n - 1 : code[e.begin + m] = code[g.begin + m] BY <1>5, <1>7
  <2>4. n \in 0 .. e.end - e.begin - 1
    <3>1. e.end - e.begin \in Nat /\ k \in 0 .. e.end - e.begin - 1
      BY <1>1, KeyBytes DEF differs
    <3> QED BY <1>7, <3>1
  <2> QED BY <1>2, <2>2, <2>3, <2>4 DEF differs, less, memcmp_less
<1>8. CASE n = k
  <2>1. \A m \in 0 .. k - 1 : code[e.begin + m] = code[g.begin + m] BY <1>5, <1>8
  <2>2. code[g.begin + k] \in Nat BY <1>4, <1>8
  <2>3. code[e.begin + k] < code[g.begin + k] BY <1>1, <1>2, <1>3, <1>8, <2>2 DEF differs
  <2> QED BY <1>1, <2>1, <2>3 DEF differs, less, memcmp_less
<1> QED BY <1>6, <1>7, <1>8

\* ... and it orders any two instructions unless their bytes are equal.
LEMMA LessTotal ==
  ASSUME code \in Seq(Byte), NEW e, key(e), NEW f, key(f), ~less(e, f), ~less(f, e)
  PROVE  /\ e.end - e.begin = f.end - f.begin
         /\ \A m \in 0 .. e.end - e.begin - 1 : code[e.begin + m] = code[f.begin + m]
<1> DEFINE D == {m \in Nat : /\ m \in 0 .. e.end - e.begin - 1 /\ m \in 0 .. f.end - f.begin - 1
                             /\ code[e.begin + m] # code[f.begin + m]}
<1>1. /\ e.end - e.begin \in Nat \ {0} /\ f.end - f.begin \in Nat \ {0}
      /\ e.begin \in Nat /\ f.begin \in Nat
  BY KeyBytes
<1>2. CASE D = {}
  <2>1. CASE e.end - e.begin <= f.end - f.begin
    <3>1. \A m \in 0 .. e.end - e.begin - 1 : m \in Nat /\ m \in 0 .. f.end - f.begin - 1
      BY <1>1, <2>1
    <3>2. \A m \in 0 .. e.end - e.begin - 1 : code[e.begin + m] = code[f.begin + m]
      BY <1>2, <3>1
    <3> QED BY <3>2, AgreeIsEqual
  <2>2. CASE f.end - f.begin <= e.end - e.begin
    <3>1. \A m \in 0 .. f.end - f.begin - 1 : m \in Nat /\ m \in 0 .. e.end - e.begin - 1
      BY <1>1, <2>2
    <3>2. \A m \in 0 .. f.end - f.begin - 1 : code[f.begin + m] = code[e.begin + m]
      BY <1>2, <3>1
    <3>3. e.end - e.begin = f.end - f.begin BY <3>2, AgreeIsEqual
    <3> QED BY <3>2, <3>3
  <2> QED BY <1>1, <2>1, <2>2
<1>3. CASE D # {}
  <2>1. PICK k \in D : \A n \in D : k <= n BY <1>3, SmallestPlace
  <2>2. /\ k \in Nat /\ k \in 0 .. e.end - e.begin - 1 /\ k \in 0 .. f.end - f.begin - 1
        /\ code[e.begin + k] # code[f.begin + k]
    BY <2>1
  <2>3. \A m \in 0 .. k - 1 : /\ m \in Nat /\ ~ (k <= m)
                              /\ m \in 0 .. e.end - e.begin - 1 /\ m \in 0 .. f.end - f.begin - 1
    BY <1>1, <2>2
  <2>4. \A m \in 0 .. k - 1 : code[e.begin + m] = code[f.begin + m] BY <2>1, <2>3
  <2>5. code[e.begin + k] \in Nat /\ code[f.begin + k] \in Nat BY <2>2, KeyBytes
  <2>6. CASE code[e.begin + k] < code[f.begin + k]
    <3>1. differs(e, f, k) BY <2>2, <2>4, <2>6 DEF differs
    <3> QED BY <2>2, <3>1, LessDiffers
  <2>7. CASE code[f.begin + k] < code[e.begin + k]
    <3>1. differs(f, e, k) BY <2>2, <2>4, <2>7 DEF differs
    <3> QED BY <2>2, <3>1, LessDiffers
  <2> QED BY <2>2, <2>5, <2>6, <2>7
<1> QED BY <1>2, <1>3

\* The bytes of an instruction as a key.
LEMMA BytesOf ==
  ASSUME code \in Seq(Byte), NEW e, key(e)
  PROVE  /\ bytes_of(e) \in Seq(Byte) /\ Len(bytes_of(e)) = e.end - e.begin
         /\ \A m \in 0 .. e.end - e.begin - 1 : bytes_of(e)[m + 1] = code[e.begin + m]
<1>1. e.begin \in Nat \ {0} /\ e.end \in Nat /\ e.end - e.begin \in Nat \ {0}
  BY KeyBytes DEF key
<1>2. Len(code) \in Nat /\ \A n \in 1 .. Len(code) : code[n] \in Byte
  BY LenProperties
<1>3. e.end <= Len(code) + 1 BY <1>2, InsnInside DEF key, decoded, eof
<1>4. e.end - 1 \in Int /\ \A n \in e.begin .. e.end - 1 : code[n] \in Byte
  BY <1>1, <1>2, <1>3
<1>5. /\ bytes_of(e) \in Seq(Byte)
      /\ Len(bytes_of(e)) = IF e.begin <= e.end - 1 THEN e.end - 1 - e.begin + 1 ELSE 0
      /\ \A n \in 1 .. e.end - 1 - e.begin + 1 : bytes_of(e)[n] = code[e.begin + n - 1]
  BY SMTT(20), <1>1, <1>4, SubSeqProperties DEF bytes_of
<1>6. Len(bytes_of(e)) = e.end - e.begin BY <1>1, <1>5
<1>7. ASSUME NEW m \in 0 .. e.end - e.begin - 1
      PROVE  bytes_of(e)[m + 1] = code[e.begin + m]
  <2>1. m + 1 \in 1 .. e.end - 1 - e.begin + 1 /\ e.begin + (m + 1) - 1 = e.begin + m
    BY <1>1, <1>7
  <2> QED BY <1>5, <2>1
<1> QED BY <1>5, <1>6, <1>7

\* Two instructions share an entry exactly when their bytes are equal.
LEMMA SameBytes ==
  ASSUME code \in Seq(Byte), NEW e, key(e), NEW f, key(f)
  PROVE  bytes_of(e) = bytes_of(f) <=> ~less(e, f) /\ ~less(f, e)
<1>1. e.end - e.begin \in Nat \ {0} /\ f.end - f.begin \in Nat \ {0} BY KeyBytes
<1>2. ASSUME ~less(e, f), ~less(f, e) PROVE bytes_of(e) = bytes_of(f)
  <2>1. /\ e.end - e.begin = f.end - f.begin
        /\ \A m \in 0 .. e.end - e.begin - 1 : code[e.begin + m] = code[f.begin + m]
    BY <1>2, LessTotal
  <2>2. /\ bytes_of(e) \in Seq(Byte) /\ Len(bytes_of(e)) = e.end - e.begin
        /\ \A m \in 0 .. e.end - e.begin - 1 : bytes_of(e)[m + 1] = code[e.begin + m]
    BY BytesOf
  <2>3. /\ bytes_of(f) \in Seq(Byte) /\ Len(bytes_of(f)) = e.end - e.begin
        /\ \A m \in 0 .. e.end - e.begin - 1 : bytes_of(f)[m + 1] = code[f.begin + m]
    BY <2>1, BytesOf
  <2>4. ASSUME NEW n \in 1 .. Len(bytes_of(e)) PROVE bytes_of(e)[n] = bytes_of(f)[n]
    <3>1. n - 1 \in 0 .. e.end - e.begin - 1 /\ n - 1 + 1 = n BY <1>1, <2>2
    <3>2. code[e.begin + (n - 1)] = code[f.begin + (n - 1)] BY <2>1, <3>1
    <3>3. bytes_of(e)[n - 1 + 1] = bytes_of(f)[n - 1 + 1] BY <2>2, <2>3, <3>1, <3>2
    <3> QED BY <3>1, <3>3
  <2> QED BY <2>2, <2>3, <2>4, SeqEqual
<1>3. ASSUME bytes_of(e) = bytes_of(f), NEW k \in Nat, differs(e, f, k) \/ differs(f, e, k)
      PROVE  FALSE
  <2>1. k \in 0 .. e.end - e.begin - 1 /\ k \in 0 .. f.end - f.begin - 1
    BY <1>3 DEF differs
  <2>2. bytes_of(e)[k + 1] = code[e.begin + k] BY <2>1, BytesOf
  <2>3. bytes_of(f)[k + 1] = code[f.begin + k] BY <2>1, BytesOf
  <2>4. code[e.begin + k] = code[f.begin + k] BY <1>3, <2>2, <2>3
  <2>5. code[e.begin + k] \in Nat /\ code[f.begin + k] \in Nat BY <2>1, KeyBytes
  <2> QED BY <1>3, <2>4, <2>5 DEF differs
<1> QED BY <1>2, <1>3, LessDiffers

\* The entries of the map are instructions, in the order of operator<.
Keys == codes \in Seq(Entry) /\ \A k \in DOMAIN codes : key(codes[k])
Ordered == \A i, j \in DOMAIN codes : i < j => less(codes[i], codes[j])

\* The search finds the place before which the entries are less than the
\* instruction, and behind which they are not.
LEMMA LowerIsPrefix ==
  ASSUME code \in Seq(Byte), Keys, Ordered, NEW i, key(i)
  PROVE  /\ \A j \in DOMAIN codes : j < lower_bound(i) => less(codes[j], i)
         /\ \A j \in DOMAIN codes : j >= lower_bound(i) => ~less(codes[j], i)
<1> DEFINE lower == {k \in DOMAIN codes : less(codes[k], i)}
           rest == {k \in DOMAIN codes : ~less(codes[k], i)}
<1>1. Len(codes) \in Nat /\ DOMAIN codes = 1 .. Len(codes)
  BY LenProperties DEF Keys
<1>2. \A j, k \in DOMAIN codes : j < k /\ less(codes[k], i) => less(codes[j], i)
  BY LessTransitive DEF Keys, Ordered
<1>3. PICK n \in 1 .. Len(codes) + 1 : lower = 1 .. n - 1
  <2>1. CASE rest = {}
    <3>1. lower = 1 .. Len(codes) BY <1>1, <2>1
    <3>2. Len(codes) + 1 - 1 = Len(codes) /\ Len(codes) + 1 \in 1 .. Len(codes) + 1 BY <1>1
    <3> QED BY <3>1, <3>2
  <2>2. CASE rest # {}
    <3>1. rest \in SUBSET Nat BY <1>1
    <3>2. PICK n \in rest : \A m \in rest : n <= m BY <2>2, <3>1, SmallestPlace
    <3>3. n \in 1 .. Len(codes) /\ ~less(codes[n], i) BY <1>1, <3>2
    <3>4. ASSUME NEW m \in 1 .. n - 1 PROVE m \in lower
      <4>1. m \in DOMAIN codes /\ m \in Nat /\ ~ (n <= m) BY <1>1, <3>3
      <4> QED BY <3>2, <4>1
    <3>5. ASSUME NEW m \in lower PROVE m \in 1 .. n - 1
      <4>1. m \in DOMAIN codes /\ less(codes[m], i) /\ m \in 1 .. Len(codes) BY <1>1
      <4>2. m # n BY <3>3, <4>1
      <4>3. ~ (n < m) BY <1>1, <1>2, <3>3, <4>1
      <4> QED BY <1>1, <3>3, <4>1, <4>2, <4>3
    <3>6. lower = 1 .. n - 1 BY <3>4, <3>5
    <3> QED BY <1>1, <3>3, <3>6
  <2> QED BY <2>1, <2>2
<1>4. lower_bound(i) = n
  <2>1. Cardinality(1 .. n - 1) = n - 1 BY <1>1, FS_Interval
  <2>2. lower_bound(i) = 1 + Cardinality(lower) BY DEF lower_bound
  <2> HIDE DEF lower
  <2>3. lower_bound(i) = 1 + (n - 1) BY <1>3, <2>1, <2>2
  <2>4. 1 + (n - 1) = n BY <1>1
  <2> QED BY <2>3, <2>4
<1>5. \A j \in DOMAIN codes : j < n => j \in lower BY <1>1, <1>3
<1>6. \A j \in DOMAIN codes : j >= n => j \notin lower BY <1>1, <1>3
<1> QED BY <1>4, <1>5, <1>6

\* The entries of the map are keys.
LEMMA MapKeys ==
  ASSUME IInv
  PROVE  /\ code \in Seq(Byte) /\ Keys
         /\ Len(codes) \in Nat /\ DOMAIN codes = 1 .. Len(codes)
<1>1. code \in Seq(Byte) /\ codes \in Seq(Entry) BY DEF IInv, TypeOK, Entry
<1>2. \A k \in DOMAIN codes : codes[k] \in Entry BY <1>1, LenProperties
<1>3. Keys BY <1>1, <1>2 DEF IInv, Keys, key, Entry
<1> QED BY <1>1, <1>3, LenProperties

\* Records with the same bounds compare in the same way.
LEMMA LessKept ==
  ASSUME NEW e, NEW f, NEW c, NEW d, code' = code, less(e, f),
         c.begin = e.begin, c.end = e.end, d.begin = f.begin, d.end = f.end
  PROVE  less(c, d)'
<1>1. less(c, d) BY DEF less
<1> QED BY <1>1 DEF less, memcmp_less

\* The steps of the counter keep the entries in order.
LEMMA NextOrdered == ASSUME IInv, Ordered, [Next]_vars PROVE Ordered'
<1>1. code \in Seq(Byte) /\ Keys /\ Len(codes) \in Nat /\ DOMAIN codes = 1 .. Len(codes)
  BY MapKeys
<1>2. CASE ReadInstruction
  <2>1. PICK i : i = [begin |-> ip, end |-> insn_end(ip)] OBVIOUS
  <2>2. /\ ip \in Nat \ {0} /\ ip < eof /\ can_read(ip) /\ code' = code
        /\ increment(i) /\ i.begin = ip /\ i.end = insn_end(ip)
    BY <1>2, <2>1 DEF ReadInstruction, IInv, TypeOK
  <2>3. key(i) BY <2>2 DEF key, decoded
  <2>4. i.begin \in Nat \ {0} /\ i.end \in Nat BY <1>1, <2>3, KeyBytes DEF key
  <2>5. PICK l : l = lower_bound(i) OBVIOUS
  <2>6. codes' \in Seq(Entry) /\ (CountedAgain(i, l) \/ Inserted(i, l))
    BY <1>1, <2>2, <2>4, <2>5, Increment DEF Keys
  <2>7. DOMAIN codes' = 1 .. Len(codes') BY <2>6, LenProperties
  <2>8. \A j \in DOMAIN codes : j < l => less(codes[j], i)
    BY <1>1, <2>3, <2>5, LowerIsPrefix
  <2>9. ASSUME NEW a \in DOMAIN codes', NEW b \in DOMAIN codes', a < b
        PROVE  less(codes[a], codes[b])'
    <3>1. CASE CountedAgain(i, l)
      <4>1. a \in DOMAIN codes /\ b \in DOMAIN codes
        BY <1>1, <2>7, <3>1 DEF CountedAgain
      <4>2. /\ codes'[a].begin = codes[a].begin /\ codes'[a].end = codes[a].end
            /\ codes'[b].begin = codes[b].begin /\ codes'[b].end = codes[b].end
        BY <1>1, <3>1, <4>1 DEF CountedAgain, one_more
      <4>3. less(codes[a], codes[b]) BY <2>9, <4>1 DEF Ordered
      <4> QED BY <2>2, <4>2, <4>3, LessKept
    <3>2. CASE Inserted(i, l)
      <4>1. /\ l \in 1 .. Len(codes) + 1 /\ a \in 1 .. Len(codes) + 1 /\ b \in 1 .. Len(codes) + 1
            /\ codes'[a] = IF a < l THEN codes[a] ELSE IF a = l THEN first_entry(i) ELSE codes[a - 1]
            /\ codes'[b] = IF b < l THEN codes[b] ELSE IF b = l THEN first_entry(i) ELSE codes[b - 1]
        BY <2>7, <3>2 DEF Inserted
      <4>2. first_entry(i).begin = i.begin /\ first_entry(i).end = i.end BY DEF first_entry
      <4>3. CASE b < l
        <5>1. a < l /\ a \in DOMAIN codes /\ b \in DOMAIN codes BY <1>1, <2>9, <4>1, <4>3
        <5>2. less(codes[a], codes[b]) BY <2>9, <5>1 DEF Ordered
        <5> QED BY <2>2, <4>1, <4>3, <5>1, <5>2, LessKept
      <4>4. CASE b = l
        <5>1. a < l /\ a \in DOMAIN codes /\ ~ (b < l) BY <1>1, <2>9, <4>1, <4>4
        <5>2. less(codes[a], i) BY <2>8, <5>1
        <5>3. codes'[a] = codes[a] /\ codes'[b] = first_entry(i) BY <4>1, <4>4, <5>1
        <5> QED BY <2>2, <4>2, <5>2, <5>3, LessKept
      <4>5. CASE b > l
        <5>1. /\ ~ (b < l) /\ b # l /\ b - 1 \in DOMAIN codes /\ l \in DOMAIN codes
              /\ (l = b - 1 \/ l < b - 1)
          BY <1>1, <4>1, <4>5
        <5>2. codes'[b] = codes[b - 1] BY <4>1, <5>1
        <5>3. CASE a < l
          <6>1. a \in DOMAIN codes /\ a < b - 1 BY <1>1, <4>1, <4>5, <5>3
          <6>2. less(codes[a], codes[b - 1]) BY <5>1, <6>1 DEF Ordered
          <6>3. codes'[a] = codes[a] BY <4>1, <5>3
          <6> QED BY <2>2, <5>2, <6>2, <6>3, LessKept
        <5>4. CASE a = l
          <6>1. less(i, codes[l]) BY <3>2, <5>1 DEF Inserted
          <6>2. less(i, codes[b - 1])
            <7>1. CASE l = b - 1 BY <6>1, <7>1
            <7>2. CASE l < b - 1
              <8>1. less(codes[l], codes[b - 1]) BY <5>1, <7>2 DEF Ordered
              <8>2. key(codes[l]) /\ key(codes[b - 1]) BY <1>1, <5>1 DEF Keys
              <8> QED BY <1>1, <2>3, <6>1, <8>1, <8>2, LessTransitive
            <7> QED BY <5>1, <7>1, <7>2
          <6>3. ~ (a < l) BY <4>1, <5>4
          <6>4. codes'[a] = first_entry(i) BY <4>1, <5>4, <6>3
          <6> QED BY <2>2, <4>2, <5>2, <6>2, <6>4, LessKept
        <5>5. CASE a > l
          <6>1. /\ ~ (a < l) /\ a # l /\ a - 1 \in DOMAIN codes /\ a - 1 < b - 1
            BY <1>1, <2>9, <4>1, <5>5
          <6>2. less(codes[a - 1], codes[b - 1]) BY <5>1, <6>1 DEF Ordered
          <6>3. codes'[a] = codes[a - 1] BY <4>1, <6>1
          <6> QED BY <2>2, <5>2, <6>2, <6>3, LessKept
        <5> QED BY <4>1, <5>3, <5>4, <5>5
      <4> QED BY <4>1, <4>3, <4>4, <4>5
    <3> QED BY <2>6, <3>1, <3>2
  <2> QED BY <2>9 DEF Ordered
<1>3. ASSUME UNCHANGED <<code, codes>> PROVE Ordered'
  <2>1. ASSUME NEW a \in DOMAIN codes', NEW b \in DOMAIN codes', a < b
        PROVE  less(codes[a], codes[b])'
    <3>1. codes' = codes /\ code' = code BY <1>3
    <3>2. less(codes[a], codes[b]) BY <2>1, <3>1 DEF Ordered
    <3> QED BY <3>1, <3>2, LessKept
  <2> QED BY <2>1 DEF Ordered
<1> QED BY <1>2, <1>3 DEF Next, Failure, PrintFrequency, Ended, vars

\* The empty map is in order.
LEMMA InitOrdered == ASSUME Init PROVE Ordered
  BY DEF Init, Ordered

-------------------------------------------------------------------------------
(* The instructions read so far *)

\* What the recursive definition in starts says of the function it defines.
start_map(f) ==
  f = [p \in 1 .. eof |->
         p = 1 \/ \E q \in 1 .. p - 1 : f[q] /\ can_read(q) /\ insn_end(q) = p]

\* The sets of positions that hold the first one and the ends of the
\* instructions at the others.
closed(S) ==
  /\ 1 \in S
  /\ \A q \in S : can_read(q) /\ insn_end(q) \in q + 1 .. eof => insn_end(q) \in S

\* There is such a function: it tells the members of the least closed set.
LEMMA StartMapExists == ASSUME Len(code) \in Nat PROVE \E f : start_map(f)
<1> DEFINE R == {p \in 1 .. eof : \A S \in SUBSET (1 .. eof) : closed(S) => p \in S}
           F == [p \in 1 .. eof |-> p \in R]
<1>1. eof \in Nat \ {0} BY DEF eof
<1>2. closed(R)
  <2>1. 1 \in R BY <1>1 DEF closed
  <2>2. ASSUME NEW q \in R, can_read(q), insn_end(q) \in q + 1 .. eof PROVE insn_end(q) \in R
    <3>1. insn_end(q) \in 1 .. eof BY <1>1, <2>2
    <3>2. ASSUME NEW S \in SUBSET (1 .. eof), closed(S) PROVE insn_end(q) \in S
      <4>1. q \in S BY <3>2
      <4> QED BY <2>2, <3>2, <4>1 DEF closed
    <3> QED BY <3>1, <3>2
  <2> QED BY <2>1, <2>2 DEF closed
<1>3. ASSUME NEW p \in 1 .. eof
      PROVE  p \in R <=> (p = 1 \/ \E q \in 1 .. p - 1 : F[q] /\ can_read(q) /\ insn_end(q) = p)
  <2>1. \A q \in 1 .. p - 1 : q \in 1 .. eof BY <1>1
  <2>2. \A q \in 1 .. p - 1 : F[q] <=> q \in R BY <2>1
  <2>3. ASSUME NEW q \in 1 .. p - 1, q \in R, can_read(q), insn_end(q) = p PROVE p \in R
    <3>1. p \in q + 1 .. eof BY <1>1
    <3> QED BY <1>2, <2>3, <3>1 DEF closed
  <2>4. ASSUME p \in R, p # 1, \A q \in 1 .. p - 1 : ~ (q \in R /\ can_read(q) /\ insn_end(q) = p)
        PROVE  FALSE
    <3> DEFINE S == R \ {p}
    <3>1. S \in SUBSET (1 .. eof) OBVIOUS
    <3>2. 1 \in S BY <1>2, <2>4 DEF closed
    <3>3. ASSUME NEW q \in S, can_read(q), insn_end(q) \in q + 1 .. eof PROVE insn_end(q) \in S
      <4>1. q \in R /\ insn_end(q) \in R BY <1>2, <3>3 DEF closed
      <4>2. CASE insn_end(q) = p
        <5>1. q \in 1 .. eof BY <4>1
        <5>2. q \in 1 .. p - 1 BY <1>1, <3>3, <4>2, <5>1
        <5> QED BY <2>4, <3>3, <4>1, <4>2, <5>2
      <4> QED BY <4>1, <4>2
    <3>4. closed(S) BY <3>2, <3>3 DEF closed
    <3>5. p \in S BY <2>4, <3>1, <3>4
    <3> QED BY <3>5
  <2>5. 1 \in R BY <1>2 DEF closed
  <2> HIDE DEF R, F
  <2> QED BY <2>2, <2>3, <2>4, <2>5
<1> HIDE DEF R
<1>4. F = [p \in 1 .. eof |->
             p = 1 \/ \E q \in 1 .. p - 1 : F[q] /\ can_read(q) /\ insn_end(q) = p]
  BY <1>3
<1>5. start_map(F) BY <1>4 DEF start_map
<1> QED BY <1>5

\* It tells the members of starts, in the first and in the second state of a
\* step.
StartsByMap == Len(code) \in Nat => \E f : start_map(f) /\ starts = {p \in 1 .. ip - 1 : f[p]}
LEMMA Starts == StartsByMap
<1> SUFFICES ASSUME Len(code) \in Nat
             PROVE  \E f : start_map(f) /\ starts = {p \in 1 .. ip - 1 : f[p]}
  BY DEF StartsByMap
<1>1. PICK f : f = CHOOSE g : g = [p \in 1 .. eof |->
                     p = 1 \/ \E q \in 1 .. p - 1 : g[q] /\ can_read(q) /\ insn_end(q) = p]
  OBVIOUS
<1>2. starts = {p \in 1 .. ip - 1 : f[p]} BY <1>1 DEF starts
<1>3. \E g : g = [p \in 1 .. eof |->
                    p = 1 \/ \E q \in 1 .. p - 1 : g[q] /\ can_read(q) /\ insn_end(q) = p]
  BY StartMapExists DEF start_map
<1>4. f = [p \in 1 .. eof |->
             p = 1 \/ \E q \in 1 .. p - 1 : f[q] /\ can_read(q) /\ insn_end(q) = p]
  BY <1>1, <1>3
<1> QED BY <1>2, <1>4 DEF start_map

\* The recursive definition has one solution.
LEMMA StartMapUnique ==
  ASSUME Len(code) \in Nat, NEW f, start_map(f), NEW g, start_map(g), NEW p \in 1 .. eof
  PROVE  f[p] <=> g[p]
<1> DEFINE D == {n \in Nat : n \in 1 .. eof /\ ~ (f[n] <=> g[n])}
<1>1. eof \in Nat BY DEF eof
<1>2. /\ \A n \in 1 .. eof :
           f[n] <=> (n = 1 \/ \E q \in 1 .. n - 1 : f[q] /\ can_read(q) /\ insn_end(q) = n)
      /\ \A n \in 1 .. eof :
           g[n] <=> (n = 1 \/ \E q \in 1 .. n - 1 : g[q] /\ can_read(q) /\ insn_end(q) = n)
  BY DEF start_map
<1>3. SUFFICES ASSUME D # {} PROVE FALSE BY <1>1
<1>4. PICK n \in D : \A m \in D : n <= m BY <1>3, SmallestPlace
<1>5. n \in 1 .. eof /\ ~ (f[n] <=> g[n]) OBVIOUS
<1>6. \A q \in 1 .. n - 1 : q \in Nat /\ q \in 1 .. eof /\ ~ (n <= q) BY <1>1, <1>5
<1>7. \A q \in 1 .. n - 1 : f[q] <=> g[q] BY <1>4, <1>6
<1> QED BY <1>2, <1>5, <1>7

\* The instructions follow each other without a gap up to ip.
Chained ==
  /\ \A p \in starts : can_read(p) /\ insn_end(p) \in starts \cup {ip}
  /\ ip = 1 \/ \E p \in starts : can_read(p) /\ insn_end(p) = ip

\* Nothing is read before the first step.
LEMMA InitChained == ASSUME Init PROVE starts = {} /\ Chained
<1>1. ip = 1 BY DEF Init
<1>2. Len(code) \in Nat
  <2>1. IInv BY InitIInv
  <2>2. code \in Seq(Byte) BY <2>1 DEF IInv, TypeOK
  <2> QED BY <2>2, LenProperties
<1>3. PICK f : starts = {p \in 1 .. ip - 1 : f[p]} BY <1>2, Starts DEF StartsByMap
<1>4. starts = {} BY <1>1, <1>3
<1> QED BY <1>1, <1>4 DEF Chained

\* A step that reads an instruction adds its position to starts, the others
\* add nothing.
LEMMA NextStarts ==
  ASSUME IInv, Chained, [Next]_vars
  PROVE  /\ starts' = IF ReadInstruction THEN starts \cup {ip} ELSE starts
         /\ Chained'
<1>0. code \in Seq(Byte) /\ ip \in 1 .. eof BY DEF IInv, TypeOK
<1>1. Len(code) \in Nat /\ eof \in Nat /\ ip \in 1 .. eof /\ code' = code
  <2>1. Len(code) \in Nat BY <1>0, LenProperties
  <2>2. code' = code BY DEF Next, ReadInstruction, Failure, PrintFrequency, Ended, vars
  <2> QED BY <1>0, <2>1, <2>2 DEF eof
<1>2. PICK f : start_map(f) /\ starts = {p \in 1 .. ip - 1 : f[p]}
  BY <1>1, Starts DEF StartsByMap
<1>3. \A n \in 1 .. eof :
        f[n] <=> (n = 1 \/ \E q \in 1 .. n - 1 : f[q] /\ can_read(q) /\ insn_end(q) = n)
  BY <1>2 DEF start_map
<1>4. StartsByMap' BY Starts, PTL
<1>5. PICK g : start_map(g)' /\ starts' = {p \in 1 .. ip' - 1 : g[p]}
  BY <1>1, <1>4 DEF StartsByMap
<1>6. \A p : /\ can_read(p)' <=> can_read(p)
             /\ insn_end(p)' = insn_end(p)
  BY <1>1 DEF can_read, insn_end, opcode, eof, ints_fit, string_fits, int_bytes,
     closure_fits, capture, n_captured
<1>7. start_map(g)
  <2>1. g = [p \in 1 .. eof' |->
               p = 1 \/ \E q \in 1 .. p - 1 : g[q] /\ can_read(q)' /\ insn_end(q)' = p]
    BY <1>5 DEF start_map
  <2>2. eof' = eof BY <1>1 DEF eof
  <2> QED BY <1>6, <2>1, <2>2 DEF start_map
<1>8. \A p \in 1 .. eof : f[p] <=> g[p] BY <1>1, <1>2, <1>7, StartMapUnique
<1>9. CASE ReadInstruction
  <2>1. can_read(ip) /\ ip < eof /\ ip' = insn_end(ip) BY <1>9 DEF ReadInstruction, next_ip
  <2>2. ip' \in Nat /\ ip < ip' /\ ip' <= eof BY <1>1, <2>1, InsnInside
  <2>0. /\ \A p \in ip + 1 .. ip' - 1 : p \in Nat /\ p \in 1 .. eof /\ p # 1
        /\ \A p \in 1 .. ip' - 1 :
             p \in 1 .. eof /\ (p \notin ip + 1 .. ip' - 1 => p \in 1 .. ip - 1 \/ p = ip)
        /\ \A p \in 1 .. ip : p \in 1 .. eof /\ p \in 1 .. ip' - 1
        /\ \A n \in ip + 1 .. ip' - 1 : \A q \in 1 .. n - 1 :
             q > ip => q \in Nat /\ q \in ip + 1 .. ip' - 1 /\ ~ (n <= q)
    <3>1. PICK a : a = ip OBVIOUS
    <3>2. PICK b : b = ip' OBVIOUS
    <3>3. PICK e : e = eof OBVIOUS
    <3>4. a \in Nat \ {0} /\ b \in Nat /\ e \in Nat /\ a < b /\ b <= e
      BY <1>1, <2>2, <3>1, <3>2, <3>3
    <3>5. /\ \A p \in a + 1 .. b - 1 : p \in Nat /\ p \in 1 .. e /\ p # 1
          /\ \A p \in 1 .. b - 1 :
               p \in 1 .. e /\ (p \notin a + 1 .. b - 1 => p \in 1 .. a - 1 \/ p = a)
          /\ \A p \in 1 .. a : p \in 1 .. e /\ p \in 1 .. b - 1
          /\ \A n \in a + 1 .. b - 1 : \A q \in 1 .. n - 1 :
               q > a => q \in Nat /\ q \in a + 1 .. b - 1 /\ ~ (n <= q)
      BY ONLY <3>4
    <3> QED BY <3>1, <3>2, <3>3, <3>5
  <2>3. ip \in 1 .. eof /\ f[ip]
    <3>1. ASSUME ip # 1 PROVE \E q \in 1 .. ip - 1 : f[q] /\ can_read(q) /\ insn_end(q) = ip
      <4>1. PICK q \in starts : can_read(q) /\ insn_end(q) = ip BY <3>1 DEF Chained
      <4> QED BY <1>2, <4>1
    <3> QED BY <1>1, <1>3, <3>1
  <2>4. ASSUME NEW p \in ip + 1 .. ip' - 1, f[p] PROVE FALSE
    <3> DEFINE D == {n \in Nat : n \in ip + 1 .. ip' - 1 /\ f[n]}
    <3>1. p \in D BY <2>0, <2>4
    <3>2. PICK n \in D : \A m \in D : n <= m BY <3>1, SmallestPlace
    <3>3. n \in ip + 1 .. ip' - 1 /\ f[n] OBVIOUS
    <3>4. n \in 1 .. eof /\ n # 1 BY <2>0, <3>3
    <3>5. PICK q \in 1 .. n - 1 : f[q] /\ can_read(q) /\ insn_end(q) = n BY <1>3, <3>3, <3>4
    <3>6. CASE q < ip
      <4>1. q \in starts BY <1>1, <1>2, <3>5, <3>6
      <4>2. insn_end(q) \in starts \cup {ip} BY <4>1 DEF Chained
      <4>3. n \in 1 .. ip BY <1>1, <1>2, <3>5, <4>2
      <4> QED BY <1>1, <3>3, <4>3
    <3>7. CASE q = ip
      BY <1>1, <2>1, <2>2, <3>3, <3>5, <3>7
    <3>8. CASE q > ip
      <4>1. q \in Nat /\ q \in ip + 1 .. ip' - 1 /\ ~ (n <= q)
        BY <2>0, <3>3, <3>5, <3>8
      <4> QED BY <3>2, <3>5, <4>1
    <3> QED BY <1>1, <3>5, <3>6, <3>7, <3>8
  <2>5. starts' = starts \cup {ip}
    <3>1. ASSUME NEW p \in starts' PROVE p \in starts \cup {ip}
      <4>1. p \in 1 .. ip' - 1 /\ g[p] BY <1>5
      <4>2. p \in 1 .. eof /\ f[p] BY <1>8, <2>0, <4>1
      <4>3. p \notin ip + 1 .. ip' - 1 BY <2>4, <4>2
      <4>4. p \in 1 .. ip - 1 \/ p = ip BY <2>0, <4>1, <4>3
      <4> QED BY <1>2, <4>2, <4>4
    <3>2. ASSUME NEW p \in starts \cup {ip} PROVE p \in starts'
      <4>1. p \in 1 .. ip /\ f[p] BY <1>1, <1>2, <2>3
      <4>2. p \in 1 .. eof /\ p \in 1 .. ip' - 1 BY <2>0, <4>1
      <4> QED BY <1>5, <1>8, <4>1, <4>2
    <3> QED BY <3>1, <3>2
  <2>6. \A p \in starts' : can_read(p)' /\ insn_end(p)' \in starts' \cup {ip'}
    BY <1>6, <2>1, <2>5 DEF Chained
  <2>7. \E p \in starts' : can_read(p)' /\ insn_end(p)' = ip'
    BY <1>6, <2>1, <2>5
  <2> QED BY <1>9, <2>5, <2>6, <2>7 DEF Chained
<1>10. CASE ~ReadInstruction
  <2>1. ip' = ip BY <1>10 DEF Next, Failure, PrintFrequency, Ended, vars
  <2>2. starts' = starts
    <3>1. \A p \in 1 .. ip - 1 : p \in 1 .. eof BY <1>1
    <3>2. \A p \in 1 .. ip - 1 : f[p] <=> g[p] BY <1>8, <3>1
    <3> QED BY <1>2, <1>5, <2>1, <3>2
  <2>3. Chained' BY <1>6, <2>1, <2>2 DEF Chained
  <2> QED BY <1>10, <2>2, <2>3
<1> QED BY <1>9, <1>10

-------------------------------------------------------------------------------
(* The counts *)

\* Every instruction read has an entry, and each entry counts how often its
\* bytes were read.
Counted ==
  /\ \A p \in starts : \E k \in DOMAIN codes : bytes_of(codes[k]) = instruction_at(p)
  /\ \A k \in DOMAIN codes :
       codes[k].count = Cardinality(occurrences(bytes_of(codes[k])))

\* Nothing is counted before the first step.
LEMMA InitCounted == ASSUME Init PROVE Counted
  BY InitChained DEF Init, Counted

\* The steps of the counter keep the counts exact.
LEMMA NextCounted ==
  ASSUME IInv, Ordered, Chained, Counted, [Next]_vars PROVE Counted'
<1>1. code \in Seq(Byte) /\ Keys /\ Len(codes) \in Nat /\ DOMAIN codes = 1 .. Len(codes)
  BY MapKeys
<1>2. code' = code BY DEF Next, ReadInstruction, Failure, PrintFrequency, Ended, vars
<1>3. starts' = IF ReadInstruction THEN starts \cup {ip} ELSE starts
  BY NextStarts
<1>4. /\ \A p : instruction_at(p)' = instruction_at(p)
      /\ \A e : bytes_of(e)' = bytes_of(e)
  BY <1>2 DEF instruction_at, bytes_of, insn_end, opcode, capture, n_captured, int_bytes
<1>5. CASE ReadInstruction
  <2>1. PICK i : i = [begin |-> ip, end |-> insn_end(ip)] OBVIOUS
  <2>2. /\ ip \in Nat \ {0} /\ ip < eof /\ can_read(ip)
        /\ increment(i) /\ i.begin = ip /\ i.end = insn_end(ip)
    BY <1>5, <2>1 DEF ReadInstruction, IInv, TypeOK
  <2>3. key(i) BY <2>2 DEF key, decoded
  <2>4. i.begin \in Nat \ {0} /\ i.end \in Nat BY <1>1, <2>3, KeyBytes DEF key
  <2>5. PICK l : l = lower_bound(i) OBVIOUS
  <2>6. codes' \in Seq(Entry) /\ (CountedAgain(i, l) \/ Inserted(i, l))
    BY <1>1, <2>2, <2>4, <2>5, Increment DEF Keys
  <2>7. DOMAIN codes' = 1 .. Len(codes') BY <2>6, LenProperties
  <2>8. /\ \A j \in DOMAIN codes : j < l => less(codes[j], i)
        /\ \A j \in DOMAIN codes : j >= l => ~less(codes[j], i)
    BY <1>1, <2>3, <2>5, LowerIsPrefix
  <2>9. bytes_of(i) = instruction_at(ip) BY <2>2 DEF bytes_of, instruction_at
  <2>10. \A j \in DOMAIN codes : key(codes[j]) BY <1>1 DEF Keys
  <2>11. starts' = starts \cup {ip} BY <1>3, <1>5
  <2>12. ip \notin starts /\ IsFiniteSet(starts)
    <3>1. Len(code) \in Nat BY <1>1, LenProperties
    <3>2. starts \subseteq 1 .. ip - 1 BY <3>1, Starts DEF StartsByMap
    <3>3. IsFiniteSet(1 .. ip - 1) BY <2>2, FS_Interval
    <3>4. IsFiniteSet(starts) BY <3>2, <3>3, FS_Subset
    <3>5. ip \notin 1 .. ip - 1 BY <2>2
    <3> QED BY <3>2, <3>4, <3>5
  <2>13. \A b : occurrences(b)' = occurrences(b) \cup (IF b = bytes_of(i) THEN {ip} ELSE {})
    BY <1>4, <2>9, <2>11 DEF occurrences
  <2>14. \A b : /\ IsFiniteSet(occurrences(b)) /\ ip \notin occurrences(b)
                /\ Cardinality(occurrences(b)) \in Nat
    <3>1. ASSUME NEW b PROVE IsFiniteSet(occurrences(b)) /\ ip \notin occurrences(b)
      <4>1. occurrences(b) \subseteq starts BY DEF occurrences
      <4> QED BY <2>12, <4>1, FS_Subset
    <3> QED BY <3>1, FS_CardinalityType
  <2>15. \A b : Cardinality(occurrences(b)') = Cardinality(occurrences(b))
                                                 + (IF b = bytes_of(i) THEN 1 ELSE 0)
    <3>1. ASSUME NEW b
          PROVE  Cardinality(occurrences(b)') = Cardinality(occurrences(b))
                                                  + (IF b = bytes_of(i) THEN 1 ELSE 0)
      <4>1. PICK S : S = occurrences(b) OBVIOUS
      <4>2. IsFiniteSet(S) /\ ip \notin S /\ Cardinality(S) \in Nat BY <2>14, <4>1
      <4>3. CASE b = bytes_of(i)
        <5>1. occurrences(b)' = S \cup {ip} BY <2>13, <4>1, <4>3
        <5>2. Cardinality(S \cup {ip}) = Cardinality(S) + 1 BY <4>2, FS_AddElement
        <5> QED BY <4>1, <4>3, <5>1, <5>2
      <4>4. CASE b # bytes_of(i)
        <5>1. occurrences(b)' = S BY <2>13, <4>1, <4>4
        <5> QED BY <4>1, <4>2, <4>4, <5>1
      <4> QED BY <4>3, <4>4
    <3> QED BY <3>1
  <2>16. \A j \in DOMAIN codes : codes[j].count \in Nat
    <3>1. \A j \in DOMAIN codes : codes[j] \in Entry BY <1>1, LenProperties DEF Keys
    <3> QED BY <3>1 DEF Entry
  <2>17. CASE CountedAgain(i, l)
    <3>1. /\ l \in DOMAIN codes /\ ~less(i, codes[l]) /\ DOMAIN codes' = DOMAIN codes
          /\ \A j \in DOMAIN codes : codes'[j] = IF j = l THEN one_more(codes[l]) ELSE codes[j]
      BY <1>1, <2>7, <2>17 DEF CountedAgain
    <3>2. l >= l BY <1>1, <3>1
    <3>3. bytes_of(codes[l]) = bytes_of(i)
      BY <1>1, <2>3, <2>8, <2>10, <3>1, <3>2, SameBytes
    <3>4. ASSUME NEW j \in DOMAIN codes, j # l PROVE bytes_of(codes[j]) # bytes_of(i)
      <4>1. j < l \/ l < j BY <1>1, <3>1, <3>4
      <4>2. less(codes[j], codes[l]) \/ less(codes[l], codes[j])
        BY <3>1, <4>1 DEF Ordered
      <4>3. bytes_of(codes[j]) # bytes_of(codes[l])
        BY <1>1, <2>10, <3>1, <4>2, SameBytes
      <4> QED BY <3>3, <4>3
    <3>5. \A j \in DOMAIN codes : bytes_of(codes[j])' = bytes_of(codes[j])
      <4>1. \A j \in DOMAIN codes : /\ codes'[j].begin = codes[j].begin
                                    /\ codes'[j].end = codes[j].end
        BY <3>1 DEF one_more
      <4> QED BY <1>2, <4>1 DEF bytes_of
    <3>6. ASSUME NEW p \in starts'
          PROVE  \E k \in DOMAIN codes' : bytes_of(codes[k])' = instruction_at(p)'
      <4>1. CASE p \in starts
        <5>1. PICK k \in DOMAIN codes : bytes_of(codes[k]) = instruction_at(p)
          BY <4>1 DEF Counted
        <5> QED BY <1>4, <3>1, <3>5, <5>1
      <4>2. CASE p = ip
        BY <1>4, <2>9, <3>1, <3>3, <3>5, <4>2
      <4> QED BY <2>11, <4>1, <4>2
    <3>7. ASSUME NEW j \in DOMAIN codes'
          PROVE  codes'[j].count = Cardinality(occurrences(bytes_of(codes[j]))')
      <4>1. PICK b : b = bytes_of(codes[j]) OBVIOUS
      <4>2. j \in DOMAIN codes BY <3>1
      <4>3. bytes_of(codes[j])' = b BY <3>5, <4>1, <4>2
      <4>4. codes[j].count = Cardinality(occurrences(b)) BY <4>1, <4>2 DEF Counted
      <4>5. codes'[j].count = codes[j].count + (IF b = bytes_of(i) THEN 1 ELSE 0)
        <5>1. CASE j = l
          BY <3>1, <3>3, <4>1, <4>2, <5>1 DEF one_more
        <5>2. CASE j # l
          BY <2>16, <3>1, <3>4, <4>1, <4>2, <5>2
        <5> QED BY <5>1, <5>2
      <4>6. occurrences(bytes_of(codes[j]))' = occurrences(b)'
        BY <4>3 DEF occurrences
      <4> QED BY <2>15, <4>4, <4>5, <4>6
    <3> QED BY <3>6, <3>7 DEF Counted
  <2>18. CASE Inserted(i, l)
    <3>1. /\ l \in 1 .. Len(codes) + 1 /\ (l \in DOMAIN codes => less(i, codes[l]))
          /\ DOMAIN codes' = 1 .. Len(codes) + 1
          /\ \A j \in 1 .. Len(codes) + 1 :
               codes'[j] = IF j < l THEN codes[j] ELSE IF j = l THEN first_entry(i) ELSE codes[j - 1]
      BY <2>7, <2>18 DEF Inserted
    <3>2. ASSUME NEW j \in DOMAIN codes PROVE bytes_of(codes[j]) # bytes_of(i)
      <4>1. CASE j < l
        BY <1>1, <2>3, <2>8, <2>10, <4>1, SameBytes
      <4>2. CASE j >= l
        <5>1. l \in DOMAIN codes BY <1>1, <3>1, <4>2
        <5>2. less(i, codes[l]) BY <3>1, <5>1
        <5>3. l = j \/ l < j BY <1>1, <3>1, <4>2
        <5>4. l < j => less(codes[l], codes[j]) BY <5>1 DEF Ordered
        <5>5. l < j => less(i, codes[j])
          BY <1>1, <2>3, <2>10, <5>1, <5>2, <5>4, LessTransitive
        <5>6. less(i, codes[j]) BY <5>2, <5>3, <5>5
        <5> QED BY <1>1, <2>3, <2>10, <5>6, SameBytes
      <4> QED BY <1>1, <3>1, <4>1, <4>2
    <3>3. occurrences(bytes_of(i)) = {}
      <4>1. ASSUME NEW p \in starts PROVE instruction_at(p) # bytes_of(i)
        <5>1. PICK k \in DOMAIN codes : bytes_of(codes[k]) = instruction_at(p) BY DEF Counted
        <5> QED BY <3>2, <5>1
      <4> QED BY <4>1 DEF occurrences
    <3>4. bytes_of(first_entry(i)) = bytes_of(i) /\ first_entry(i).count = 1
      BY DEF bytes_of, first_entry
    <3>5. ASSUME NEW p \in starts'
          PROVE  \E k \in DOMAIN codes' : bytes_of(codes[k])' = instruction_at(p)'
      <4>1. CASE p \in starts
        <5>1. PICK k \in DOMAIN codes : bytes_of(codes[k]) = instruction_at(p)
          BY <4>1 DEF Counted
        <5>2. CASE k < l
          <6>1. k \in DOMAIN codes' /\ codes'[k] = codes[k] BY <1>1, <3>1, <5>2
          <6>2. bytes_of(codes[k])' = bytes_of(codes[k]) BY <1>2, <6>1 DEF bytes_of
          <6> QED BY <1>4, <5>1, <6>1, <6>2
        <5>3. CASE k >= l
          <6>1. /\ k + 1 \in 1 .. Len(codes) + 1 /\ ~ (k + 1 < l) /\ k + 1 # l /\ k + 1 - 1 = k
            BY <1>1, <3>1, <5>3
          <6>2. k + 1 \in DOMAIN codes' /\ codes'[k + 1] = codes[k] BY <3>1, <6>1
          <6>3. bytes_of(codes[k + 1])' = bytes_of(codes[k]) BY <1>2, <6>2 DEF bytes_of
          <6> QED BY <1>4, <5>1, <6>2, <6>3
        <5> QED BY <1>1, <3>1, <5>2, <5>3
      <4>2. CASE p = ip
        <5>1. l \in DOMAIN codes' /\ codes'[l] = first_entry(i) BY <1>1, <3>1
        <5>2. bytes_of(codes[l])' = bytes_of(i) BY <1>2, <3>4, <5>1 DEF bytes_of
        <5> QED BY <1>4, <2>9, <4>2, <5>1, <5>2
      <4> QED BY <2>11, <4>1, <4>2
    <3>6. ASSUME NEW j \in DOMAIN codes'
          PROVE  codes'[j].count = Cardinality(occurrences(bytes_of(codes[j]))')
      <4>1. PICK b : b = bytes_of(codes'[j]) OBVIOUS
      <4>2. bytes_of(codes[j])' = b BY <1>2, <4>1 DEF bytes_of
      <4>3. occurrences(bytes_of(codes[j]))' = occurrences(b)' BY <4>2 DEF occurrences
      <4>4. ASSUME NEW k \in DOMAIN codes, codes'[j] = codes[k]
            PROVE  codes'[j].count = Cardinality(occurrences(b)')
        <5>1. codes[k].count = Cardinality(occurrences(b)) BY <4>1, <4>4 DEF Counted
        <5>2. b # bytes_of(i) BY <3>2, <4>1, <4>4
        <5> QED BY <2>14, <2>15, <4>4, <5>1, <5>2
      <4>5. CASE j < l
        <5>1. j \in DOMAIN codes /\ codes'[j] = codes[j] BY <1>1, <3>1, <4>5
        <5> QED BY <4>3, <4>4, <5>1
      <4>6. CASE j = l
        <5>1. codes'[j] = first_entry(i) BY <1>1, <3>1, <4>6
        <5>2. b = bytes_of(i) BY <3>4, <4>1, <5>1
        <5>3. Cardinality(occurrences(b)) = 0 BY <3>3, <5>2, FS_EmptySet
        <5> QED BY <2>15, <3>4, <4>3, <5>1, <5>2, <5>3
      <4>7. CASE j > l
        <5>1. j - 1 \in DOMAIN codes /\ ~ (j < l) /\ j # l BY <1>1, <3>1, <4>7
        <5>2. codes'[j] = codes[j - 1] BY <3>1, <5>1
        <5> QED BY <4>3, <4>4, <5>1, <5>2
      <4> QED BY <1>1, <3>1, <4>5, <4>6, <4>7
    <3> QED BY <3>5, <3>6 DEF Counted
  <2> QED BY <2>6, <2>17, <2>18
<1>6. CASE ~ReadInstruction
  <2>1. codes' = codes /\ starts' = starts
    BY <1>3, <1>6 DEF Next, Failure, PrintFrequency, Ended, vars
  <2>2. \A b : occurrences(b)' = occurrences(b) BY <1>4, <2>1 DEF occurrences
  <2>3. \A k : bytes_of(codes[k])' = bytes_of(codes[k]) BY <1>2, <2>1 DEF bytes_of
  <2>4. \A k : occurrences(bytes_of(codes[k]))' = occurrences(bytes_of(codes[k]))
    BY <1>4, <2>1, <2>3 DEF occurrences
  <2> QED BY <1>4, <2>1, <2>3, <2>4 DEF Counted
<1> QED BY <1>5, <1>6

\* The invariant of the counts gives the property: no two entries hold the
\* same bytes, because one of them is less.
LEMMA InvCounts == ASSUME IInv, Ordered, Counted PROVE CountsAreExact
<1>1. code \in Seq(Byte) /\ Keys /\ Len(codes) \in Nat /\ DOMAIN codes = 1 .. Len(codes)
  BY MapKeys
<1>2. ASSUME NEW p \in starts
      PROVE  Cardinality({k \in DOMAIN codes : bytes_of(codes[k]) = instruction_at(p)}) = 1
  <2>1. PICK k \in DOMAIN codes : bytes_of(codes[k]) = instruction_at(p) BY DEF Counted
  <2>2. ASSUME NEW j \in DOMAIN codes, bytes_of(codes[j]) = instruction_at(p) PROVE j = k
    <3>1. ~less(codes[j], codes[k]) /\ ~less(codes[k], codes[j])
      BY <1>1, <2>1, <2>2, SameBytes DEF Keys
    <3>2. ~ (j < k) /\ ~ (k < j) BY <3>1 DEF Ordered
    <3> QED BY <1>1, <3>2
  <2>3. {j \in DOMAIN codes : bytes_of(codes[j]) = instruction_at(p)} = {k}
    BY <2>1, <2>2
  <2> QED BY <2>3, FS_Singleton
<1> QED BY <1>2 DEF Counted, CountsAreExact

-------------------------------------------------------------------------------
(* The report *)

\* What std::sort may make of the entries, and what a report of all of them is.
sorting(order) ==
  /\ order \in [DOMAIN codes -> DOMAIN codes]
  /\ \A a, b \in DOMAIN codes : a # b => order[a] # order[b]
  /\ \A a, b \in DOMAIN codes : a < b => ~before(codes[order[b]], codes[order[a]])
right(order, pr) ==
  /\ DOMAIN pr = DOMAIN codes
  /\ \A k \in DOMAIN codes :
       \E p \in starts : pr[k] = row(p) /\ (has_name(p) <=> has_name(codes[order[k]].begin))
  /\ \A p \in starts : \E k \in DOMAIN codes : pr[k] = row(p)
  /\ \A a, b \in DOMAIN codes : a # b => pr[a].bytes # pr[b].bytes
  /\ \A a, b \in DOMAIN codes : pr[a].count \in Nat /\ (a < b => pr[a].count >= pr[b].count)

\* Instructions of equal bytes have names, or have none.
LEMMA SameName ==
  ASSUME IInv, Chained, NEW k \in DOMAIN codes, NEW p \in starts,
         bytes_of(codes[k]) = instruction_at(p)
  PROVE  has_name(p) <=> has_name(codes[k].begin)
<1>1. code \in Seq(Byte) /\ Keys BY MapKeys
<1>2. ASSUME NEW e, key(e) PROVE bytes_of(e)[1] = code[e.begin]
  <2>1. e.begin \in Nat \ {0} /\ e.end \in Nat /\ e.end - e.begin \in Nat \ {0}
    BY <1>1, <1>2, KeyBytes DEF key
  <2>2. 0 \in 0 .. e.end - e.begin - 1 BY <2>1
  <2>3. bytes_of(e)[0 + 1] = code[e.begin + 0] BY <1>1, <1>2, <2>2, BytesOf
  <2> QED BY <2>1, <2>3
<1>3. PICK e : e = [begin |-> p, end |-> insn_end(p)] OBVIOUS
<1>4. key(e) /\ e.begin = p /\ bytes_of(e) = instruction_at(p)
  <2>1. Len(code) \in Nat BY <1>1, LenProperties
  <2>2. p \in 1 .. ip - 1 BY <2>1, Starts DEF StartsByMap
  <2>3. ip \in Nat /\ ip <= eof /\ eof \in Nat BY <2>1 DEF IInv, TypeOK, eof
  <2>4. p \in Nat \ {0} /\ p < eof BY <2>2, <2>3
  <2>5. can_read(p) BY DEF Chained
  <2> QED BY <1>3, <2>4, <2>5 DEF key, decoded, bytes_of, instruction_at
<1>5. code[p] = code[codes[k].begin]
  <2>1. key(codes[k]) BY <1>1 DEF Keys
  <2> QED BY <1>2, <1>4, <2>1
<1> QED BY <1>5 DEF has_name, opcode

\* std::sort may leave entries of equal counts in any order; whichever it is,
\* the lines of the entries are those of a report.
LEMMA SortedIsRight ==
  ASSUME IInv, Ordered, Chained, Counted,
         NEW order, sorting(order),
         NEW pr, pr = [k \in DOMAIN codes |-> line(codes[order[k]])]
  PROVE  right(order, pr)
<1> USE DEF sorting
<1> DEFINE n == Len(codes)
           texts == {instruction_at(p) : p \in starts}
<1>1. /\ code \in Seq(Byte) /\ Keys /\ n \in Nat /\ DOMAIN codes = 1 .. n
      /\ \A k \in DOMAIN codes : key(codes[k]) /\ codes[k].count \in Nat \ {0}
  <2>1. code \in Seq(Byte) /\ Keys /\ n \in Nat /\ DOMAIN codes = 1 .. n BY MapKeys
  <2>2. \A k \in DOMAIN codes : codes[k] \in Entry BY <2>1, LenProperties DEF Keys
  <2> QED BY <2>1, <2>2 DEF Keys, Entry
<1>2. \A k \in DOMAIN codes :
        line(codes[k]) = [bytes |-> bytes_of(codes[k]), count |-> codes[k].count]
  BY <1>1 DEF line, bytes_of, key, decoded
<1>3. \A k \in DOMAIN codes : order[k] \in DOMAIN codes OBVIOUS
<1>4. /\ DOMAIN pr = DOMAIN codes
      /\ \A k \in DOMAIN codes :
           /\ pr[k] = [bytes |-> bytes_of(codes[order[k]]), count |-> codes[order[k]].count]
           /\ pr[k].bytes = bytes_of(codes[order[k]])
           /\ pr[k].count = codes[order[k]].count
  BY <1>2, <1>3
<1>5. DOMAIN pr = DOMAIN codes BY <1>4
<1>6. \A k \in DOMAIN codes : \E j \in DOMAIN codes : order[j] = k
  <2>1. IsFiniteSet(DOMAIN codes)
    <3>1. n \in Int /\ DOMAIN codes = 1 .. n BY <1>1
    <3> HIDE DEF n
    <3>2. IsFiniteSet(1 .. n) BY <3>1, FS_Interval
    <3> QED BY <3>1, <3>2
  <2>2. order \in Injection(DOMAIN codes, DOMAIN codes) BY DEF Injection, IsInjective
  <2>3. order \in Surjection(DOMAIN codes, DOMAIN codes) BY <2>1, <2>2, FS_Injection
  <2> QED BY <2>3 DEF Surjection
<1>7. \A k \in DOMAIN codes : bytes_of(codes[k]) \in texts
  <2>1. ASSUME NEW k \in DOMAIN codes PROVE bytes_of(codes[k]) \in texts
    <3>1. Cardinality(occurrences(bytes_of(codes[k]))) # 0 BY <1>1 DEF Counted
    <3>2. occurrences(bytes_of(codes[k])) # {} BY <3>1, FS_EmptySet
    <3> QED BY <3>2 DEF occurrences
  <2> QED BY <2>1
<1>8. \A p \in starts : \E k \in DOMAIN codes : bytes_of(codes[k]) = instruction_at(p)
  BY DEF Counted
<1>9. \A k \in DOMAIN codes : codes[k].count = Cardinality(occurrences(bytes_of(codes[k])))
  BY DEF Counted
<1>10. \A j, k \in DOMAIN codes : bytes_of(codes[j]) = bytes_of(codes[k]) => j = k
  <2>1. ASSUME NEW j \in DOMAIN codes, NEW k \in DOMAIN codes, bytes_of(codes[j]) = bytes_of(codes[k])
        PROVE  j = k
    <3>1. ~less(codes[j], codes[k]) /\ ~less(codes[k], codes[j])
      BY <1>1, <2>1, SameBytes
    <3>2. ~ (j < k) /\ ~ (k < j) BY <3>1 DEF Ordered
    <3> QED BY <1>1, <3>2
  <2> QED BY <2>1
<1>11. ASSUME NEW k \in DOMAIN codes, NEW p \in starts,
              bytes_of(codes[order[k]]) = instruction_at(p)
       PROVE  pr[k] = row(p)
  <2>1. PICK j \in DOMAIN codes : j = order[k] BY <1>3
  <2>2. codes[j].count = Cardinality(occurrences(instruction_at(p))) BY <1>9, <1>11, <2>1
  <2> QED BY <1>4, <1>11, <2>1, <2>2 DEF row
<1>12. ASSUME NEW k \in DOMAIN codes
       PROVE  \E p \in starts :
                pr[k] = row(p) /\ (has_name(p) <=> has_name(codes[order[k]].begin))
  <2>1. PICK j \in DOMAIN codes : j = order[k] BY <1>3
  <2>2. PICK p \in starts : bytes_of(codes[j]) = instruction_at(p) BY <1>7
  <2> QED BY <1>11, <2>1, <2>2, SameName
<1>13. ASSUME NEW p \in starts PROVE \E k \in DOMAIN codes : pr[k] = row(p)
  <2>1. PICK j \in DOMAIN codes : bytes_of(codes[j]) = instruction_at(p) BY <1>8
  <2>2. PICK k \in DOMAIN codes : order[k] = j BY <1>6
  <2> QED BY <1>11, <2>1, <2>2
<1>14. ASSUME NEW a \in DOMAIN codes, NEW b \in DOMAIN codes, a # b
       PROVE  pr[a].bytes # pr[b].bytes
  <2>1. order[a] # order[b] BY <1>14
  <2>2. bytes_of(codes[order[a]]) # bytes_of(codes[order[b]]) BY <1>3, <1>10, <2>1
  <2>3. pr[a].bytes = bytes_of(codes[order[a]]) BY <1>4
  <2>4. pr[b].bytes = bytes_of(codes[order[b]]) BY <1>4
  <2> QED BY <2>2, <2>3, <2>4
<1>15. ASSUME NEW a \in DOMAIN codes PROVE pr[a].count \in Nat
  BY <1>1, <1>3, <1>4
<1>16. ASSUME NEW a \in DOMAIN codes, NEW b \in DOMAIN codes, a < b
       PROVE  pr[a].count >= pr[b].count
  <2>1. ~ (codes[order[b]].count > codes[order[a]].count) BY <1>16 DEF before
  <2>2. codes[order[a]].count \in Nat /\ codes[order[b]].count \in Nat BY <1>1, <1>3
  <2>3. pr[a].count = codes[order[a]].count BY <1>4
  <2>4. pr[b].count = codes[order[b]].count BY <1>4
  <2> QED BY <2>1, <2>2, <2>3, <2>4
<1> QED BY <1>5, <1>12, <1>13, <1>14, <1>15, <1>16 DEF right

\* A step that reads nothing changes no row.
LEMMA RowsKept ==
  ASSUME code' = code, starts' = starts
  PROVE  /\ \A p : has_name(p)' <=> has_name(p)
         /\ \A p : row(p)' = row(p)
<1>1. \A p : has_name(p)' <=> has_name(p) BY DEF has_name, opcode
<1>2. \A p : instruction_at(p)' = instruction_at(p)
  BY DEF instruction_at, insn_end, opcode, capture, n_captured, int_bytes
<1>3. \A b : occurrences(b)' = occurrences(b) BY <1>2 DEF occurrences
<1>4. \A p : row(p)' = row(p) BY <1>2, <1>3 DEF row
<1> QED BY <1>1, <1>4

\* The report is right when it is printed, and stays.
LEMMA NextReport ==
  ASSUME IInv, Ordered, Chained, Counted, ReportIsRight, [Next]_vars PROVE ReportIsRight'
<1>1. code' = code BY DEF Next, ReadInstruction, Failure, PrintFrequency, Ended, vars
<1>2. starts' = IF ReadInstruction THEN starts \cup {ip} ELSE starts
  BY NextStarts
<1>3. CASE ReadInstruction \/ Failure
  BY <1>3 DEF ReadInstruction, Failure, ReportIsRight
<1>4. CASE PrintFrequency
  <2>1. starts' = starts
    <3>1. ~ReadInstruction BY <1>4 DEF PrintFrequency, ReadInstruction
    <3> QED BY <1>2, <3>1
  <2>2. PICK all : all = Len(codes) /\ all \in Nat /\ DOMAIN codes = 1 .. all BY MapKeys
  <2>3. PICK order \in [DOMAIN codes -> DOMAIN codes], n \in 0 .. all :
          /\ \A a, b \in DOMAIN codes : a # b => order[a] # order[b]
          /\ \A a, b \in DOMAIN codes : a < b => ~before(codes[order[b]], codes[order[a]])
          /\ \A k \in 1 .. n : has_name(codes[order[k]].begin)
          /\ n < all => ~has_name(codes[order[n + 1]].begin)
          /\ printed' = [k \in 1 .. n |-> line(codes[order[k]])]
          /\ status' = IF n = all THEN "done" ELSE "outside"
    BY <1>4, <2>2 DEF PrintFrequency
  <2>4. PICK pr : pr = [k \in DOMAIN codes |-> line(codes[order[k]])] OBVIOUS
  <2>5. right(order, pr) BY <2>3, <2>4, SortedIsRight DEF sorting
  <2>6. /\ DOMAIN printed' = 1 .. n
        /\ \A k \in 1 .. n : k \in DOMAIN codes /\ printed'[k] = pr[k]
    BY <2>2, <2>3, <2>4
  <2>7. rows' = {pr[k] : k \in 1 .. n} BY <2>6 DEF rows
  <2>8. \A r \in rows' : \E p \in starts : r = row(p) /\ has_name(p)
    BY <2>3, <2>5, <2>6, <2>7 DEF right
  <2>9. ASSUME NEW a \in DOMAIN printed', NEW b \in DOMAIN printed', a < b
        PROVE  printed'[a].bytes # printed'[b].bytes /\ printed'[a].count >= printed'[b].count
    <3>1. /\ a \in DOMAIN codes /\ b \in DOMAIN codes /\ a # b
          /\ printed'[a] = pr[a] /\ printed'[b] = pr[b]
      BY <2>2, <2>6, <2>9
    <3> QED BY <2>5, <2>9, <3>1 DEF right
  <2>10. ASSUME NEW p \in starts, row(p) \notin rows'
         PROVE  n # all /\ \A r \in rows' : r.count >= row(p).count
    <3>1. PICK j \in DOMAIN codes : pr[j] = row(p) BY <2>5 DEF right
    <3>2. j \notin 1 .. n BY <2>7, <2>10, <3>1
    <3>3. j \in 1 .. all /\ n < j BY <2>2, <3>2
    <3>4. ASSUME NEW k \in 1 .. n PROVE pr[k].count >= row(p).count
      <4>1. k \in DOMAIN codes /\ k < j BY <2>6, <3>3
      <4> QED BY <2>5, <3>1, <4>1 DEF right
    <3> QED BY <2>2, <2>7, <3>3, <3>4
  <2>11. ASSUME n # all PROVE \E p \in starts : ~has_name(p) /\ row(p) \notin rows'
    <3>1. n < all /\ n + 1 \in DOMAIN codes BY <2>2, <2>11
    <3>2. PICK p \in starts : pr[n + 1] = row(p) /\ ~has_name(p)
      BY <2>3, <2>5, <3>1 DEF right
    <3>3. ASSUME NEW k \in 1 .. n PROVE pr[k] # row(p)
      <4>1. k \in DOMAIN codes /\ k # n + 1 BY <2>6
      <4> QED BY <2>5, <3>1, <3>2, <4>1 DEF right
    <3> QED BY <2>7, <3>2, <3>3
  <2>12. (status' = "done" => n = all) /\ (status' = "outside" => n # all) BY <2>3
  <2>13. (\A p : has_name(p)' <=> has_name(p)) /\ (\A p : row(p)' = row(p))
    BY <1>1, <2>1, RowsKept
  <2>14. \A r \in rows' : \E p \in starts : r = row(p)' /\ has_name(p)' BY <2>8, <2>13
  <2>15. \A p \in starts : row(p)' \in rows' \/ \A r \in rows' : r.count >= row(p)'.count
    BY <2>10, <2>13
  <2>16. status' = "done" => \A p \in starts : row(p)' \in rows' BY <2>10, <2>12, <2>13
  <2>17. status' = "outside" => \E p \in starts : ~has_name(p)' /\ row(p)' \notin rows'
    BY <2>11, <2>12, <2>13
  <2> QED BY <2>1, <2>9, <2>14, <2>15, <2>16, <2>17 DEF ReportIsRight
<1>5. CASE Ended \/ UNCHANGED vars
  <2>1. printed' = printed /\ status' = status /\ codes' = codes /\ ip' = ip
    BY <1>5 DEF Ended, vars
  <2>2. ~ReadInstruction
    <3>1. SUFFICES ASSUME ReadInstruction PROVE FALSE OBVIOUS
    <3>2. ip \in Nat \ {0} /\ ip < eof /\ can_read(ip) /\ ip' = insn_end(ip)
      BY <3>1 DEF ReadInstruction, next_ip, IInv, TypeOK
    <3>3. Len(code) \in Nat BY MapKeys, LenProperties
    <3>4. ip < insn_end(ip) BY <3>2, <3>3, InsnInside
    <3>5. insn_end(ip) = ip BY <2>1, <3>2
    <3> QED BY <3>2, <3>4, <3>5
  <2>3. starts' = starts /\ rows' = rows BY <1>2, <2>1, <2>2 DEF rows
  <2>4. (\A p : has_name(p)' <=> has_name(p)) /\ (\A p : row(p)' = row(p))
    BY <1>1, <2>3, RowsKept
  <2> QED BY <2>1, <2>3, <2>4 DEF ReportIsRight
<1> QED BY <1>3, <1>4, <1>5 DEF Next

-------------------------------------------------------------------------------
(* Where the counter stops *)

\* Later captured variables of a closure lie behind earlier ones.
LEMMA CapturesInOrder ==
  ASSUME NEW p \in Nat, NEW n \in Nat, NEW i \in 1 .. n
  PROVE  capture(p, i + 1) <= capture(p, n + 1)
<1>1. capture_size \in Nat BY CodeAssumption DEF capture_size
<1>2. PICK c \in Nat : c = capture_size BY <1>1
<1>3. PICK d \in Nat : d = n - i OBVIOUS
<1>4. d * c \in Nat /\ i * c \in Nat BY <1>2, <1>3
<1>5. n * c = i * c + d * c
  <2>1. n = i + d BY <1>3
  <2> QED BY <1>2, <1>3, <2>1
<1>6. n + 1 - 1 = n /\ i + 1 - 1 = i OBVIOUS
<1>7. PICK s \in Nat : s = p + 1 + 2 * SIZEOF_INT BY CodeAssumption
<1>8. /\ capture(p, n + 1) = s + n * c
      /\ capture(p, i + 1) = s + i * c
  BY <1>2, <1>6, <1>7 DEF capture
<1>9. \A x, y, z \in Nat : x = y + z => s + y <= s + x BY <1>7
<1>10. n * c \in Nat BY <1>2
<1> QED BY <1>4, <1>5, <1>8, <1>9, <1>10

\* An instruction whose bytes are in the code and whose operands are right is
\* read, or it ends where the code ends.
LEMMA WholeIsRead ==
  ASSUME Len(code) \in Nat, NEW p \in Nat \ {0}, whole(p), good_operands(p)
  PROVE  p < insn_end(p) /\ (can_read(p) \/ insn_end(p) = eof)
<1>1. SIZEOF_INT \in Nat \ {0} /\ eof \in Nat BY CodeAssumption DEF eof
<1>2. p < eof /\ insn_end(p) <= eof BY DEF whole
<1>3. CASE opcode(p) \in no_operands
  BY <1>3, InsnEnd DEF can_read
<1>4. CASE opcode(p) \in one_int \/ opcode(p) \in a_string
  <2>1. insn_end(p) = p + 1 + SIZEOF_INT BY <1>4, InsnEnd
  <2>2. ASSUME ~can_read(p) PROVE p + 1 + SIZEOF_INT >= eof
    <3>1. opcode(p) \in one_int => ~ints_fit(p + 1, 1) BY <2>2 DEF can_read
    <3>2. opcode(p) \in a_string => ~ints_fit(p + 1, 1)
      BY <2>2 DEF can_read, string_fits, good_operands
    <3> QED BY <1>1, <1>4, <3>1, <3>2 DEF ints_fit
  <2> QED BY <1>1, <1>2, <2>1, <2>2
<1>5. CASE opcode(p) \in two_ints \/ opcode(p) \in a_string_and_int
  <2>1. insn_end(p) = p + 1 + 2 * SIZEOF_INT BY <1>5, InsnEnd
  <2>2. ASSUME ~can_read(p) PROVE p + 1 + 2 * SIZEOF_INT >= eof
    <3>1. opcode(p) \in two_ints => ~ints_fit(p + 1, 2) BY <2>2 DEF can_read
    <3>2. opcode(p) \in a_string_and_int => ~ints_fit(p + 1, 1) \/ ~ints_fit(p + 1, 2)
      BY <2>2 DEF can_read, string_fits, good_operands
    <3> QED BY <1>1, <1>5, <3>1, <3>2 DEF ints_fit
  <2> QED BY <1>1, <1>2, <2>1, <2>2
<1>6. CASE opcode(p) = closure
  <2>1. PICK n \in Nat : n = n_captured(p) BY CapturedNat
  <2>2. insn_end(p) = capture(p, n + 1) BY <1>6, <2>1, InsnEnd
  <2>3. capture(p, n + 1) - p >= 1 + 2 * SIZEOF_INT /\ capture(p, n + 1) \in Int
    <3>1. capture(p, n + 1) \in Int
      <4>1. n + 1 \in Nat OBVIOUS
      <4> QED BY <4>1, CaptureStep
    <3> QED BY <2>1, <3>1, CaptureStep
  <2>4. ASSUME ~can_read(p) PROVE insn_end(p) >= eof
    <3>1. \/ ~ints_fit(p + 1, 2)
          \/ \E i \in 1 .. n : ~ints_fit(capture(p, i) + 1, 1)
      BY <1>6, <2>1, <2>4 DEF can_read, closure_fits, good_operands
    <3>2. CASE ~ints_fit(p + 1, 2)
      BY <1>1, <2>2, <2>3, <3>2 DEF ints_fit
    <3>3. ASSUME NEW i \in 1 .. n, ~ints_fit(capture(p, i) + 1, 1) PROVE insn_end(p) >= eof
      <4>1. /\ capture(p, i) \in Int
            /\ capture(p, i + 1) = capture(p, i) + 1 + SIZEOF_INT
        <5>1. i \in Nat OBVIOUS
        <5> QED BY <5>1, CaptureStep
      <4>2. capture(p, i + 1) <= capture(p, n + 1) BY CapturesInOrder
      <4>3. capture(p, i) + 1 + 1 * SIZEOF_INT >= eof BY <1>1, <3>3, <4>1 DEF ints_fit
      <4> QED BY <1>1, <2>2, <2>3, <4>1, <4>2, <4>3
    <3> QED BY <3>1, <3>2, <3>3
  <2> QED BY <1>1, <1>2, <2>2, <2>3, <2>4
<1> QED BY <1>3, <1>4, <1>5, <1>6 DEF whole, opcodes

\* The counter stops in front of what it cannot read.
StoppedInFront == status = "failed" => ip < eof /\ ~can_read(ip)

\* The steps of the counter preserve that.
LEMMA NextStopped == ASSUME StoppedInFront, [Next]_vars PROVE StoppedInFront'
<1>1. code' = code BY DEF Next, ReadInstruction, Failure, PrintFrequency, Ended, vars
<1>3. eof' = eof BY <1>1 DEF eof
<1>4. CASE ReadInstruction
  BY <1>4 DEF ReadInstruction, StoppedInFront
<1>5. CASE PrintFrequency
  BY <1>5 DEF PrintFrequency, StoppedInFront
<1>6. ASSUME ip' = ip, status' = "failed" => ip < eof /\ ~can_read(ip) PROVE StoppedInFront'
  <2>1. can_read(ip)' <=> can_read(ip)
    BY <1>1, <1>6 DEF can_read, insn_end, opcode, eof, ints_fit, string_fits, int_bytes,
       closure_fits, capture, n_captured
  <2> QED BY <1>3, <1>6, <2>1 DEF StoppedInFront
<1>7. CASE Failure
  BY <1>6, <1>7 DEF Failure
<1>8. CASE Ended \/ UNCHANGED vars
  BY <1>6, <1>8 DEF Ended, StoppedInFront, vars
<1> QED BY <1>4, <1>5, <1>7, <1>8 DEF Next

\* In a code that goes on to a STOP at its end, the counter stops nowhere: an
\* instruction it could not read would have to end where the code ends, and
\* then no instruction ends in front of the STOP.
LEMMA InvStopTerminated == ASSUME IInv, StoppedInFront PROVE StopTerminatedIsCounted
<1> SUFFICES ASSUME status = "failed", NEW ends \in SUBSET (ip .. eof),
                    {ip, eof - 1, eof} \subseteq ends, opcode(eof - 1)[1] = 15,
                    \A p \in ends \ {eof} : whole(p) /\ good_operands(p),
                    {insn_end(p) : p \in ends \ {eof}} = ends \ {ip}
             PROVE  FALSE
  BY DEF StopTerminatedIsCounted
<1>1. Len(code) \in Nat /\ ip \in Nat \ {0} /\ eof \in Nat
  <2>1. Len(code) \in Nat BY MapKeys, LenProperties
  <2> QED BY <2>1 DEF IInv, TypeOK, eof
<1>2. ip < eof /\ ~can_read(ip) BY DEF StoppedInFront
<1>3. \A p \in ends : p \in Nat \ {0} BY <1>1
<1>4. \A p \in ends \ {eof} : p < insn_end(p)
  BY <1>1, <1>3, WholeIsRead
<1>5. insn_end(ip) = eof
  <2>1. ip \in ends \ {eof} BY <1>1, <1>2
  <2> QED BY <1>1, <1>2, <2>1, WholeIsRead
<1>6. ip # eof - 1
  <2>1. SUFFICES ASSUME ip = eof - 1 PROVE FALSE OBVIOUS
  <2>2. whole(ip) BY <1>1, <1>2
  <2>3. opcode(ip)[1] = 15 BY <2>1
  <2>4. opcode(ip) \in opcodes \/ opcode(ip) = closure BY <2>2 DEF whole
  <2>5. opcode(ip) \in no_operands
    <3>1. \A o \in one_int \cup two_ints \cup a_string \cup a_string_and_int : o[1] # 15
      BY DEF one_int, two_ints, a_string, a_string_and_int
    <3>2. closure[1] # 15 BY DEF closure
    <3> QED BY <2>3, <2>4, <3>1, <3>2 DEF opcodes
  <2> QED BY <1>2, <2>5 DEF can_read
<1> DEFINE D == ends \ {ip, eof}
<1>7. eof - 1 \in D BY <1>1, <1>6
<1>8. PICK m \in D : \A n \in D : m <= n
  <2>1. D \in SUBSET Nat BY <1>3
  <2> QED BY <1>7, <2>1, SmallestPlace
<1>9. PICK q \in ends \ {eof} : insn_end(q) = m
  <2>1. m \in ends \ {ip} OBVIOUS
  <2> QED BY <2>1
<1>10. q # ip BY <1>5, <1>9
<1>11. q \in D BY <1>10
<1>12. m <= q /\ q < m BY <1>4, <1>8, <1>9, <1>11
<1> QED BY <1>3, <1>12

-------------------------------------------------------------------------------
(* Theorems *)

\* Whatever the file holds, each variable has its type, the counter never reads
\* behind the code, and the entries of the map are instructions it has read
\* (calculate_codes).
THEOREM TypeOKHolds == Spec => []TypeOK
<1>1. IInv => TypeOK BY DEF IInv
<1> QED BY <1>1, InitIInv, NextIInv, PTL DEF Spec

\* The invariant gives that no entry is a proper prefix of another.
LEMMA InvPrefixFree == ASSUME IInv PROVE PrefixFree
<1>1. code \in Seq(Byte) /\ \A i \in DOMAIN codes : key(codes[i])
  BY MapKeys DEF Keys
<1> QED BY <1>1, AgreeIsEqual DEF PrefixFree

\* No instruction in the map is a proper prefix of another, so the memcmp of
\* operator< finds a difference inside both of its operands or they are equal.
THEOREM PrefixFreeHolds == Spec => []PrefixFree
  BY InvPrefixFree, InitIInv, NextIInv, PTL DEF Spec

\* operator< is the strict weak order std::map asks for, on the entries of the
\* map and the instruction that is looked up in it, in every file: the search
\* of try_emplace finds the entry of an instruction whichever way it goes.
THEOREM OrderIsStrictWeakHolds == Spec => []OrderIsStrictWeak
<1>1. ASSUME IInv, Ordered PROVE OrderIsStrictWeak
  <2>1. code \in Seq(Byte) /\ Keys /\ Len(codes) \in Nat /\ DOMAIN codes = 1 .. Len(codes)
    BY <1>1, MapKeys
  <2>2. \A i \in DOMAIN codes : key(codes[i]) BY <2>1 DEF Keys
  <2>3. ASSUME NEW i \in DOMAIN codes, NEW j \in DOMAIN codes
        PROVE  less(codes[i], codes[j]) <=> i < j
    <3>1. i < j => less(codes[i], codes[j]) BY <1>1 DEF Ordered
    <3>2. j < i => less(codes[j], codes[i]) BY <1>1 DEF Ordered
    <3>3. less(codes[i], codes[j]) => ~less(codes[j], codes[i])
      BY <2>1, <2>2, LessAsymmetric
    <3>4. i < j \/ j < i \/ i = j BY <2>1
    <3> QED BY <3>1, <3>2, <3>3, <3>4
  <2>4. ASSUME status = "reading", ip < eof, can_read(ip), NEW i \in DOMAIN codes,
               NEW j \in DOMAIN codes, i < j, NEW k, k = [begin |-> ip, end |-> insn_end(ip)]
        PROVE  /\ less(codes[j], k) => less(codes[i], k) /\ ~less(k, codes[i])
               /\ less(k, codes[i]) => less(k, codes[j]) /\ ~less(codes[j], k)
    <3>1. key(k) BY <1>1, <2>4 DEF key, decoded, IInv, TypeOK
    <3>2. less(codes[i], codes[j]) BY <2>3, <2>4
    <3>3. less(codes[j], k) => less(codes[i], k)
      BY <2>1, <2>2, <3>1, <3>2, LessTransitive
    <3>4. less(k, codes[i]) => less(k, codes[j])
      BY <2>1, <2>2, <3>1, <3>2, LessTransitive
    <3>5. less(codes[i], k) => ~less(k, codes[i]) BY <2>1, <2>2, <3>1, LessAsymmetric
    <3>6. less(k, codes[j]) => ~less(codes[j], k) BY <2>1, <2>2, <3>1, LessAsymmetric
    <3> QED BY <3>3, <3>4, <3>5, <3>6
  <2>5. PrefixFree BY <1>1, InvPrefixFree
  <2> QED BY <2>3, <2>4, <2>5 DEF OrderIsStrictWeak
<1> QED BY <1>1, InitIInv, NextIInv, InitOrdered, NextOrdered, PTL DEF Spec

\* calculate_codes: whatever the code, each instruction read is counted in
\* exactly one entry of the map, together with those that have the same bytes.
THEOREM CountsAreExactHolds == Spec => []CountsAreExact
<1> DEFINE Inv == IInv /\ Ordered /\ Chained /\ Counted
<1>1. Init => Inv BY InitIInv, InitOrdered, InitChained, InitCounted
<1>2. Inv /\ [Next]_vars => Inv'
  BY NextIInv, NextOrdered, NextStarts, NextCounted
<1>3. Inv => CountsAreExact BY InvCounts
<1> QED BY <1>1, <1>2, <1>3, PTL DEF Spec

\* print_frequency: whatever the code and whatever std::sort does with equal
\* counts, the report has a line for each different instruction with the number
\* of its occurrences, the more frequent first, and if it is cut short, then by
\* an operator or a pattern without a name.
THEOREM ReportIsRightHolds == Spec => []ReportIsRight
<1> DEFINE Inv == IInv /\ Ordered /\ Chained /\ Counted
<1>1. Init => Inv BY InitIInv, InitOrdered, InitChained, InitCounted
<1>2. Inv /\ [Next]_vars => Inv'
  BY NextIInv, NextOrdered, NextStarts, NextCounted
<1>3. Init => ReportIsRight BY DEF Init, ReportIsRight
<1>4. Inv /\ ReportIsRight /\ [Next]_vars => ReportIsRight' BY NextReport
<1> QED BY <1>1, <1>2, <1>3, <1>4, PTL DEF Spec

\* The strict bound of next_int rejects nothing in a code that ends in STOP.
THEOREM StopTerminatedIsCountedHolds == Spec => []StopTerminatedIsCounted
<1>1. Init => StoppedInFront BY DEF Init, StoppedInFront
<1> QED BY <1>1, InitIInv, NextIInv, NextStopped, InvStopTerminated, PTL DEF Spec

-------------------------------------------------------------------------------
(* One instruction in the three switches *)

\* The cases of the disassembler by the groups of the counter.
LEMMA SameGroups ==
  /\ no_INT \subseteq no_operands
  /\ one_INT = one_int \cup a_string
  /\ two_INT = two_ints \cup a_string_and_int
  /\ STRING_cases = a_string \cup a_string_and_int
<1>1. no_INT \subseteq no_operands BY DEF no_INT, no_operands, Nibble
<1>2. one_INT = one_int \cup a_string BY DEF one_INT, one_int, a_string
<1>3. two_INT = two_ints \cup a_string_and_int BY DEF two_INT, two_ints, a_string_and_int
<1>4. STRING_cases = a_string \cup a_string_and_int
  BY DEF STRING_cases, a_string, a_string_and_int
<1> QED BY <1>1, <1>2, <1>3, <1>4

\* The line of the disassembler ends where its case says.
LEMMA LineEnd ==
  ASSUME NEW p
  PROVE  /\ opcode(p) \in no_INT  => line_end(p) = p + 1
         /\ opcode(p) \in one_INT => line_end(p) = p + 1 + SIZEOF_INT
         /\ opcode(p) \in two_INT => line_end(p) = p + 1 + 2 * SIZEOF_INT
         /\ opcode(p) = closure   => line_end(p) = capture(p, n_captured(p) + 1)
<1>1. /\ no_INT \cap (one_INT \cup two_INT) = {} /\ one_INT \cap two_INT = {}
      /\ closure \notin no_INT \cup one_INT \cup two_INT
  BY SameGroups, GroupsDisjoint
<1>2. opcode(p) \in no_INT => line_end(p) = p + 1 BY <1>1 DEF line_end
<1>3. opcode(p) \in one_INT => line_end(p) = p + 1 + SIZEOF_INT BY <1>1 DEF line_end
<1>4. opcode(p) \in two_INT => line_end(p) = p + 1 + 2 * SIZEOF_INT BY <1>1 DEF line_end
<1>5. opcode(p) = closure => line_end(p) = capture(p, n_captured(p) + 1) BY <1>1 DEF line_end
<1> QED BY <1>2, <1>3, <1>4, <1>5

\* The counter's read_instruction returns the end of the line.
LEMMA SameEnd ==
  ASSUME NEW p, ~no_case(p) PROVE insn_end(p) = line_end(p)
<1>1. \/ opcode(p) \in no_INT \/ opcode(p) \in one_INT \/ opcode(p) \in two_INT
      \/ opcode(p) = closure
  BY DEF no_case
<1>2. CASE opcode(p) \in no_INT BY <1>2, SameGroups, InsnEnd, LineEnd
<1>3. CASE opcode(p) \in one_INT BY <1>3, SameGroups, InsnEnd, LineEnd
<1>4. CASE opcode(p) \in two_INT BY <1>4, SameGroups, InsnEnd, LineEnd
<1>5. CASE opcode(p) = closure BY <1>5, InsnEnd, LineEnd
<1> QED BY <1>1, <1>2, <1>3, <1>4, <1>5

\* A line is longer than its opcode.
LEMMA LineLength ==
  ASSUME NEW p \in Nat \ {0}, ~no_case(p)
  PROVE  line_end(p) \in Nat /\ p + 1 <= line_end(p)
<1>1. SIZEOF_INT \in Nat \ {0} BY CodeAssumption
<1>2. \/ opcode(p) \in no_INT \/ opcode(p) \in one_INT \/ opcode(p) \in two_INT
      \/ opcode(p) = closure
  BY DEF no_case
<1>3. CASE opcode(p) \in no_INT BY <1>3, LineEnd
<1>4. CASE opcode(p) \in one_INT BY <1>1, <1>4, LineEnd
<1>5. CASE opcode(p) \in two_INT BY <1>1, <1>5, LineEnd
<1>6. CASE opcode(p) = closure
  <2>1. n_captured(p) \in Nat BY CapturedNat
  <2>2. /\ capture(p, n_captured(p)) \in Int
        /\ capture(p, n_captured(p) + 1) = capture(p, n_captured(p)) + 1 + SIZEOF_INT
        /\ capture(p, n_captured(p) + 1) - p >= 1 + 2 * SIZEOF_INT
    BY <2>1, CaptureStep
  <2> QED BY <1>1, <1>6, <2>2, LineEnd
<1> QED BY <1>2, <1>3, <1>4, <1>5, <1>6

\* Captured variables follow each other.
LEMMA CaptureMonotone ==
  ASSUME NEW p \in Nat, NEW n \in Nat, NEW i \in 1 .. n
  PROVE  capture(p, i) \in Int /\ capture(p, i) + 1 + SIZEOF_INT <= capture(p, n + 1)
<1> DEFINE c == capture_size
<1>1. c \in Nat /\ c = 1 + SIZEOF_INT /\ SIZEOF_INT \in Nat
  BY CodeAssumption DEF capture_size
<1>2. capture(p, i) = p + 1 + 2 * SIZEOF_INT + (i - 1) * c BY DEF capture
<1>3. capture(p, n + 1) = p + 1 + 2 * SIZEOF_INT + n * c
  <2>1. n + 1 - 1 = n OBVIOUS
  <2> QED BY <2>1 DEF capture
<1> HIDE DEF c
<1>4. (i - 1) * c + c <= n * c /\ (i - 1) * c \in Int /\ n * c \in Int
  <2>1. \A a, b \in Nat : a <= b => a * c <= b * c BY <1>1
  <2>2. i * c = (i - 1) * c + c BY <1>1, OneMore
  <2>3. i * c <= n * c BY <2>1
  <2>4. i * c \in Int /\ (i - 1) * c \in Int /\ n * c \in Int BY <1>1, OneMore
  <2> QED BY <2>2, <2>3, <2>4
<1> QED BY <1>1, <1>2, <1>3, <1>4

\* A line that ends in front of another byte is read by the counter.
LEMMA PrintedIsRead ==
  ASSUME NEW p \in Nat \ {0}, Len(code) \in Nat, printable(p), line_end(p) < eof
  PROVE  can_read(p)
<1>1. SIZEOF_INT \in Nat \ {0} BY CodeAssumption
<1>2. ~no_case(p) /\ names_inside(p) BY DEF printable
<1>3. \/ opcode(p) \in no_INT \/ opcode(p) \in one_INT \/ opcode(p) \in two_INT
      \/ opcode(p) = closure
  BY <1>2 DEF no_case
<1>4. CASE opcode(p) \in no_INT BY <1>4, SameGroups DEF can_read
<1>5. CASE opcode(p) \in one_INT
  <2>1. ints_fit(p + 1, 1) BY <1>1, <1>5, LineEnd DEF ints_fit
  <2>2. CASE opcode(p) \in one_int BY <2>1, <2>2 DEF can_read
  <2>3. CASE opcode(p) \in a_string
    BY <1>2, <2>1, <2>3, SameGroups DEF can_read, string_fits, names_inside
  <2> QED BY <1>5, <2>2, <2>3, SameGroups
<1>6. CASE opcode(p) \in two_INT
  <2>1. ints_fit(p + 1, 1) /\ ints_fit(p + 1, 2)
    BY <1>1, <1>6, LineEnd DEF ints_fit, eof
  <2>2. CASE opcode(p) \in two_ints BY <2>1, <2>2 DEF can_read
  <2>3. CASE opcode(p) \in a_string_and_int
    BY <1>2, <2>1, <2>3, SameGroups DEF can_read, string_fits, names_inside
  <2> QED BY <1>6, <2>2, <2>3, SameGroups
<1>7. CASE opcode(p) = closure
  <2> DEFINE n == n_captured(p)
  <2>1. n \in Nat BY CapturedNat
  <2>2. line_end(p) = capture(p, n + 1) /\ line_end(p) \in Nat
    BY <1>2, <1>7, LineEnd, LineLength
  <2>3. capture(p, n + 1) - p >= 1 + 2 * SIZEOF_INT BY <2>1, CaptureStep
  <2>4. ints_fit(p + 1, 2) /\ p + 2 * SIZEOF_INT < eof
    BY <1>1, <2>2, <2>3 DEF ints_fit, eof
  <2>5. ~no_place(p) BY <1>2, <1>7 DEF no_case
  <2>6. ASSUME NEW i \in 1 .. n
        PROVE  ints_fit(capture(p, i) + 1, 1) /\ code[capture(p, i)] \in 0 .. 3
    <3>1. capture(p, i) \in Int /\ capture(p, i) + 1 + SIZEOF_INT <= capture(p, n + 1)
      BY <2>1, CaptureMonotone
    <3>2. ints_fit(capture(p, i) + 1, 1) /\ capture(p, i) < eof
      BY <1>1, <2>2, <3>1 DEF ints_fit, eof
    <3> QED BY <2>4, <2>5, <3>2 DEF no_place
  <2> QED BY <1>7, <2>4, <2>6 DEF can_read, closure_fits
<1> QED BY <1>3, <1>4, <1>5, <1>6, <1>7

\* What the counter reads the disassembler prints, if it has a name.
LEMMA ReadIsPrinted ==
  ASSUME NEW p \in Nat \ {0}, Len(code) \in Nat, p < eof, can_read(p),
         ~stop_case(p), has_name(p)
  PROVE  printable(p)
<1>1. SIZEOF_INT \in Nat \ {0} BY CodeAssumption
<1>2. \/ opcode(p) \in no_INT \/ opcode(p) \in one_INT \/ opcode(p) \in two_INT
      \/ opcode(p) = closure
  <2>1. opcode(p) \in no_operands => opcode(p) \in no_INT
    BY DEF no_operands, no_INT, stop_case
  <2> QED BY <2>1, SameGroups DEF can_read
<1>3. ~no_case(p)
  <2>1. CASE opcode(p) # closure BY <1>2, <2>1 DEF no_case
  <2>2. CASE opcode(p) = closure
    <3>1. closure_fits(p) BY <2>2, GroupsDisjoint DEF can_read
    <3> QED BY <2>2, <3>1 DEF no_case, no_place, closure_fits
  <2> QED BY <2>1, <2>2
<1>4. bytes_inside(p)
  <2>1. line_end(p) <= eof BY <1>3, SameEnd, InsnInside
  <2>2. opcode(p) = closure => p + 2 * SIZEOF_INT < eof
    <3> SUFFICES ASSUME opcode(p) = closure PROVE p + 2 * SIZEOF_INT < eof OBVIOUS
    <3>1. closure_fits(p) BY GroupsDisjoint DEF can_read
    <3> QED BY <1>1, <3>1 DEF closure_fits, ints_fit, eof
  <2> QED BY <2>1, <2>2 DEF bytes_inside
<1>5. names_inside(p)
  <2>1. opcode(p) \in STRING_cases => string_fits(p + 1)
    BY SameGroups, GroupsDisjoint DEF can_read, one_int, two_ints, a_string, a_string_and_int
  <2> QED BY <2>1 DEF names_inside, string_fits, has_name
<1> QED BY <1>3, <1>4, <1>5 DEF printable

-------------------------------------------------------------------------------
(* The operands in the interpreter *)

goes_on == straight \cup CJMP \cup {JMP, CALLC, CALL, closure}

\* The handlers by the cases of the disassembler.
LEMMA HandlersAreCases ==
  /\ straight_0 \cup {END} \subseteq no_INT
  /\ straight_1 \cup CJMP \cup {JMP, CALLC} \subseteq one_INT
  /\ straight_2 \cup {CALL, FAILS} \subseteq two_INT
<1>1. straight_0 \cup {END} \subseteq no_INT BY DEF straight_0, END, no_INT, Nibble
<1>2. straight_1 \cup CJMP \cup {JMP, CALLC} \subseteq one_INT
  BY DEF straight_1, CJMP, JMP, CALLC, one_INT
<1>3. straight_2 \cup {CALL, FAILS} \subseteq two_INT
  BY DEF straight_2, CALL, FAILS, two_INT
<1> QED BY <1>1, <1>2, <1>3

\* No two handlers of different lengths are for one opcode, and STOP is none.
LEMMA HandlersDisjoint ==
  /\ FAILS \notin straight_2 \cup {CALL}
  /\ \A o : o \in goes_on \cup {FAILS, END} => o[1] # 15
<1>1. FAILS \notin straight_2 \cup {CALL} BY DEF FAILS, straight_2, CALL
<1>2. ASSUME NEW o \in straight_0 PROVE o[1] # 15 BY DEF straight_0, Nibble
<1>3. ASSUME NEW o \in straight_1 \cup CJMP \cup {JMP, CALLC} PROVE o[1] # 15
  BY DEF straight_1, CJMP, JMP, CALLC
<1>4. ASSUME NEW o \in straight_2 \cup {CALL, FAILS, closure, END} PROVE o[1] # 15
  BY DEF straight_2, CALL, FAILS, closure, END
<1> QED BY <1>1, <1>2, <1>3, <1>4 DEF goes_on, straight

\* A place that the disassembler has no case for is one that get_addr refuses.
LEMMA PlacesAreCases ==
  ASSUME NEW p, opcode(p) \in get_addr_handlers
  PROVE  opcode(p) \in straight_1 \/ (no_case(p) /\ opcode(p) # closure)
<1>1. ASSUME NEW o \in get_addr_handlers, o[2] \in 0 .. 3 PROVE o \in straight_1
  BY <1>1 DEF get_addr_handlers, straight_1, Nibble
<1>2. ASSUME NEW o \in get_addr_handlers, o[2] \notin 0 .. 3
      PROVE  o \notin no_INT \cup one_INT \cup two_INT \cup {closure}
  BY <1>2 DEF get_addr_handlers, no_INT, one_INT, two_INT, closure, Nibble
<1> QED BY <1>1, <1>2 DEF no_case

\* A handler that goes on reads what the disassembler prints; the others, no
\* more than that.
LEMMA BehindLine ==
  ASSUME NEW p \in Nat \ {0}, ~no_case(p)
  PROVE  /\ behind(p) \in Nat /\ p + 1 <= behind(p) /\ behind(p) <= line_end(p)
         /\ opcode(p) \in goes_on => behind(p) = line_end(p)
<1>1. SIZEOF_INT \in Nat \ {0} BY CodeAssumption
<1>2. \/ opcode(p) \in no_INT \/ opcode(p) \in one_INT \/ opcode(p) \in two_INT
      \/ opcode(p) = closure
  BY DEF no_case
<1>3. /\ no_INT \cap (one_INT \cup two_INT) = {} /\ one_INT \cap two_INT = {}
      /\ closure \notin no_INT \cup one_INT \cup two_INT
  BY SameGroups, GroupsDisjoint
<1>4. line_end(p) \in Nat /\ p + 1 <= line_end(p) BY LineLength
<1>5. CASE opcode(p) \in no_INT
  <2>1. /\ opcode(p) \notin straight_1 \cup CJMP \cup {JMP, CALLC}
        /\ opcode(p) \notin straight_2 \cup {CALL} /\ opcode(p) # FAILS /\ opcode(p) # closure
    BY <1>3, <1>5, HandlersAreCases
  <2>2. opcode(p) \notin get_addr_handlers BY <2>1, PlacesAreCases
  <2>3. behind(p) = p + 1 BY <2>1, <2>2 DEF behind
  <2> QED BY <1>5, <2>3, LineEnd
<1>6. CASE opcode(p) \in one_INT
  <2>1. opcode(p) \in goes_on => opcode(p) \in straight_1 \cup CJMP \cup {JMP, CALLC}
    BY <1>3, <1>6, HandlersAreCases DEF goes_on, straight
  <2>2. /\ opcode(p) \notin straight_2 \cup {CALL} /\ opcode(p) # FAILS /\ opcode(p) # closure
    BY <1>3, <1>6, HandlersAreCases
  <2>3. behind(p) = p + 1 + SIZEOF_INT \/ (behind(p) = p + 1 /\ opcode(p) \notin goes_on)
    BY <2>1, <2>2 DEF behind
  <2> QED BY <1>1, <1>6, <2>3, LineEnd
<1>7. CASE opcode(p) \in two_INT
  <2>1. opcode(p) \in goes_on => opcode(p) \in straight_2 \cup {CALL}
    BY <1>3, <1>7, HandlersAreCases DEF goes_on, straight
  <2>2. /\ opcode(p) \notin straight_1 \cup get_addr_handlers \cup CJMP \cup {JMP, CALLC}
        /\ opcode(p) # closure
    BY <1>3, <1>7, HandlersAreCases, PlacesAreCases
  <2>3. opcode(p) \in straight_2 \cup {CALL} => behind(p) = p + 1 + 2 * SIZEOF_INT
    BY <2>2, HandlersDisjoint DEF behind
  <2>4. opcode(p) = FAILS => behind(p) = p + 2 + SIZEOF_INT
    BY <2>2, HandlersDisjoint DEF behind
  <2>5. opcode(p) \notin straight_2 \cup {CALL} /\ opcode(p) # FAILS => behind(p) = p + 1
    BY <2>2 DEF behind
  <2> QED BY <1>1, <1>7, <2>1, <2>3, <2>4, <2>5, LineEnd, HandlersDisjoint
<1>8. CASE opcode(p) = closure
  <2>1. /\ opcode(p) \notin straight_1 \cup get_addr_handlers \cup CJMP \cup {JMP, CALLC}
        /\ opcode(p) \notin straight_2 \cup {CALL} /\ opcode(p) # FAILS
    BY <1>3, <1>8, HandlersAreCases, PlacesAreCases
  <2>2. behind(p) = capture(p, n_captured(p) + 1) BY <1>8, <2>1 DEF behind
  <2> QED BY <1>4, <1>8, <2>2, LineEnd
<1> QED BY <1>2, <1>5, <1>6, <1>7, <1>8

\* At STOP no handler goes on, and nothing is read behind it.
LEMMA BehindStop ==
  ASSUME NEW p, stop_case(p)
  PROVE  opcode(p) \notin goes_on \cup {FAILS, END} /\ behind(p) = p + 1 /\ ~rejected(p)
<1>1. opcode(p) \notin goes_on \cup {FAILS, END} BY HandlersDisjoint DEF stop_case
<1>2. behind(p) = p + 1
  <2>1. opcode(p) \notin get_addr_handlers BY DEF stop_case, get_addr_handlers
  <2> QED BY <1>1, <2>1 DEF behind, goes_on, straight
<1>3. get_string_handlers \subseteq goes_on
  BY DEF get_string_handlers, goes_on, straight, straight_1, straight_2
<1>4. ~rejected(p) BY <1>1, <1>3 DEF rejected, no_string, no_addr, goes_on
<1> QED BY <1>1, <1>2, <1>4

\* What the disassembler has printed, in front of STOP, can be fetched.
LEMMA PrintedIsFetched ==
  ASSUME NEW p \in Nat \ {0}, Len(code) \in Nat, printable(p), line_end(p) < eof
  PROVE  can_fetch(p)
<1>1. SIZEOF_INT \in Nat \ {0} BY CodeAssumption
<1>2. ~no_case(p) BY DEF printable
<1>3. behind(p) \in Nat /\ p + 1 <= behind(p) /\ behind(p) <= line_end(p) /\ line_end(p) \in Nat
  BY <1>2, BehindLine, LineLength
<1>4. p + 1 < eof /\ behind(p) < eof BY <1>3 DEF eof
<1>5. ASSUME opcode(p) = closure PROVE p + 1 + 2 * SIZEOF_INT < eof
  <2>1. n_captured(p) \in Nat BY CapturedNat
  <2>2. line_end(p) = capture(p, n_captured(p) + 1) BY <1>5, LineEnd
  <2>3. capture(p, n_captured(p) + 1) - p >= 1 + 2 * SIZEOF_INT BY <2>1, CaptureStep
  <2> QED BY <1>1, <1>3, <2>2, <2>3 DEF eof
<1> QED BY <1>4, <1>5 DEF can_fetch

-------------------------------------------------------------------------------
(* The invariant *)

good_line(p) == p < eof /\ ~stop_case(p) /\ printable(p)

Disassembled ==
  /\ code \in Seq(Byte)
  /\ dis_ip \in Nat \ {0}
  /\ lines \in Seq(Nat \ {0})
  /\ \A i \in DOMAIN lines : good_line(lines[i]) /\ line_end(lines[i]) = next_line(i)
  /\ IF Len(lines) = 0 THEN dis_ip = 1 ELSE lines[1] = 1
  /\ dis_status = "ended"   => dis_ip < eof /\ stop_case(dis_ip)
  /\ dis_status = "failed"  => ~stop_case(dis_ip) /\ no_case(dis_ip)
  /\ dis_status = "outside" => is_outside(dis_ip)

OnCode == /\ interp_ip \in places_of_code
          /\ returns \in Seq(places_of_code)
          /\ labels \subseteq places_of_code

Executed ==
  /\ tool = "iterinter" => dis_status = "ended"
  /\ tool # "iterinter" => interp_status = "off"
  /\ interp_status = "off" => interp_ip = 1 /\ returns = << >> /\ labels = {}
  /\ linked /\ interp_status # "off" => OnCode
  /\ RunsWhatIsPrinted

FileInv == Disassembled /\ Executed

\* A line is what it is as long as the code does not change.
LEMMA LineKept ==
  ASSUME NEW p, code' = code
  PROVE  /\ opcode(p)' = opcode(p) /\ eof' = eof /\ stop_case(p)' = stop_case(p)
         /\ no_case(p)' = no_case(p) /\ line_end(p)' = line_end(p)
         /\ printable(p)' = printable(p) /\ good_line(p)' = good_line(p)
         /\ is_outside(p)' = is_outside(p) /\ label(p)' = label(p)
  BY DEF opcode, eof, stop_case, no_case, no_place, line_end, printable, good_line, is_outside,
         n_captured, capture, int_bytes, bytes_inside, names_inside, label

\* Before anything is read.
LEMMA FileInitInv == ASSUME FileInit PROVE FileInv
<1>1. code \in Seq(Byte) BY InitIInv DEF FileInit, IInv, TypeOK
<1>2. Disassembled BY <1>1, EmptySeq DEF FileInit, DisassemblerInit, Disassembled
<1>3. Executed BY DEF FileInit, InterpInit, Executed, RunsWhatIsPrinted
<1> QED BY <1>2, <1>3 DEF FileInv

Kept == code' = code /\ dis_ip' = dis_ip /\ lines' = lines

\* What a step that does not read keeps.
LEMMA KeptDisassembled ==
  ASSUME Disassembled, Kept,
         dis_status' = "ended"   => dis_ip < eof /\ stop_case(dis_ip),
         dis_status' = "failed"  => ~stop_case(dis_ip) /\ no_case(dis_ip),
         dis_status' = "outside" => is_outside(dis_ip)
  PROVE  Disassembled'
<1>1. code' = code /\ dis_ip' = dis_ip /\ lines' = lines BY DEF Kept
<1>2. ASSUME NEW i \in DOMAIN lines
      PROVE  good_line(lines[i])' /\ line_end(lines[i])' = next_line(i)'
  <2>1. good_line(lines[i]) /\ line_end(lines[i]) = next_line(i) BY DEF Disassembled
  <2>2. next_line(i)' = next_line(i) BY <1>1 DEF next_line
  <2> QED BY <1>1, <2>1, <2>2, LineKept
<1>3. /\ dis_status' = "ended"   => (dis_ip < eof /\ stop_case(dis_ip))'
      /\ dis_status' = "failed"  => (~stop_case(dis_ip) /\ no_case(dis_ip))'
      /\ dis_status' = "outside" => is_outside(dis_ip)'
  BY <1>1, LineKept
<1> QED BY <1>1, <1>2, <1>3 DEF Disassembled

\* What is known of the place that the disassembler reads next.
LEMMA LinesExtended ==
  ASSUME Disassembled, PrintLine PROVE Disassembled'
<1>1. /\ dis_ip \in Nat \ {0} /\ lines \in Seq(Nat \ {0}) /\ Len(code) \in Nat
      /\ good_line(dis_ip) /\ code' = code /\ dis_status' = dis_status /\ dis_status = "reading"
      /\ lines' = Append(lines, dis_ip) /\ dis_ip' = line_end(dis_ip)
  BY LenProperties DEF Disassembled, PrintLine, at_case, reading, good_line
<1>2. dis_ip' \in Nat \ {0} BY <1>1, LineLength DEF good_line, printable
<1>3. /\ lines' \in Seq(Nat \ {0}) /\ Len(lines) \in Nat /\ Len(lines') = Len(lines) + 1
      /\ DOMAIN lines = 1 .. Len(lines) /\ DOMAIN lines' = 1 .. Len(lines')
      /\ \A i \in 1 .. Len(lines) : lines'[i] = lines[i]
      /\ lines'[Len(lines) + 1] = dis_ip
  BY <1>1, AppendProperties, LenProperties
<1>4. ASSUME NEW i \in DOMAIN lines'
      PROVE  good_line(lines[i])' /\ line_end(lines[i])' = next_line(i)'
  <2>1. CASE i \in 1 .. Len(lines)
    <3>1. good_line(lines[i]) /\ line_end(lines[i]) = next_line(i)
      BY <1>3, <2>1 DEF Disassembled
    <3>2. lines'[i] = lines[i] BY <1>3, <2>1
    <3>3. next_line(i)' = next_line(i)
      <4>1. CASE i = Len(lines)
        <5>1. Len(lines') = i + 1 /\ i \in Nat BY <1>3, <4>1
        <5>2. i # Len(lines') BY <5>1
        <5>3. lines'[i + 1] = dis_ip BY <1>3, <4>1, Zenon
        <5>4. dis_ip = next_line(i) BY <4>1, Zenon DEF next_line
        <5> QED BY <5>2, <5>3, <5>4 DEF next_line
      <4>2. CASE i # Len(lines)
        <5>1. i + 1 \in 1 .. Len(lines) /\ i # Len(lines') BY <1>3, <2>1, <4>2
        <5>2. lines'[i + 1] = lines[i + 1] BY <1>3, <5>1
        <5> QED BY <4>2, <5>1, <5>2 DEF next_line
      <4> QED BY <4>1, <4>2
    <3> QED BY <1>1, <3>1, <3>2, <3>3, LineKept
  <2>2. CASE i = Len(lines')
    <3>1. lines'[i] = dis_ip BY <1>3, <2>2
    <3>2. next_line(i)' = line_end(dis_ip) BY <1>1, <2>2 DEF next_line
    <3> QED BY <1>1, <3>1, <3>2, LineKept
  <2> QED BY <1>3, <2>1, <2>2
<1>5. IF Len(lines') = 0 THEN dis_ip' = 1 ELSE lines'[1] = 1
  <2>1. CASE Len(lines) = 0 BY <1>3, <2>1 DEF Disassembled
  <2>2. CASE Len(lines) # 0 BY <1>3, <2>2 DEF Disassembled
  <2> QED BY <2>1, <2>2
<1> QED BY <1>1, <1>2, <1>3, <1>4, <1>5 DEF Disassembled

\* The disassembler keeps the invariant.
LEMMA DisassembleInv ==
  ASSUME Disassembled, Disassemble PROVE Disassembled'
<1>1. CASE PrintLine BY <1>1, LinesExtended
<1>2. CASE ~PrintLine
  <2>1. code' = code /\ dis_ip' = dis_ip /\ lines' = lines
    BY <1>2 DEF Disassemble, ReadStop, FAIL, ReadOutside, reading, at_case
  <2>2. \/ dis_status' = "ended" /\ dis_ip < eof /\ stop_case(dis_ip)
        \/ dis_status' = "failed" /\ ~stop_case(dis_ip) /\ no_case(dis_ip)
        \/ dis_status' = "outside" /\ is_outside(dis_ip)
    BY <1>2 DEF Disassemble, ReadStop, FAIL, ReadOutside, reading, at_case
  <2>3. Kept BY <2>1 DEF Kept
  <2> QED BY <2>2, <2>3, KeptDisassembled DEF Disassembled
<1> QED BY <1>1, <1>2

\* Where an instruction begins that byterun has printed, or its STOP.
LEMMA Places ==
  ASSUME Disassembled, dis_status = "ended", NEW p \in places_of_code
  PROVE  /\ p \in Nat \ {0} /\ p < eof /\ in_area(p)
         /\ \/ p = dis_ip /\ stop_case(p)
            \/ /\ p \in line_starts /\ ~stop_case(p) /\ printable(p)
               /\ line_end(p) \in places_of_code /\ line_end(p) < eof
<1>1. Len(code) \in Nat /\ Len(lines) \in Nat /\ DOMAIN lines = 1 .. Len(lines)
      /\ \A i \in 1 .. Len(lines) : lines[i] \in Nat \ {0}
  BY LenProperties, ElementOfSeq DEF Disassembled
<1>2. dis_ip \in Nat \ {0} /\ dis_ip < eof /\ stop_case(dis_ip) BY DEF Disassembled
<1>3. ASSUME NEW i \in DOMAIN lines, p = lines[i]
      PROVE  /\ p \in Nat \ {0} /\ p < eof /\ ~stop_case(p) /\ printable(p)
             /\ line_end(p) \in places_of_code /\ line_end(p) < eof
  <2>1. good_line(lines[i]) /\ line_end(lines[i]) = next_line(i) BY DEF Disassembled
  <2>2. p \in Nat \ {0} /\ p < eof /\ ~stop_case(p) /\ printable(p)
    BY <1>1, <1>3, <2>1 DEF good_line
  <2>3. CASE i = Len(lines)
    BY <1>2, <1>3, <2>1, <2>2, <2>3 DEF next_line, places_of_code
  <2>4. CASE i # Len(lines)
    <3>1. i + 1 \in DOMAIN lines BY <1>1, <2>4
    <3>2. lines[i + 1] < eof /\ lines[i + 1] \in line_starts
      BY <3>1 DEF Disassembled, good_line, line_starts
    <3> QED BY <1>3, <2>1, <2>2, <2>4, <3>2 DEF next_line, places_of_code
  <2> QED BY <2>3, <2>4, <2>2
<1>4. CASE p = dis_ip BY <1>1, <1>2, <1>4 DEF in_area
<1>5. CASE p \in line_starts
  <2>1. PICK i \in DOMAIN lines : p = lines[i] BY <1>5 DEF line_starts
  <2> QED BY <1>1, <1>3, <1>5, <2>1 DEF in_area
<1> QED BY <1>4, <1>5 DEF places_of_code

\* The instructions of a file stay where they are.
LEMMA KeptPlaces ==
  ASSUME Kept PROVE places_of_code' = places_of_code /\ (linked' <=> linked) /\ eof' = eof
<1>1. code' = code /\ dis_ip' = dis_ip /\ lines' = lines BY DEF Kept
<1>2. line_starts' = line_starts BY <1>1 DEF line_starts
<1>3. places_of_code' = places_of_code BY <1>1, <1>2 DEF places_of_code
<1>4. ASSUME NEW p PROVE (has_label(p)' <=> has_label(p)) /\ label(p)' = label(p)
  BY <1>1, LineKept DEF has_label
<1>5. linked' <=> linked BY <1>2, <1>3, <1>4 DEF linked
<1>6. eof' = eof BY <1>1, LineKept
<1> QED BY <1>3, <1>5, <1>6

\* A handler that goes on is on a printed line, and its next place is one too.
LEMMA GoesOn ==
  ASSUME Disassembled, dis_status = "ended", linked, NEW p \in places_of_code,
         opcode(p) \in goes_on
  PROVE  /\ behind(p) \in places_of_code
         /\ has_label(p) => label(p) \in places_of_code /\ in_area(label(p))
<1>1. ~stop_case(p) BY BehindStop
<1>2. p \in Nat \ {0} /\ p \in line_starts /\ printable(p) /\ line_end(p) \in places_of_code
  BY <1>1, Places
<1>3. behind(p) = line_end(p) BY <1>2, BehindLine DEF printable
<1>4. has_label(p) => label(p) \in places_of_code BY <1>2 DEF linked
<1> QED BY <1>2, <1>3, <1>4, Places

\* Every step of the interpreter stays on the instructions.
LEMMA InterpretStays ==
  ASSUME Disassembled, dis_status = "ended", linked, OnCode, Interpret
  PROVE  /\ interp_ip' \in places_of_code /\ returns' \in Seq(places_of_code)
         /\ labels' \subseteq places_of_code
         /\ interp_status' = "out_of_area" => interp_ip' = dis_ip /\ dis_ip = eof - 1
<1> DEFINE p == interp_ip
           Stays == /\ interp_ip' \in places_of_code /\ returns' \in Seq(places_of_code)
                    /\ labels' \subseteq places_of_code
<1>1. p \in places_of_code /\ returns \in Seq(places_of_code) /\ labels \subseteq places_of_code
  BY DEF OnCode
<1>2. interp_status = "run" BY DEF Interpret, Straight, Jump, NoJump, MakeClosure, Call,
    CallClosure, Return, Stopped, Fails, ReadsPastEnd, handles, running
<1>3. ASSUME NEW l \in places_of_code, update_ip(l)
      PROVE  interp_ip' = l /\ labels' = labels /\ interp_status' = interp_status
  <2>1. in_area(l) BY <1>3, Places
  <2> QED BY <1>3, <2>1 DEF update_ip
<1>4. CASE Straight
  <2>1. opcode(p) \in goes_on BY <1>4 DEF Straight, handles, goes_on
  <2> QED BY <1>1, <1>2, <1>4, <2>1, GoesOn DEF Straight
<1>5. CASE Jump
  <2>1. opcode(p) \in goes_on /\ has_label(p)
    BY <1>5 DEF Jump, handles, goes_on, has_label
  <2> QED BY <1>1, <1>2, <1>3, <1>5, <2>1, GoesOn DEF Jump
<1>6. CASE NoJump
  <2>1. opcode(p) \in goes_on BY <1>6 DEF NoJump, handles, goes_on
  <2> QED BY <1>1, <1>2, <1>6, <2>1, GoesOn DEF NoJump
<1>7. CASE MakeClosure
  <2>1. opcode(p) \in goes_on /\ has_label(p)
    BY <1>7 DEF MakeClosure, handles, goes_on, has_label
  <2> QED BY <1>1, <1>2, <1>7, <2>1, GoesOn DEF MakeClosure
<1>8. CASE Call
  <2>1. opcode(p) \in goes_on /\ has_label(p)
    BY <1>8 DEF Call, handles, goes_on, has_label
  <2>2. returns' \in Seq(places_of_code)
    BY <1>1, <1>8, <2>1, GoesOn, AppendProperties DEF Call, push_call
  <2> QED BY <1>1, <1>2, <1>3, <1>8, <2>1, <2>2, GoesOn DEF Call
<1>9. CASE CallClosure
  <2>1. opcode(p) \in goes_on BY <1>9 DEF CallClosure, handles, goes_on
  <2>2. returns' \in Seq(places_of_code)
    BY <1>1, <1>9, <2>1, GoesOn, AppendProperties DEF CallClosure, push_call
  <2>3. PICK l \in labels : update_ip(l) BY <1>9 DEF CallClosure
  <2> QED BY <1>1, <1>2, <1>3, <2>2, <2>3
<1>10. CASE Return
  <2>1. Len(returns) \in Nat \ {0} BY <1>1, <1>10, LenProperties, EmptySeq DEF Return
  <2>2. returns[Len(returns)] \in places_of_code BY <1>1, <2>1, ElementOfSeq
  <2>3. SubSeq(returns, 1, Len(returns) - 1) \in Seq(places_of_code)
    BY <1>1, <2>1, SubSeqProperties
  <2> QED BY <1>1, <1>2, <1>10, <2>2, <2>3 DEF Return
<1>11. CASE Stopped \/ Fails BY <1>1, <1>11 DEF Stopped, Fails, stops
<1>12. CASE ReadsPastEnd
  <2>1. Stays BY <1>1, <1>12 DEF ReadsPastEnd, stops
  <2>2. Len(code) \in Nat /\ p \in Nat \ {0} /\ p < eof /\ ~can_fetch(p)
    BY <1>1, <1>12, Places, LenProperties DEF ReadsPastEnd, Disassembled
  <2>3. p = dis_ip /\ stop_case(p) BY <1>1, <2>2, Places, PrintedIsFetched
  <2>4. ~(p + 1 < eof)
    <3>1. opcode(p) # closure /\ behind(p) = p + 1 BY <2>3, BehindStop DEF goes_on
    <3> QED BY <2>2, <3>1 DEF can_fetch
  <2>5. interp_ip' = dis_ip /\ dis_ip = eof - 1
    BY <1>12, <2>2, <2>3, <2>4 DEF ReadsPastEnd, stops, eof
  <2> QED BY <2>1, <2>5
<1> QED BY <1>4, <1>5, <1>6, <1>7, <1>8, <1>9, <1>10, <1>11, <1>12 DEF Interpret

\* The programs keep the invariant, one after the other.
LEMMA FileNextInv == ASSUME FileInv, [FileNext]_fileVars PROVE FileInv'
<1>1. Disassembled /\ Executed BY DEF FileInv
<1>2. CASE Byterun
  <2>1. Disassembled' BY <1>1, <1>2, DisassembleInv DEF Byterun
  <2>2. tool = "byterun" /\ tool' = tool /\ interp_status = "off" /\ UNCHANGED interpVars
    BY <1>1, <1>2 DEF Byterun, Executed
  <2>3. Executed' BY <1>1, <2>2 DEF Executed, interpVars, RunsWhatIsPrinted
  <2> QED BY <2>1, <2>3 DEF FileInv
<1>3. CASE Run
  <2>1. Kept /\ dis_status' = dis_status /\ tool' = tool /\ tool = "iterinter" /\ Interpret
    <3>1. code' = code
      BY <1>3 DEF Run, Interpret, Straight, Jump, NoJump, MakeClosure, Call, CallClosure,
        Return, Stopped, Fails, ReadsPastEnd, handles, running
    <3> QED BY <1>3, <3>1 DEF Run, disassemblerVars, Kept
  <2>2. interp_status = "run" /\ interp_status' # "off"
    BY <2>1 DEF Interpret, Straight, Jump, NoJump, MakeClosure, Call, CallClosure, Return,
      Stopped, Fails, ReadsPastEnd, handles, running, update_ip, stops
  <2>3. Disassembled' BY <1>1, <2>1, KeptDisassembled DEF Disassembled
  <2>4. dis_status = "ended" BY <1>1, <2>1 DEF Executed
  <2>5. linked => OnCode BY <1>1, <2>2 DEF Executed
  <2>6. linked => /\ OnCode'
                  /\ interp_status' = "out_of_area" => interp_ip' = dis_ip /\ dis_ip = eof - 1
    BY <1>1, <2>1, <2>4, <2>5, KeptPlaces, InterpretStays DEF OnCode
  <2>7. (linked' <=> linked) /\ eof' = eof /\ dis_ip' = dis_ip
    BY <2>1, KeptPlaces DEF Kept
  <2>8. Executed' BY <2>1, <2>2, <2>4, <2>6, <2>7 DEF Executed, RunsWhatIsPrinted
  <2> QED BY <2>3, <2>8 DEF FileInv
<1>4. CASE Start \/ Count \/ Over \/ UNCHANGED fileVars
  <2>1. Kept /\ dis_status' = dis_status
    <3>1. CASE Count
      <4>1. code' = code
        BY <3>1 DEF Count, Next, ReadInstruction, Failure, PrintFrequency, Ended, vars
      <4> QED BY <3>1, <4>1 DEF Count, disassemblerVars, Kept
    <3>2. CASE Start BY <3>2 DEF Start, disassemblerVars, Kept
    <3>3. CASE Over \/ UNCHANGED fileVars BY <3>3 DEF Over, fileVars, disassemblerVars, Kept
    <3> QED BY <1>4, <3>1, <3>2, <3>3
  <2>2. Disassembled' BY <1>1, <2>1, KeptDisassembled DEF Disassembled
  <2>3. (linked' <=> linked) /\ eof' = eof /\ dis_ip' = dis_ip
        /\ places_of_code' = places_of_code
    BY <2>1, KeptPlaces DEF Kept
  <2>4. CASE Start
    <3>1. /\ dis_status = "ended" /\ tool' = "iterinter" /\ interp_status = "off"
          /\ interp_status' = "run" /\ interp_ip' = interp_ip /\ returns' = returns
          /\ labels' = labels /\ interp_ip = 1 /\ returns = << >> /\ labels = {}
      BY <1>1, <2>4 DEF Start, Executed
    <3>2. 1 \in places_of_code
      <4>1. CASE Len(lines) = 0 BY <1>1, <4>1 DEF Disassembled, places_of_code
      <4>2. CASE Len(lines) # 0
        <5>1. 1 \in DOMAIN lines /\ lines[1] = 1
          BY <1>1, <4>2, LenProperties DEF Disassembled
        <5> QED BY <5>1 DEF line_starts, places_of_code
      <4> QED BY <4>1, <4>2
    <3>3. OnCode' BY <2>3, <3>1, <3>2, EmptySeq DEF OnCode
    <3> QED BY <2>1, <2>2, <3>1, <3>3 DEF Executed, RunsWhatIsPrinted, FileInv
  <2>5. CASE ~Start
    <3>1. UNCHANGED <<interpVars, tool>> BY <1>4, <2>5 DEF Count, Over, fileVars
    <3>2. Executed'
      BY <1>1, <2>1, <2>3, <3>1 DEF Executed, interpVars, OnCode, RunsWhatIsPrinted
    <3> QED BY <2>2, <3>2 DEF FileInv
  <2> QED BY <2>4, <2>5
<1> QED BY <1>2, <1>3, <1>4 DEF FileNext

-------------------------------------------------------------------------------
(* Numbers in the code *)

\* The first values of the recursive function power256.
powers(f, n) ==
  f \in [0 .. n -> Nat] /\ \A i \in 0 .. n : f[i] = IF i = 0 THEN 1 ELSE 256 * f[i - 1]

\* There are such values up to any number.
LEMMA PowersExist == \A n \in Nat : \E f : powers(f, n)
<1> DEFINE D == {n \in Nat : ~ \E f : powers(f, n)}
<1>1. SUFFICES ASSUME D # {} PROVE FALSE OBVIOUS
<1>2. PICK n \in D : \A m \in D : n <= m
  <2>1. D \in SUBSET Nat OBVIOUS
  <2> QED BY <1>1, <2>1, SmallestPlace
<1>3. n \in Nat /\ ~ \E f : powers(f, n) OBVIOUS
<1>4. CASE n = 0
  <2> DEFINE f == [i \in 0 .. 0 |-> 1]
  <2>1. powers(f, 0) BY DEF powers
  <2> QED BY <1>3, <1>4, <2>1
<1>5. CASE n # 0
  <2>1. n - 1 \in Nat /\ ~ (n <= n - 1) BY <1>3, <1>5
  <2>2. PICK f : powers(f, n - 1) BY <1>2, <2>1
  <2> DEFINE g == [i \in 0 .. n |-> IF i = n THEN 256 * f[n - 1] ELSE f[i]]
  <2>3. /\ f \in [0 .. n - 1 -> Nat]
        /\ \A i \in 0 .. n - 1 : f[i] = IF i = 0 THEN 1 ELSE 256 * f[i - 1]
    BY <2>2 DEF powers
  <2>4. \A i \in 0 .. n : i # n => i \in 0 .. n - 1 BY <1>3
  <2>5. n - 1 \in 0 .. n - 1 /\ n - 1 \in 0 .. n /\ n - 1 # n BY <1>3, <2>1
  <2>6. f[n - 1] \in Nat BY <2>3, <2>5
  <2>7. \A i \in 0 .. n : g[i] \in Nat BY <2>3, <2>4, <2>6
  <2>8. ASSUME NEW i \in 0 .. n PROVE g[i] = IF i = 0 THEN 1 ELSE 256 * g[i - 1]
    <3>1. CASE i = n
      <4>1. g[n - 1] = f[n - 1] BY <2>5
      <4> QED BY <1>5, <3>1, <4>1
    <3>2. CASE i # n
      <4>1. i \in 0 .. n - 1 /\ g[i] = f[i] BY <2>4, <3>2
      <4>2. i # 0 => i - 1 \in 0 .. n /\ i - 1 # n BY <1>3, <3>2
      <4>3. i # 0 => g[i - 1] = f[i - 1] BY <4>2
      <4> QED BY <2>3, <4>1, <4>3
    <3> QED BY <3>1, <3>2
  <2>9. g \in [0 .. n -> Nat] BY <2>7
  <2>10. powers(g, n) BY <2>8, <2>9 DEF powers
  <2> QED BY <1>3, <2>10
<1> QED BY <1>4, <1>5

\* They are the same wherever they stop.
LEMMA PowersUnique ==
  ASSUME NEW m \in Nat, NEW n \in Nat, NEW f, powers(f, m), NEW g, powers(g, n),
         NEW k \in Nat, k <= m, k <= n
  PROVE  f[k] = g[k]
<1> DEFINE D == {i \in Nat : i <= m /\ i <= n /\ f[i] # g[i]}
<1>1. SUFFICES ASSUME D # {} PROVE FALSE OBVIOUS
<1>2. PICK i \in D : \A j \in D : i <= j
  <2>1. D \in SUBSET Nat OBVIOUS
  <2> QED BY <1>1, <2>1, SmallestPlace
<1>3. i \in Nat /\ i <= m /\ i <= n /\ f[i] # g[i] OBVIOUS
<1>4. i \in 0 .. m /\ i \in 0 .. n BY <1>3
<1>5. /\ f[i] = IF i = 0 THEN 1 ELSE 256 * f[i - 1]
      /\ g[i] = IF i = 0 THEN 1 ELSE 256 * g[i - 1]
  BY <1>4 DEF powers
<1>6. i # 0 => i - 1 \in Nat /\ i - 1 <= m /\ i - 1 <= n /\ ~ (i <= i - 1) BY <1>3
<1>7. i # 0 => f[i - 1] = g[i - 1] BY <1>2, <1>6
<1> QED BY <1>3, <1>5, <1>7

\* power256 is what its recursive definition says: powers of 256.
LEMMA PowersAreNat == \A n \in Nat : power256[n] \in Nat
<1> DEFINE val(n) == (CHOOSE f : powers(f, n))[n]
           F == [n \in Nat |-> val(n)]
<1>1. ASSUME NEW n \in Nat PROVE powers(CHOOSE f : powers(f, n), n)
  BY PowersExist
<1>2. ASSUME NEW n \in Nat
      PROVE  F[n] \in Nat /\ F[n] = IF n = 0 THEN 1 ELSE 256 * F[n - 1]
  <2>1. PICK f : f = CHOOSE g : powers(g, n) OBVIOUS
  <2>2. powers(f, n) /\ F[n] = f[n] BY <1>1, <2>1
  <2>3. n \in 0 .. n OBVIOUS
  <2>4. f[n] \in Nat /\ f[n] = IF n = 0 THEN 1 ELSE 256 * f[n - 1] BY <2>2, <2>3 DEF powers
  <2>5. ASSUME n # 0 PROVE F[n - 1] = f[n - 1]
    <3>1. n - 1 \in Nat /\ n - 1 <= n /\ n - 1 <= n - 1 BY <2>5
    <3>2. PICK h : h = CHOOSE g : powers(g, n - 1) OBVIOUS
    <3>3. powers(h, n - 1) /\ F[n - 1] = h[n - 1] BY <1>1, <3>1, <3>2
    <3>4. h[n - 1] = f[n - 1] BY <2>2, <3>1, <3>3, PowersUnique
    <3> QED BY <3>3, <3>4
  <2> QED BY <2>2, <2>4, <2>5
<1> HIDE DEF F
<1>3. F = [i \in Nat |-> IF i = 0 THEN 1 ELSE 256 * F[i - 1]]
  <2>1. F = [i \in Nat |-> F[i]] BY DEF F
  <2> QED BY <1>2, <2>1
<1>4. PICK p : p = power256 OBVIOUS
<1>5. p = CHOOSE f : f = [i \in Nat |-> IF i = 0 THEN 1 ELSE 256 * f[i - 1]]
  BY <1>4 DEF power256
<1>6. p = [i \in Nat |-> IF i = 0 THEN 1 ELSE 256 * p[i - 1]] BY <1>3, <1>5
<1> DEFINE D == {n \in Nat : p[n] \notin Nat}
<1>7. D = {}
  <2>1. SUFFICES ASSUME D # {} PROVE FALSE OBVIOUS
  <2>2. PICK n \in D : \A m \in D : n <= m
    <3>1. D \in SUBSET Nat OBVIOUS
    <3> QED BY <2>1, <3>1, SmallestPlace
  <2>3. n \in Nat /\ p[n] \notin Nat OBVIOUS
  <2>4. p[n] = IF n = 0 THEN 1 ELSE 256 * p[n - 1] BY <1>6, <2>3
  <2>5. n # 0 => n - 1 \in Nat /\ ~ (n <= n - 1) BY <2>3
  <2>6. n # 0 => p[n - 1] \in Nat BY <2>2, <2>5
  <2> QED BY <2>3, <2>4, <2>6
<1> QED BY <1>4, <1>7

\* The first bytes of an integer as a number.
LEMMA UnsignedIsNat ==
  ASSUME NEW bytes, \A i \in 1 .. SIZEOF_INT : bytes[i] \in Nat
  PROVE  unsigned(bytes) \in Nat
<1> DEFINE part(f, n) ==
             /\ f \in [0 .. n -> Nat]
             /\ \A i \in 0 .. n :
                  f[i] = IF i = 0 THEN 0 ELSE f[i - 1] + bytes[i] * power256[i - 1]
           D == {n \in Nat : n <= SIZEOF_INT /\ ~ \E f : part(f, n)}
<1>1. SIZEOF_INT \in Nat BY CodeAssumption
<1>2. D = {}
  <2>1. SUFFICES ASSUME D # {} PROVE FALSE OBVIOUS
  <2>2. PICK n \in D : \A m \in D : n <= m
    <3>1. D \in SUBSET Nat OBVIOUS
    <3> QED BY <2>1, <3>1, SmallestPlace
  <2>3. n \in Nat /\ n <= SIZEOF_INT /\ ~ \E f : part(f, n) OBVIOUS
  <2>4. CASE n = 0
    <3> DEFINE f == [i \in 0 .. 0 |-> 0]
    <3>1. part(f, 0) OBVIOUS
    <3> QED BY <2>3, <2>4, <3>1
  <2>5. CASE n # 0
    <3>1. n - 1 \in Nat /\ ~ (n <= n - 1) /\ n - 1 <= SIZEOF_INT BY <1>1, <2>3, <2>5
    <3>2. PICK f : part(f, n - 1) BY <2>2, <3>1
    <3>3. /\ f \in [0 .. n - 1 -> Nat]
          /\ \A i \in 0 .. n - 1 :
               f[i] = IF i = 0 THEN 0 ELSE f[i - 1] + bytes[i] * power256[i - 1]
      BY <3>2
    <3>4. PICK v \in Nat : v = f[n - 1] + bytes[n] * power256[n - 1]
      <4>1. n - 1 \in 0 .. n - 1 /\ n \in 1 .. SIZEOF_INT BY <1>1, <2>3, <2>5, <3>1
      <4>2. f[n - 1] \in Nat /\ bytes[n] \in Nat /\ power256[n - 1] \in Nat
        BY <3>1, <3>3, <4>1, PowersAreNat
      <4>3. \A a, b, c \in Nat : a + b * c \in Nat OBVIOUS
      <4>4. f[n - 1] + bytes[n] * power256[n - 1] \in Nat BY <4>2, <4>3
      <4> QED BY <4>4
    <3> DEFINE g == [i \in 0 .. n |-> IF i = n THEN v ELSE f[i]]
    <3>5. \A i \in 0 .. n : i # n => i \in 0 .. n - 1 BY <2>3
    <3>6. n - 1 \in 0 .. n /\ n - 1 # n BY <2>3, <3>1
    <3>7. \A i \in 0 .. n : g[i] \in Nat BY <3>3, <3>5
    <3>8. ASSUME NEW i \in 0 .. n
          PROVE  g[i] = IF i = 0 THEN 0 ELSE g[i - 1] + bytes[i] * power256[i - 1]
      <4>1. CASE i = n
        <5>1. g[n - 1] = f[n - 1] /\ g[n] = v BY <3>6
        <5> QED BY <2>5, <3>4, <4>1, <5>1
      <4>2. CASE i # n
        <5>1. i \in 0 .. n - 1 /\ g[i] = f[i] BY <3>5, <4>2
        <5>2. i # 0 => i - 1 \in 0 .. n /\ i - 1 # n BY <2>3, <4>2
        <5>3. i # 0 => g[i - 1] = f[i - 1] BY <5>2
        <5> QED BY <3>3, <5>1, <5>3
      <4> QED BY <4>1, <4>2
    <3>9. g \in [0 .. n -> Nat] BY <3>7
    <3>10. part(g, n) BY <3>8, <3>9
    <3> QED BY <2>3, <3>10
  <2> QED BY <2>4, <2>5
<1>3. PICK f : part(f, SIZEOF_INT)
  <2> HIDE DEF part
  <2>1. SIZEOF_INT \notin D BY <1>2
  <2> QED BY <1>1, <2>1
<1>4. f = [i \in 0 .. SIZEOF_INT |->
             IF i = 0 THEN 0 ELSE f[i - 1] + bytes[i] * power256[i - 1]]
  BY <1>3
<1>5. PICK u : u = CHOOSE g : g = [i \in 0 .. SIZEOF_INT |->
                     IF i = 0 THEN 0 ELSE g[i - 1] + bytes[i] * power256[i - 1]]
  OBVIOUS
<1>6. u = [i \in 0 .. SIZEOF_INT |->
             IF i = 0 THEN 0 ELSE u[i - 1] + bytes[i] * power256[i - 1]]
  BY <1>4, <1>5
<1>7. unsigned(bytes) = u[SIZEOF_INT] BY <1>5 DEF unsigned
<1> DEFINE E == {n \in Nat : n <= SIZEOF_INT /\ u[n] \notin Nat}
<1>8. E = {}
  <2>1. SUFFICES ASSUME E # {} PROVE FALSE OBVIOUS
  <2>2. PICK n \in E : \A m \in E : n <= m
    <3>1. E \in SUBSET Nat OBVIOUS
    <3> QED BY <2>1, <3>1, SmallestPlace
  <2>3. n \in Nat /\ n <= SIZEOF_INT /\ u[n] \notin Nat OBVIOUS
  <2>4. n \in 0 .. SIZEOF_INT BY <1>1, <2>3
  <2>5. u[n] = IF n = 0 THEN 0 ELSE u[n - 1] + bytes[n] * power256[n - 1] BY <1>6, <2>4
  <2>6. CASE n # 0
    <3>1. n - 1 \in Nat /\ ~ (n <= n - 1) /\ n - 1 <= SIZEOF_INT /\ n \in 1 .. SIZEOF_INT
      BY <1>1, <2>3, <2>6
    <3>2. u[n - 1] \in Nat /\ bytes[n] \in Nat /\ power256[n - 1] \in Nat
      BY <2>2, <3>1, PowersAreNat
    <3>3. \A a, b, c \in Nat : a + b * c \in Nat OBVIOUS
    <3>4. u[n - 1] + bytes[n] * power256[n - 1] \in Nat BY <3>2, <3>3
    <3> QED BY <2>3, <2>5, <2>6, <3>4
  <2> QED BY <2>3, <2>5, <2>6
<1> QED BY <1>1, <1>7, <1>8

\* A label that lies in the code is an integer.
LEMMA LabelIsInt ==
  ASSUME code \in Seq(Byte), NEW p \in Nat \ {0}, p + SIZEOF_INT < eof
  PROVE  label(p) \in Int
<1>1. Len(code) \in Nat /\ \A n \in 1 .. Len(code) : code[n] \in Byte BY LenProperties
<1>2. SIZEOF_INT \in Nat /\ Byte \subseteq Nat BY CodeAssumption
<1>3. \A i \in 1 .. SIZEOF_INT : p + 1 + i - 1 \in 1 .. Len(code) BY <1>1, <1>2 DEF eof
<1>4. \A i \in 1 .. SIZEOF_INT : int_bytes(p + 1)[i] = code[p + 1 + i - 1]
  BY DEF int_bytes
<1>5. \A i \in 1 .. SIZEOF_INT : int_bytes(p + 1)[i] \in Nat BY <1>1, <1>2, <1>3, <1>4
<1>6. unsigned(int_bytes(p + 1)) \in Nat BY <1>5, UnsignedIsNat
<1>7. power256[SIZEOF_INT] \in Nat BY <1>2, PowersAreNat
<1> QED BY <1>6, <1>7 DEF label, signed

-------------------------------------------------------------------------------
(* The types *)

\* Every handler reads its opcode at least.
LEMMA BehindPositive ==
  ASSUME NEW p \in Nat \ {0} PROVE behind(p) \in Nat \ {0}
<1>1. SIZEOF_INT \in Nat \ {0} BY CodeAssumption
<1>2. capture(p, n_captured(p) + 1) \in Nat \ {0}
  <2>1. PICK n \in Nat : n = n_captured(p) BY CapturedNat
  <2>2. n + 1 \in Nat OBVIOUS
  <2>3. capture(p, n + 1) \in Int BY <2>2, CaptureStep
  <2>4. capture(p, n + 1) - p >= 1 + 2 * SIZEOF_INT BY CaptureStep
  <2>5. capture(p, n + 1) \in Nat \ {0} BY <1>1, <2>3, <2>4
  <2> QED BY <2>1, <2>5
<1>3. /\ p + 1 \in Nat \ {0} /\ p + 1 + SIZEOF_INT \in Nat \ {0}
      /\ p + 1 + 2 * SIZEOF_INT \in Nat \ {0} /\ p + 2 + SIZEOF_INT \in Nat \ {0}
  BY <1>1
<1> QED BY <1>2, <1>3 DEF behind

\* A jump, a call or a closure has read its label.
LEMMA LabelIsRead ==
  ASSUME code \in Seq(Byte), NEW p \in Nat \ {0}, can_fetch(p), has_label(p)
  PROVE  label(p) \in Int
<1>1. SIZEOF_INT \in Nat \ {0} BY CodeAssumption
<1>2. Len(code) \in Nat BY LenProperties
<1>3. CASE opcode(p) \in {JMP} \cup CJMP
  <2>1. /\ opcode(p) \notin straight_2 \cup {CALL} /\ opcode(p) # FAILS /\ opcode(p) # closure
    BY <1>3 DEF straight_2, CALL, FAILS, closure, JMP, CJMP
  <2>2. behind(p) = p + 1 + SIZEOF_INT BY <1>3, <2>1 DEF behind
  <2>3. p + SIZEOF_INT < eof BY <1>1, <1>2, <2>2 DEF can_fetch, eof
  <2> QED BY <2>3, LabelIsInt
<1>4. CASE opcode(p) = CALL
  <2>1. /\ opcode(p) \notin straight_1 \cup get_addr_handlers \cup CJMP \cup {JMP, CALLC}
        /\ opcode(p) # FAILS /\ opcode(p) # closure
    BY <1>4 DEF straight_1, get_addr_handlers, Nibble, CALL, FAILS, closure, JMP, CJMP, CALLC
  <2>2. behind(p) = p + 1 + 2 * SIZEOF_INT BY <1>4, <2>1 DEF behind
  <2>3. p + SIZEOF_INT < eof BY <1>1, <1>2, <2>2 DEF can_fetch, eof
  <2> QED BY <2>3, LabelIsInt
<1>5. CASE opcode(p) = closure
  <2>1. p + SIZEOF_INT < eof BY <1>1, <1>2, <1>5 DEF can_fetch, eof
  <2> QED BY <2>1, LabelIsInt
<1> QED BY <1>3, <1>4, <1>5 DEF has_label

\* The places of the bytecode area, what is known of each variable.
Place == 1 .. eof - 1
DisassemblerTypes ==
  /\ lines \in Seq(Place) /\ dis_ip <= eof
  /\ dis_status \in {"reading", "ended", "failed", "outside"}
InterpTypes ==
  /\ interp_status \in {"off", "run", "stopped", "failed", "out_of_area"}
  /\ interp_status # "off" => interp_ip \in Place
  /\ returns \in Seq(Place) /\ Len(returns) <= MaxReturns
  /\ labels \subseteq Int

\* The disassembler keeps its types.
LEMMA DisassembleTypes ==
  ASSUME Disassembled, DisassemblerTypes, Disassemble PROVE DisassemblerTypes'
<1>1. code' = code /\ Place' = Place /\ eof' = eof
  <2>1. code' = code
    BY DEF Disassemble, PrintLine, ReadStop, FAIL, ReadOutside, reading, at_case
  <2> QED BY <2>1 DEF Place, eof
<1>2. CASE PrintLine
  <2>1. /\ dis_ip \in Nat \ {0} /\ dis_ip < eof /\ printable(dis_ip)
        /\ lines' = Append(lines, dis_ip) /\ dis_ip' = line_end(dis_ip)
        /\ dis_status' = dis_status
    BY <1>2 DEF Disassembled, PrintLine, at_case
  <2>2. eof \in Nat
    <3>1. Len(code) \in Nat BY LenProperties DEF Disassembled
    <3> QED BY <3>1 DEF eof
  <2>3. dis_ip \in Place BY <2>1, <2>2 DEF Place
  <2>4. lines' \in Seq(Place) BY <2>1, <2>3, AppendProperties DEF DisassemblerTypes
  <2>5. dis_ip' <= eof BY <2>1 DEF printable, bytes_inside
  <2> QED BY <1>1, <2>1, <2>4, <2>5 DEF DisassemblerTypes
<1>3. CASE ~PrintLine
  BY <1>1, <1>3 DEF Disassemble, ReadStop, FAIL, ReadOutside, DisassemblerTypes
<1> QED BY <1>2, <1>3

\* The interpreter keeps its types, whatever the code is: every place it goes
\* to has been compared with the bounds of the area, by update_ip, by what
\* next_byte and next_int have read in front of it, or when it was pushed.
LEMMA InterpretTypes ==
  ASSUME code \in Seq(Byte), InterpTypes, Interpret PROVE InterpTypes'
<1>1. code' = code /\ Place' = Place /\ eof \in Nat
  <2>1. code' = code
    BY DEF Interpret, Straight, Jump, NoJump, MakeClosure, Call, CallClosure, Return, Stopped,
      Fails, ReadsPastEnd, handles, running
  <2>2. Len(code) \in Nat BY LenProperties
  <2> QED BY <2>1, <2>2 DEF Place, eof
<1>2. /\ interp_status = "run" /\ interp_ip \in Place /\ returns \in Seq(Place)
      /\ Len(returns) <= MaxReturns /\ labels \subseteq Int
  BY DEF InterpTypes, Interpret, Straight, Jump, NoJump, MakeClosure, Call, CallClosure,
    Return, Stopped, Fails, ReadsPastEnd, handles, running
<1>3. interp_ip \in Nat \ {0} /\ Len(returns) \in Nat
  <2>1. interp_ip \in Nat \ {0} BY <1>1, <1>2 DEF Place
  <2> QED BY <1>2, <2>1, LenProperties
<1>4. ASSUME can_fetch(interp_ip) PROVE behind(interp_ip) \in Place
  <2>1. behind(interp_ip) < eof BY <1>4 DEF can_fetch
  <2>2. behind(interp_ip) \in Nat \ {0} BY <1>3, BehindPositive
  <2> QED BY <1>1, <2>1, <2>2 DEF Place
<1>5. ASSUME NEW l, l \in Int, update_ip(l)
      PROVE  interp_ip' \in Place /\ interp_status' \in {"run", "out_of_area"}
  <2>1. CASE in_area(l)
    <3>1. l \in Place BY <1>1, <1>5, <2>1 DEF in_area, Place
    <3> QED BY <1>2, <1>5, <2>1, <3>1 DEF update_ip
  <2>2. CASE ~in_area(l)
    BY <1>2, <1>5, <2>2 DEF update_ip
  <2> QED BY <2>1, <2>2
<1>6. ASSUME interp_ip' \in Place, interp_status' \in {"run", "stopped", "failed", "out_of_area"},
             returns' \in Seq(Place), Len(returns') <= MaxReturns, labels' \subseteq Int
      PROVE  InterpTypes'
  BY <1>1, <1>6 DEF InterpTypes
<1>7. CASE Straight \/ NoJump
  BY <1>2, <1>4, <1>6, <1>7 DEF Straight, NoJump, handles
<1>8. CASE Jump
  <2>1. /\ can_fetch(interp_ip) /\ has_label(interp_ip) /\ update_ip(label(interp_ip))
        /\ returns' = returns
    BY <1>8 DEF Jump, handles, has_label
  <2>2. label(interp_ip) \in Int BY <1>3, <2>1, LabelIsRead
  <2>3. labels' = labels BY <2>1 DEF update_ip
  <2> QED BY <1>2, <1>5, <1>6, <2>1, <2>2, <2>3
<1>9. CASE MakeClosure
  <2>1. can_fetch(interp_ip) /\ has_label(interp_ip) BY <1>9 DEF MakeClosure, handles, has_label
  <2>2. label(interp_ip) \in Int BY <1>3, <2>1, LabelIsRead
  <2> QED BY <1>2, <1>4, <1>6, <1>9, <2>1, <2>2 DEF MakeClosure
<1>10. ASSUME can_fetch(interp_ip), Len(returns) < MaxReturns, push_call(interp_ip)
       PROVE  returns' \in Seq(Place) /\ Len(returns') <= MaxReturns
  <2>1. returns' = Append(returns, behind(interp_ip)) BY <1>10 DEF push_call
  <2>2. returns' \in Seq(Place) /\ Len(returns') = Len(returns) + 1
    BY <1>2, <1>4, <1>10, <2>1, AppendProperties
  <2> QED BY <1>3, <1>10, <2>2, MaxReturnsAssumption
<1>11. CASE Call
  <2>1. /\ can_fetch(interp_ip) /\ has_label(interp_ip) /\ update_ip(label(interp_ip))
        /\ Len(returns) < MaxReturns /\ push_call(interp_ip)
    BY <1>11 DEF Call, handles, has_label
  <2>2. label(interp_ip) \in Int BY <1>3, <2>1, LabelIsRead
  <2>3. labels' = labels BY <2>1 DEF update_ip
  <2> QED BY <1>2, <1>5, <1>6, <1>10, <2>1, <2>2, <2>3
<1>12. CASE CallClosure
  <2>1. /\ can_fetch(interp_ip) /\ Len(returns) < MaxReturns /\ push_call(interp_ip)
        /\ \E l \in labels : update_ip(l)
    BY <1>12 DEF CallClosure, handles
  <2>2. PICK l \in labels : update_ip(l) BY <2>1
  <2>3. l \in Int BY <1>2
  <2>4. labels' = labels BY <2>2 DEF update_ip
  <2> QED BY <1>2, <1>5, <1>6, <1>10, <2>1, <2>2, <2>3, <2>4
<1>13. CASE Return
  <2>1. Len(returns) \in Nat \ {0} BY <1>2, <1>13, LenProperties, EmptySeq DEF Return
  <2>2. returns[Len(returns)] \in Place BY <1>2, <2>1, ElementOfSeq
  <2>3. \A i \in 1 .. Len(returns) - 1 : returns[i] \in Place
    <3>1. \A i \in 1 .. Len(returns) - 1 : i \in 1 .. Len(returns) BY <2>1
    <3> QED BY <1>2, <3>1, ElementOfSeq
  <2>4. /\ SubSeq(returns, 1, Len(returns) - 1) \in Seq(Place)
        /\ Len(SubSeq(returns, 1, Len(returns) - 1))
             = IF 1 <= Len(returns) - 1 THEN Len(returns) - 1 - 1 + 1 ELSE 0
    BY <2>1, <2>3, SubSeqProperties
  <2>5. Len(SubSeq(returns, 1, Len(returns) - 1)) <= MaxReturns
    BY <1>2, <2>1, <2>4, MaxReturnsAssumption
  <2> QED BY <1>2, <1>6, <1>13, <2>2, <2>4, <2>5 DEF Return
<1>14. CASE Stopped \/ Fails \/ ReadsPastEnd
  BY <1>2, <1>6, <1>14 DEF Stopped, Fails, ReadsPastEnd, stops
<1> QED BY <1>7, <1>8, <1>9, <1>11, <1>12, <1>13, <1>14 DEF Interpret

\* The programs keep the types.
TypesInv == DisassemblerTypes /\ InterpTypes
LEMMA FileNextTypes ==
  ASSUME FileInv, TypesInv, [FileNext]_fileVars PROVE TypesInv'
<1>1. Disassembled /\ Executed /\ DisassemblerTypes /\ InterpTypes /\ code \in Seq(Byte)
  BY DEF FileInv, TypesInv, Disassembled
<1>2. ASSUME code' = code, UNCHANGED disassemblerVars PROVE DisassemblerTypes'
  <2>1. Place' = Place /\ eof' = eof BY <1>2 DEF Place, eof
  <2> QED BY <1>1, <1>2, <2>1 DEF DisassemblerTypes, disassemblerVars
<1>3. ASSUME code' = code, UNCHANGED interpVars PROVE InterpTypes'
  <2>1. Place' = Place BY <1>3 DEF Place, eof
  <2> QED BY <1>1, <1>3, <2>1 DEF InterpTypes, interpVars
<1>4. CASE Byterun
  <2>1. DisassemblerTypes' BY <1>1, <1>4, DisassembleTypes DEF Byterun
  <2>2. code' = code
    BY <1>4 DEF Byterun, Disassemble, PrintLine, ReadStop, FAIL, ReadOutside, reading, at_case
  <2>3. InterpTypes' BY <1>3, <1>4, <2>2 DEF Byterun
  <2> QED BY <2>1, <2>3 DEF TypesInv
<1>5. CASE Run
  <2>1. InterpTypes' BY <1>1, <1>5, InterpretTypes DEF Run
  <2>2. code' = code
    BY <1>5 DEF Run, Interpret, Straight, Jump, NoJump, MakeClosure, Call, CallClosure,
      Return, Stopped, Fails, ReadsPastEnd, handles, running
  <2>3. DisassemblerTypes' BY <1>2, <1>5, <2>2 DEF Run
  <2> QED BY <2>1, <2>3 DEF TypesInv
<1>6. CASE Start
  <2>1. /\ code' = code /\ UNCHANGED disassemblerVars /\ dis_status = "ended"
        /\ interp_status' = "run" /\ interp_ip' = interp_ip /\ returns' = returns
        /\ labels' = labels /\ interp_ip = 1
    BY <1>1, <1>6 DEF Start, Executed
  <2>2. DisassemblerTypes' BY <1>2, <2>1
  <2>3. 1 \in Place
    <3>1. dis_ip \in Nat \ {0} /\ dis_ip < eof BY <1>1, <2>1 DEF Disassembled
    <3>2. Len(code) \in Nat BY <1>1, LenProperties
    <3> QED BY <3>1, <3>2 DEF Place, eof
  <2>4. Place' = Place BY <2>1 DEF Place, eof
  <2>5. InterpTypes' BY <1>1, <2>1, <2>3, <2>4 DEF InterpTypes
  <2> QED BY <2>2, <2>5 DEF TypesInv
<1>7. CASE Count \/ Over \/ UNCHANGED fileVars
  <2>1. code' = code /\ UNCHANGED disassemblerVars /\ UNCHANGED interpVars
    <3>1. CASE Count
      <4>1. code' = code
        BY <3>1 DEF Count, Next, ReadInstruction, Failure, PrintFrequency, Ended, vars
      <4> QED BY <3>1, <4>1 DEF Count
    <3>2. CASE Over \/ UNCHANGED fileVars BY <3>2 DEF Over, fileVars
    <3> QED BY <1>7, <3>1, <3>2
  <2> QED BY <1>2, <1>3, <2>1 DEF TypesInv
<1> QED BY <1>4, <1>5, <1>6, <1>7 DEF FileNext

-------------------------------------------------------------------------------
(* Theorems *)

\* The frequency counter reads exactly the instructions that the disassembler
\* prints, and what stops the one stops the other (read_instruction of
\* freq_count.cpp and disassemble of byterun.c), in every file.
THEOREM SameInstructionsHolds == FileSpec => []SameInstructions
<1>1. ASSUME FileInv PROVE SameInstructions
  <2>1. Disassembled /\ Len(code) \in Nat /\ Len(lines) \in Nat
        /\ DOMAIN lines = 1 .. Len(lines) /\ dis_ip \in Nat \ {0}
    BY <1>1, LenProperties DEF FileInv, Disassembled
  <2>2. ASSUME NEW i \in DOMAIN lines
        PROVE  /\ insn_end(lines[i]) = next_line(i)
               /\ dis_status = "ended" => can_read(lines[i])
    <3>1. /\ lines[i] \in Nat \ {0} /\ good_line(lines[i])
          /\ line_end(lines[i]) = next_line(i)
      BY <2>1, ElementOfSeq DEF Disassembled
    <3>2. insn_end(lines[i]) = next_line(i) BY <3>1, SameEnd DEF good_line, printable
    <3>3. lines[i] \in places_of_code BY DEF places_of_code, line_starts
    <3>4. dis_status = "ended" => line_end(lines[i]) < eof
      BY <2>1, <3>1, <3>3, Places DEF good_line
    <3>5. dis_status = "ended" => can_read(lines[i])
      BY <2>1, <3>1, <3>4, PrintedIsRead DEF good_line
    <3> QED BY <3>2, <3>5
  <2>3. ASSUME dis_status \in {"failed", "outside"}, dis_ip < eof
        PROVE  ~can_read(dis_ip) \/ ~has_name(dis_ip)
    <3>1. ~stop_case(dis_ip) /\ ~printable(dis_ip)
      BY <2>1, <2>3 DEF Disassembled, is_outside, printable
    <3> QED BY <2>1, <2>3, <3>1, ReadIsPrinted
  <2> QED BY <2>2, <2>3 DEF SameInstructions
<1> QED BY <1>1, FileInitInv, FileNextInv, PTL DEF FileSpec

\* In every linked file the interpreter only executes instructions that the
\* disassembler prints (interpret of iterinter.c).
THEOREM StaysOnInstructionsHolds == FileSpec => []StaysOnInstructions
<1>1. ASSUME FileInv PROVE StaysOnInstructions
  <2>1. SUFFICES ASSUME linked, interp_status = "run"
                 PROVE  /\ interp_ip \in places_of_code
                        /\ \A i \in DOMAIN returns : returns[i] \in places_of_code
                        /\ labels \subseteq places_of_code
    BY DEF StaysOnInstructions
  <2>2. OnCode BY <1>1, <2>1 DEF FileInv, Executed
  <2> QED BY <2>2, LenProperties, ElementOfSeq DEF OnCode
<1> QED BY <1>1, FileInitInv, FileNextInv, PTL DEF FileSpec

\* The assertions of next_byte, next_int and update_ip reject nothing in such a
\* file but a STOP that is its last byte.
THEOREM RunsWhatIsPrintedHolds == FileSpec => []RunsWhatIsPrinted
<1>1. FileInv => RunsWhatIsPrinted BY DEF FileInv, Executed
<1> QED BY <1>1, FileInitInv, FileNextInv, PTL DEF FileSpec

\* Whatever the file holds, the interpreter never goes on outside the bytecode
\* area, although END sets ip without the check of update_ip: what was pushed as
\* a return address had been compared with the end of the area when it was read.
THEOREM ReadersTypeOKHolds == FileSpec => []ReadersTypeOK
<1>1. ASSUME FileInit PROVE TypesInv
  <2>1. code \in Seq(Byte) BY <1>1, InitIInv DEF FileInit, IInv, TypeOK
  <2>2. 1 <= eof
    <3>1. Len(code) \in Nat BY <2>1, LenProperties
    <3> QED BY <3>1 DEF eof
  <2> QED BY <1>1, <2>2, EmptySeq, MaxReturnsAssumption
      DEF FileInit, DisassemblerInit, InterpInit, TypesInv, DisassemblerTypes, InterpTypes
<1>2. FileInv /\ TypesInv => ReadersTypeOK
  BY DEF FileInv, Disassembled, TypesInv, DisassemblerTypes, InterpTypes, ReadersTypeOK, Place
<1> QED BY <1>1, <1>2, FileInitInv, FileNextInv, FileNextTypes, PTL DEF FileSpec

=============================================================================
