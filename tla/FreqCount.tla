------------------------------- MODULE FreqCount -------------------------------
(***************************************************************************)
(* The frequency counter of bytecode instructions,                         *)
(* frequency/freq_count.cpp: it decodes the code of a file from its first  *)
(* byte, counts equal instructions in a std::map whose keys are pointers   *)
(* into the code, and prints the counts in descending order.               *)
(*                                                                         *)
(* The code is a sequence of bytes and ip a position in it.  A step is one *)
(* round of the loop of calculate_codes, with the whole instruction it     *)
(* reads, or the printing.                                                 *)
(***************************************************************************)
EXTENDS Bytecode

VARIABLES
  ip,      \* position of the next byte
  codes,   \* the entries of the map in its order: [begin, end, count]
  printed, \* the lines printed: [bytes, count]
  status   \* "reading", "failed", "done", or "outside" of a table of names

vars == <<code, ip, codes, printed, status>>

-------------------------------------------------------------------------------
(* read_instruction *)

\* The opcodes <<h, l>> by the operands that follow them.
no_operands == ({0, 6, 15} \X Nibble) \cup ({1} \X ({3, 4} \cup 6 .. 11)) \cup ({7} \X (0 .. 3))
one_int     == {<<1, 0>>, <<1, 5>>, <<7, 4>>} \cup ({2, 3, 4} \X (0 .. 3))
                 \cup ({5} \X {0, 1, 5, 8, 10})
two_ints    == {5} \X {2, 3, 6, 9}
a_string         == {<<1, 1>>}
a_string_and_int == {<<1, 2>>, <<5, 7>>}

\* next_int: the assertion ip + sizeof(int) < eof wants a byte behind the
\* integer.  n integers can be read at p if the last of them can.
ints_fit_early(p, n) == p + n * SIZEOF_INT + 1 < eof
ints_fit(p, n) == p + n * SIZEOF_INT < eof

string_fits(p) == ints_fit(p, 1) /\ unsigned(int_bytes(p)) < stringtab_size

closure_fits(p) ==
  /\ ints_fit(p + 1, 2)
  /\ \A i \in 1 .. n_captured(p) :
       ints_fit(capture(p, i) + 1, 1) /\ code[capture(p, i)] \in 0 .. 3

\* read_instruction returns; otherwise it stops the program.
can_read(p) ==
  \/ opcode(p) \in no_operands
  \/ opcode(p) \in one_int          /\ ints_fit(p + 1, 1)
  \/ opcode(p) \in two_ints         /\ ints_fit(p + 1, 2)
  \/ opcode(p) \in a_string         /\ string_fits(p + 1)
  \/ opcode(p) \in a_string_and_int /\ string_fits(p + 1) /\ ints_fit(p + 1, 2)
  \/ opcode(p) = closure            /\ closure_fits(p)

\* What it returns: the position behind the instruction at p.
insn_end(p) ==
  CASE opcode(p) \in no_operands            -> p + 1
    [] opcode(p) \in one_int \cup a_string  -> p + 1 + SIZEOF_INT
    [] opcode(p) \in two_ints \cup a_string_and_int -> p + 1 + 2 * SIZEOF_INT
    [] opcode(p) = closure                  -> capture(p, n_captured(p) + 1)

\* Operators and patterns with a place in ops and pats.  ops[l - 1] and pats[l]
\* are evaluated for the others too; cond_print drops the word read there when
\* it only counts, and takes it for the address of a name when it prints.
has_name(p) == /\ opcode(p)[1] = 0 => opcode(p)[2] \in 1 .. 13
               /\ opcode(p)[1] = 6 => opcode(p)[2] \in 0 .. 6

-------------------------------------------------------------------------------
(* Instructions as keys of the map *)

bytes_of(i) == SubSeq(code, i.begin, i.end - 1)

\* memcmp(b, o, n) < 0
memcmp_less(b, o, n) ==
  \E k \in 0 .. n - 1 : /\ \A m \in 0 .. k - 1 : code[b + m] = code[o + m]
                        /\ code[b + k] < code[o + k]
less_but_last(i, j) == memcmp_less(i.begin, j.begin, i.end - i.begin - 1)
less_or_equal(i, j) == ~memcmp_less(j.begin, i.begin, j.end - j.begin)
less(i, j) == memcmp_less(i.begin, j.begin, i.end - i.begin)

\* try_emplace(i, 0).first->second++ : a search for the first entry that is
\* not less than i, which is the one of i unless i is less than it.
lower_bound(i) == 1 + Cardinality({k \in DOMAIN codes : less(codes[k], i)})
increment(i) ==
  LET k == lower_bound(i) IN
  IF k \in DOMAIN codes /\ ~less(i, codes[k])
  THEN codes' = [codes EXCEPT ![k].count = @ + 1]
  ELSE codes' = SubSeq(codes, 1, k - 1)
                  \o <<[begin |-> i.begin, end |-> i.end, count |-> 1]>>
                  \o SubSeq(codes, k, Len(codes))

-------------------------------------------------------------------------------

\* The loop of calculate_codes.
next_ip_stuck(i) == i.begin
next_ip(i) == i.end
ReadInstruction ==
  /\ status = "reading" /\ ip < eof
  /\ can_read(ip)
  /\ LET i == [begin |-> ip, end |-> insn_end(ip)] IN
       /\ ip' = next_ip(i)
       /\ increment(i)
  /\ UNCHANGED <<code, printed, status>>

\* failure(): a message and exit(1).
Failure ==
  /\ status = "reading" /\ ip < eof
  /\ ~can_read(ip)
  /\ status' = "failed"
  /\ UNCHANGED <<code, ip, codes, printed>>

\* print_frequency: std::sort by the count, which may leave equal counts in any
\* order, and one line for each entry, whose instruction is read once more.  What
\* comes of the first one without a name, and after it, is undefined.
before_ascending(a, b) == a.count < b.count
before(a, b) == a.count > b.count
line(e) == [bytes |-> SubSeq(code, e.begin, insn_end(e.begin) - 1), count |-> e.count]
PrintFrequency ==
  /\ status = "reading" /\ ip >= eof
  /\ \E order \in [DOMAIN codes -> DOMAIN codes], n \in 0 .. Len(codes) :
       /\ \A a, b \in DOMAIN codes : a # b => order[a] # order[b]
       /\ \A a, b \in DOMAIN codes : a < b => ~before(codes[order[b]], codes[order[a]])
       /\ \A k \in 1 .. n : has_name(codes[order[k]].begin)
       /\ n < Len(codes) => ~has_name(codes[order[n + 1]].begin)
       /\ printed' = [k \in 1 .. n |-> line(codes[order[k]])]
       /\ status' = IF n = Len(codes) THEN "done" ELSE "outside"
  /\ UNCHANGED <<code, ip, codes>>

Ended == status \in {"done", "failed", "outside"} /\ UNCHANGED vars

Init == /\ \E n \in 0 .. MaxCode : code \in [1 .. n -> Byte]
        /\ ip = 1
        /\ codes = << >>
        /\ printed = << >>
        /\ status = "reading"

Next == ReadInstruction \/ Failure \/ PrintFrequency \/ Ended
Spec == Init /\ [][Next]_vars

-------------------------------------------------------------------------------
(* Properties *)

\* Every variable has its type; an entry of the map lies in the bytes read.
TypeOK ==
  /\ code \in Seq(Byte)
  /\ ip \in 1 .. eof
  /\ codes \in Seq([begin: Nat \ {0}, end: Nat, count: Nat \ {0}])
  /\ \A k \in DOMAIN codes : codes[k].begin < codes[k].end /\ codes[k].end <= ip
  /\ printed \in Seq([bytes: Seq(Byte), count: Nat \ {0}])
  /\ status \in {"reading", "failed", "done", "outside"}

\* The instructions read so far begin where one before them ends.
starts ==
  LET is_start[p \in 1 .. eof] ==
        p = 1 \/ \E q \in 1 .. p - 1 : is_start[q] /\ can_read(q) /\ insn_end(q) = p
  IN  {p \in 1 .. ip - 1 : is_start[p]}
instruction_at(p) == SubSeq(code, p, insn_end(p) - 1)
occurrences(bytes) == {p \in starts : instruction_at(p) = bytes}

\* calculate_codes: every instruction read is counted in exactly one entry, and
\* two of them in the same entry exactly when their bytes are equal.
CountsAreExact ==
  /\ \A p \in starts :
       Cardinality({k \in DOMAIN codes : bytes_of(codes[k]) = instruction_at(p)}) = 1
  /\ \A k \in DOMAIN codes :
       codes[k].count = Cardinality(occurrences(bytes_of(codes[k])))

\* No instruction of the code is a proper prefix of another: memcmp, which
\* looks at as many bytes as its left operand has, finds a difference inside
\* both instructions, or they are equal and of one length.
PrefixFree ==
  \A i, j \in DOMAIN codes :
    LET a == codes[i]
        b == codes[j]
    IN  a.end - a.begin <= b.end - b.begin
        /\ (\A m \in 0 .. a.end - a.begin - 1 : code[a.begin + m] = code[b.begin + m])
          => a.end - a.begin = b.end - b.begin

\* operator< is the strict weak order that std::map asks for: the entries are
\* strictly ordered, whatever pair is compared, without a look at the bytes
\* behind the shorter one, and of the entries those that are less than the
\* instruction read next come before those that it is less than.
OrderIsStrictWeak ==
  /\ PrefixFree
  /\ \A i, j \in DOMAIN codes : less(codes[i], codes[j]) <=> i < j
  /\ status = "reading" /\ ip < eof /\ can_read(ip) =>
       LET key == [begin |-> ip, end |-> insn_end(ip)] IN
       \A i, j \in DOMAIN codes :
         /\ i < j /\ less(codes[j], key) => less(codes[i], key) /\ ~less(key, codes[i])
         /\ i < j /\ less(key, codes[i]) => less(key, codes[j]) /\ ~less(codes[j], key)

\* print_frequency: the report has a line for each different instruction, with
\* the number of its occurrences, the more frequent first; it is complete unless
\* there is an instruction without a name, and then it is a report up to such a
\* one: no line is missing whose count is greater than that of a line printed.
row(p) == [bytes |-> instruction_at(p), count |-> Cardinality(occurrences(instruction_at(p)))]
rows == {printed[k] : k \in DOMAIN printed}
ReportIsRight ==
  status \in {"done", "outside"} =>
    /\ \A r \in rows : \E p \in starts : r = row(p) /\ has_name(p)
    /\ \A a, b \in DOMAIN printed :
         a < b => /\ printed[a].bytes # printed[b].bytes
                  /\ printed[a].count >= printed[b].count
    /\ \A p \in starts : row(p) \in rows \/ \A r \in rows : r.count >= row(p).count
    /\ status = "done"    => \A p \in starts : row(p) \in rows
    /\ status = "outside" => \E p \in starts : ~has_name(p) /\ row(p) \notin rows

\* The code of a compiled file ends in the byte STOP.  What comes before it is
\* then counted in full: the strict bound of next_int rejects nothing.
opcodes == no_operands \cup one_int \cup two_ints \cup a_string \cup a_string_and_int
whole(p) ==
  /\ p < eof
  /\ opcode(p) \in opcodes \/ (opcode(p) = closure /\ p + 2 * SIZEOF_INT < eof)
  /\ insn_end(p) <= eof
good_operands(p) ==
  /\ opcode(p) \in a_string \cup a_string_and_int => unsigned(int_bytes(p + 1)) < stringtab_size
  /\ opcode(p) = closure => \A i \in 1 .. n_captured(p) : code[capture(p, i)] \in 0 .. 3
StopTerminatedIsCounted ==
  status = "failed" =>
    ~ \E ends \in SUBSET (ip .. eof) :
        /\ {ip, eof - 1, eof} \subseteq ends /\ opcode(eof - 1)[1] = 15
        /\ \A p \in ends \ {eof} : whole(p) /\ good_operands(p)
        /\ {insn_end(p) : p \in ends \ {eof}} = ends \ {ip}
===============================================================================
