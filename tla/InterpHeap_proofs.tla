--------------------------- MODULE InterpHeap_proofs ---------------------------
(***************************************************************************)
(* What modules HeapSoundness_proofs and HeapIdentity_proofs show of the   *)
(* collector holds in every state of the interpreter: each of its          *)
(* instructions is a request, a return or a step that keeps the layout of  *)
(* the heap, and, but for LDA_C, the words it leaves behind point at       *)
(* objects.  With LDA_C they may point inside closures, too, as long as    *)
(* none of these addresses is left when a collection starts.               *)
(***************************************************************************)
EXTENDS HeapIdentity_proofs, InterpHeapProperties

\* The instructions that allocate place an object of the requested shape.
LEMMA ReturnStep == ASSUME Structure, Return PROVE Structure'
<1>1. \A op, c, n : return(op, c, n) => Structure'
  <2> SUFFICES ASSUME NEW op, NEW c, NEW n, return(op, c, n) PROVE Structure'
    OBVIOUS
  <2> QED BY AllocatedStep DEF return
<1> QED BY <1>1 DEF Return, BARRAY_return, BSEXP_return, BCLOSURE_return,
                    BSTRING_return, LSTRING_return

\* Their first halves request an object of a type and length that exist.
LEMMA RequestingInstruction ==
  ASSUME Structure, BARRAY \/ BSEXP \/ BCLOSURE \/ BSTRING \/ LSTRING
  PROVE  Structure'
<1>1. ASSUME BARRAY \/ BSEXP \/ BCLOSURE PROVE Structure'
  <2>1. PICK n \in 0 .. MaxLen : \/ requests("BARRAY", "ARRAY", n)
                                 \/ requests("BSEXP", "SEXP", n)
                                 \/ requests("BCLOSURE", "CLOSURE", n + 1)
    BY <1>1 DEF BARRAY, BSEXP, BCLOSURE
  <2>2. n \in Nat /\ n + 1 \in Nat /\ {"ARRAY", "SEXP", "CLOSURE"} \subseteq lama_type
    BY ProgramAssumption DEF lama_type
  <2> QED BY <2>1, <2>2, RequestStep DEF requests
<1>2. ASSUME BSTRING \/ LSTRING PROVE Structure'
  <2>1. PICK s \in Strings : \E op : request(op, "STRING", Len(s))
    BY <1>2 DEF BSTRING, LSTRING
  <2>2. Len(s) \in Nat /\ "STRING" \in lama_type
    BY ProgramAssumption DEF lama_type
  <2> QED BY <2>1, <2>2, RequestStep
<1> QED BY <1>1, <1>2

\* The other instructions change words of objects at most.
LEMMA InstructionStep == ASSUME Structure, Instruction PROVE Structure'
<1>1. memory(mem) /\ same_layout(mem, mem)
  BY MemoryOf, SameLayoutRefl DEF Structure
<1>2. ASSUME STA_captured \/ ST_C \/ STA PROVE Structure'
  <2>1. \E a, i, v : mem' = [mem EXCEPT ![a].words[i] = v]
    <3>1. ASSUME STA PROVE \E a, i, v : mem' = [mem EXCEPT ![a].words[i] = v]
      <4> DEFINE x == object_at(operand(3))
                 v == IF x.type = "STRING" THEN UNBOX(operand(1)) % 256 ELSE operand(1)
      <4>1. mem' = [mem EXCEPT ![TO_DATA(operand(3))].words[member(x, UNBOX(operand(2)))] = v]
        BY <3>1 DEF STA
      <4> QED BY ZenonT(30), <4>1
    <3> QED BY <1>2, <3>1 DEF STA_captured, ST_C
  <2>2. same_layout(mem, mem')
    <3> PICK a, i, v : mem' = [mem EXCEPT ![a].words[i] = v]
      BY <2>1
    <3> QED BY <1>1, SetWord
  <2>3. /\ pc = "run" /\ pc' = pc /\ heap' = heap /\ req' = req /\ gc' = gc
    BY <1>2 DEF STA_captured, ST_C, STA, runs
  <2> QED BY <2>2, <2>3, ProgramStep
<1>3. ASSUME stack_only, pc = "run" PROVE Structure'
  BY <1>1, <1>3, ProgramStep DEF stack_only
<1>4. ASSUME failure, pc = "run" PROVE Structure'
  BY <1>1, <1>4, ProgramStep DEF failure
<1>5. ASSUME CONST \/ DROP \/ DUP \/ LD \/ ST \/ LDA \/ STA_ref \/ LWRITE \/ LD_C \/ LDA_C
             \/ ELEM \/ LLENGTH \/ BINOP \/ LREAD \/ TAG \/ ARRAY \/ PATT \/ PATT_str
      PROVE  Structure'
  BY <1>3, <1>5 DEF CONST, DROP, DUP, LD, ST, LDA, STA_ref, LWRITE, LD_C, LDA_C, ELEM,
     LLENGTH, BINOP, LREAD, TAG, ARRAY, TAG_or_ARRAY, PATT, PATT_str, runs
<1>6. ASSUME ELEM_fail \/ STA_fail \/ LLENGTH_fail \/ PATT_str_fail PROVE Structure'
  BY <1>4, <1>6 DEF ELEM_fail, STA_fail, LLENGTH_fail, PATT_str_fail, runs
<1> QED BY <1>2, <1>5, <1>6, RequestingInstruction DEF Instruction

\* The interpreter starts with an empty heap.
LEMMA InitStructure == Init => Structure
  BY GcInitStructure DEF Init

\* Every step of the interpreter and of the collector preserves the invariant.
LEMMA StepStructure == Structure /\ [Next]_vars => Structure'
<1> SUFFICES ASSUME Structure, [Next]_vars PROVE Structure'
  OBVIOUS
<1>1. CASE UNCHANGED vars
  BY <1>1, StutteringStep DEF vars, clientVars, gcVars
<1> QED BY <1>1, InstructionStep, ReturnStep, CollectorStep DEF Next, Exited

\* The heap has the structure of module HeapStructure in every reachable state:
\* in each phase of gc_alloc the objects lie where that phase has put them.
THEOREM StructureHolds == Spec => []Structure
  BY InitStructure, StepStructure, PTL DEF Spec

\* The heap iterators lead from the first header over headers only to the end of
\* the heap, in every state in which gc.c iterates over the heap.
THEOREM HeapParsableHolds == Spec => []HeapParsable
  BY StructureHolds, StructureImplies, PTL

\* The destinations that compute_locations chose, and that relocation still has
\* to use, are disjoint, in order and never above the object.
THEOREM SlidesDownHolds == Spec => []SlidesDown
  BY StructureHolds, StructureImplies, PTL

\* gc_alloc_on_existing_heap never returns NULL at the end of gc_alloc.
THEOREM CollectionMakesRoomHolds == Spec => []CollectionMakesRoom
  BY StructureHolds, StructureImplies, PTL

-------------------------------------------------------------------------------
(* Words.  The address that LDA_C pushes for a captured variable lies inside *)
(* an object, so what follows is for programs without it: the run            *)
(* interior_reference shows what becomes of NoDanglingPointers otherwise.    *)

NoInteriorAddresses == "LDA_C" \notin Ops

\* Between calls the pool of extra roots is empty; during one, the operands that
\* the return pops are still there, and cells are registered for strings only.
Callers ==
  /\ Len(stack) >= NG
  /\ req.op \in {"none", "BARRAY", "BSEXP", "BCLOSURE", "BSTRING", "LSTRING"}
  /\ pc \in {"run", "failed"} => extra = << >> /\ locals = << >>
  /\ pc \notin {"run", "failed"} =>
       /\ req.op # "none"
       /\ req.op = "BARRAY" => req.type = "ARRAY" /\ req.len <= Len(stack) - NG
       /\ req.op = "BSEXP" => req.type = "SEXP" /\ req.len <= Len(stack) - NG
       /\ req.op = "BCLOSURE" => req.type = "CLOSURE" /\ req.len >= 1
       /\ req.op \in {"BSTRING", "LSTRING"} => req.type = "STRING"
       /\ req.op \notin {"BSTRING", "LSTRING"} => extra = << >>

LEMMA RawWord == raw_word \in Nat
<1>1. Bases \subseteq Nat /\ Bases # {}
  BY BasesAssumption
<1>2. PICK b \in Bases : \A c \in Bases : ~(c < b)
  BY <1>1, Smallest
<1>3. \A c \in Bases : b <= c
  BY <1>1, <1>2
<1>4. raw_word \in Bases
  BY <1>3 DEF raw_word
<1> QED BY <1>1, <1>4

\* Integers and the addresses of globals and buffers are no heap pointers.
LEMMA PlainWords ==
  ASSUME NEW O
  PROVE  /\ \A n \in Nat : BOX(n) \in references(O)
         /\ \A b : boolean(b) \in references(O)
         /\ 0 \in references(O)
         /\ \A i \in 1 .. NG : global_addr(i) \in references(O)
         /\ foreign_addr \in references(O)
<1>1. ASSUME NEW n \in Nat PROVE BOX(n) \in references(O)
  <2>1. 2 * n + 1 \in Nat /\ (2 * n + 1) % 2 = 1
    OBVIOUS
  <2> QED BY <2>1 DEF BOX, UNBOXED, references, outside
<1>2. \A b : boolean(b) \in references(O)
  BY <1>1 DEF boolean
<1>3. \A b \in Bases : b \in Nat /\ b > 4 * (NG + 1)
  BY BasesAssumption, AddressAssumption DEF foreign_addr, global_addr, WORD_BYTES
<1>4. NG \in Nat
  BY ProgramAssumption
<1>5. 0 \in references(O)
  BY <1>3, <1>4 DEF references, outside
<1>6. ASSUME NEW i \in 1 .. NG + 1 PROVE global_addr(i) \in references(O)
  BY <1>3, <1>4 DEF references, outside, global_addr, WORD_BYTES
<1> QED BY <1>1, <1>2, <1>4, <1>5, <1>6 DEF foreign_addr

\* The words that are no heap pointers are among any references.
LEMMA PlainReferences ==
  ASSUME NEW O PROVE references(O) \in SUBSET Nat /\ references({}) \subseteq references(O)
BY ReferencesGrow DEF references

-------------------------------------------------------------------------------
(* Steps of the program *)

\* What holds whenever the program runs.
Running ==
  /\ stack \in Seq(references(DOMAIN mem)) /\ statics \in Seq(references(DOMAIN mem))
  /\ fields_in(DOMAIN mem, references(DOMAIN mem))
  /\ objects(mem) /\ Len(stack) >= NG /\ Len(stack) \in Nat
  /\ extra = << >> /\ locals = << >>
  /\ req \in [op: {req.op}, type: lama_type, len: Nat, size: Nat] /\ cur_id \in Nat
  /\ \A a \in DOMAIN mem : mem[a].type = "STRING" => Len(mem[a].words) = mem[a].len

LEMMA ProgramRuns == ASSUME Soundness, Callers, pc = "run" PROVE Running
<1>1. Typed /\ ClientTypeOK /\ Clean /\ gc_idle
  BY DEF Soundness, Typed, gc_idle
<1>2. roots_in(references(DOMAIN mem)) /\ fields_in(DOMAIN mem, references(DOMAIN mem))
  BY <1>1 DEF Clean
<1>3. Len(stack) \in Nat
  BY <1>1 DEF ClientTypeOK
<1> QED BY <1>1, <1>2, <1>3 DEF Running, Callers, roots_in, Typed, ClientTypeOK, objects

\* A step that leaves the objects alone and pushes, pops or replaces words.
LEMMA StackStep ==
  ASSUME Soundness, Callers, pc = "run", pc' \in {"run", "failed"},
         UNCHANGED <<heap, mem, statics, locals, extra, req, gc, cur_id>>,
         stack' \in Seq(references(DOMAIN mem)), Len(stack') >= NG
  PROVE  Soundness' /\ Callers'
<1>1. Running /\ gc_idle /\ gc_idle'
  BY ProgramRuns DEF gc_idle
<1>2. CleanRoots'
  BY <1>1, PoolAssumption DEF CleanRoots, Running, roots_in, cells_in, references, outside
<1>3. fields_in(DOMAIN mem, references(DOMAIN mem))'
  BY <1>1 DEF Running, fields_in, references, outside
<1>4. Soundness'
  BY <1>1, <1>2, <1>3, ProgramSound DEF Running, objects
<1> QED BY <1>4 DEF Callers

\* Objects that differ in their words at most, and not in how many they have.
same_headers(m, n) ==
  /\ DOMAIN n = DOMAIN m
  /\ \A b \in DOMAIN m : /\ n[b].marked = m[b].marked /\ n[b].enqueued = m[b].enqueued
                         /\ n[b].type = m[b].type /\ n[b].len = m[b].len
                         /\ Len(n[b].words) = Len(m[b].words)

members_in(m, R) == \A b \in DOMAIN m : \A j \in fields(m[b]) : m[b].words[j] \in R

\* A store to one word of an object is such a difference.
LEMMA StoredFields ==
  ASSUME objects(mem),
         \A b \in DOMAIN mem : mem[b].type = "STRING" => Len(mem[b].words) = mem[b].len,
         NEW R, fields_in(DOMAIN mem, R),
         NEW a \in DOMAIN mem, NEW i \in DOMAIN mem[a].words, NEW v \in Nat,
         mem' = [mem EXCEPT ![a].words[i] = v],
         mem[a].type # "STRING" => v \in R
  PROVE  objects(mem') /\ same_headers(mem, mem') /\ members_in(mem', R)
<1> PICK w : w = mem[a].words OBVIOUS
<1> PICK w1 : w1 = [w EXCEPT ![i] = v] OBVIOUS
<1> PICK o : o = [mem[a] EXCEPT !.words = w1] OBVIOUS
<1>1. mem[a] \in Object /\ w \in Seq(Nat) /\ Len(w) \in Nat
  BY FieldsAreWords DEF objects
<1>2. w1 \in Seq(Nat) /\ Len(w1) = Len(w)
  BY <1>1, Replacing
<1>3. \A j \in 1 .. Len(w) : w1[j] = IF j = i THEN v ELSE w[j]
  <2>1. DOMAIN w = 1 .. Len(w)
    BY <1>1
  <2> QED BY <2>1
<1>4. /\ o \in Object /\ o.type = mem[a].type /\ o.len = mem[a].len /\ o.words = w1
      /\ o.marked = mem[a].marked /\ o.enqueued = mem[a].enqueued
  BY ONLY <1>1, <1>2, o = [mem[a] EXCEPT !.words = w1] DEF Object, Word
<1>5. DOMAIN mem' = DOMAIN mem /\ mem'[a] = o /\ \A b \in DOMAIN mem : b # a => mem'[b] = mem[b]
  OBVIOUS
<1>6. ASSUME NEW b \in DOMAIN mem, NEW j \in fields(mem'[b]) PROVE mem'[b].words[j] \in R
  <2>1. CASE b # a
    <3>1. mem'[b] = mem[b]
      BY <1>5, <2>1
    <3> QED BY <1>6, <3>1 DEF fields_in
  <2>2. CASE b = a
    <3>1. /\ j \in fields(mem[a]) /\ j \in 1 .. Len(w) /\ w[j] \in R
          /\ mem'[b].words[j] = w1[j]
      <4>1. j \in fields(mem[a])
        BY <1>2, <1>4, <1>5, <1>6, <2>2 DEF fields
      <4> QED BY <1>1, <1>4, <1>5, <2>2, <4>1, FieldsAreWords DEF fields_in
    <3>2. mem[a].type # "STRING"
      <4> SUFFICES ASSUME mem[a].type = "STRING" PROVE FALSE
        OBVIOUS
      <4>1. mem[a].len \in Nat /\ Len(w) = mem[a].len
        BY <1>1 DEF Object
      <4>2. j >= mem[a].len + 1 /\ j <= Len(w)
        BY <3>1, <4>1 DEF fields, first_field
      <4> QED BY <1>1, <3>1, <4>1, <4>2
    <3> QED BY <1>3, <3>1, <3>2
  <2> QED BY <2>1, <2>2
<1>7. objects(mem')
  BY <1>4, <1>5 DEF objects
<1>8. same_headers(mem, mem')
  BY <1>2, <1>4, <1>5 DEF same_headers
<1> QED BY <1>5, <1>6, <1>7, <1>8 DEF members_in

\* What is stored is as clean as the rest.
LEMMA StoreStep ==
  ASSUME Soundness, Callers, pc = "run", pc' = "run",
         UNCHANGED <<heap, statics, locals, extra, req, gc, cur_id>>,
         NEW a \in DOMAIN mem, NEW i \in DOMAIN mem[a].words, NEW v \in Nat,
         mem' = [mem EXCEPT ![a].words[i] = v],
         mem[a].type # "STRING" => v \in references(DOMAIN mem),
         stack' \in Seq(references(DOMAIN mem)), Len(stack') >= NG
  PROVE  Soundness' /\ Callers'
<1>1. Running /\ gc_idle /\ gc_idle'
  BY ProgramRuns DEF gc_idle
<1> PICK R : R = references(DOMAIN mem) OBVIOUS
<1>2. objects(mem') /\ same_headers(mem, mem') /\ members_in(mem', R)
  <2>1. objects(mem) /\ fields_in(DOMAIN mem, R) /\ (mem[a].type # "STRING" => v \in R)
        /\ \A b \in DOMAIN mem : mem[b].type = "STRING" => Len(mem[b].words) = mem[b].len
    BY <1>1 DEF Running
  <2> QED BY <2>1, StoredFields
<1>3. fields_in(DOMAIN mem, references(DOMAIN mem))'
  BY <1>2 DEF same_headers, members_in, fields_in, fields, references, outside
<1>4. CleanRoots'
  BY <1>1, <1>2, PoolAssumption
     DEF same_headers, CleanRoots, Running, roots_in, cells_in, references, outside
<1>5. Soundness'
  BY <1>1, <1>2, <1>3, <1>4, ProgramSound DEF same_headers, Running
<1> QED BY <1>5 DEF Callers

-------------------------------------------------------------------------------
(* The instructions that do not allocate *)

\* Each of these replaces operands by words that were there already, or by words
\* that are no heap pointers.
MovesWords == \/ CONST \/ DROP \/ DUP \/ LD \/ ST \/ LDA \/ STA_ref \/ LWRITE \/ LD_C
              \/ ELEM \/ LLENGTH \/ BINOP \/ LREAD \/ TAG \/ ARRAY \/ PATT \/ PATT_str

\* The words that are pushed or replaced are as clean as the operands and the
\* members of the objects that these point at.
LEMMA MovedWords ==
  ASSUME objects(mem), NEW O \in SUBSET DOMAIN mem, NEW R \in SUBSET Nat,
         references({}) \subseteq R, fields_in(O, R),
         stack \in Seq(R), Len(stack) >= NG,
         \A p \in R : is_object(p) => TO_DATA(p) \in O,
         MovesWords
  PROVE  /\ pc = "run" /\ stack_only
         /\ stack' \in Seq(R) /\ Len(stack') >= NG
<1>1. pc = "run" /\ stack_only
  BY DEF MovesWords, CONST, DROP, DUP, LD, ST, LDA, STA_ref, LWRITE, LD_C, ELEM, LLENGTH,
     BINOP, LREAD, TAG, ARRAY, TAG_or_ARRAY, PATT, PATT_str, runs
<1>2. /\ stack \in Seq(R) /\ Len(stack) \in Nat /\ Len(stack) >= NG /\ objects(mem)
      /\ NG \in Nat /\ fields_in(O, R)
  BY ProgramAssumption
<1>3. /\ \A i \in 1 .. Len(stack) : stack[i] \in R /\ operand(i) \in R
      /\ \A n \in 0 .. Len(stack) : popped(n) \in Seq(R) /\ Len(popped(n)) = Len(stack) - n
  BY <1>2, Operands
<1>4. /\ \A n \in Nat : BOX(n) \in R
      /\ \A b : boolean(b) \in R
      /\ 0 \in R
      /\ \A i \in 1 .. NG : global_addr(i) \in R
  BY PlainWords
<1>5. \A s \in Seq(R) : \A v \in R : push(s, v) \in Seq(R) /\ Len(push(s, v)) = Len(s) + 1
  BY Pushing
<1>6. \A n \in Consts : BOX(n) \in R
  BY <1>4, ProgramAssumption
<1>7. ASSUME NEW n \in Nat, has_operands(n)
      PROVE  /\ popped(n) \in Seq(R) /\ Len(popped(n)) = Len(stack) - n
             /\ Len(popped(n)) >= NG /\ Len(popped(n)) \in Nat
             /\ \A i \in 1 .. n : operand(i) \in R
  <2>1. n \in 0 .. Len(stack) /\ Len(stack) - n >= NG /\ Len(stack) - n \in Nat
        /\ \A i \in 1 .. n : i \in 1 .. Len(stack)
    BY <1>2, <1>7 DEF has_operands
  <2> QED BY <1>3, <2>1
<1>8. ASSUME NEW n \in Nat, has_operands(n), NEW v \in R, stack' = push(popped(n), v)
      PROVE  stack' \in Seq(R) /\ Len(stack') >= NG
  <2>1. popped(n) \in Seq(R) /\ Len(popped(n)) >= NG /\ Len(popped(n)) \in Nat
    BY <1>7, <1>8
  <2>2. stack' \in Seq(R) /\ Len(stack') = Len(popped(n)) + 1
    BY <1>5, <1>8, <2>1
  <2> QED BY <1>2, <2>1, <2>2
<1>9. ASSUME NEW v \in R, stack' = push(stack, v) PROVE stack' \in Seq(R) /\ Len(stack') >= NG
  BY <1>2, <1>5, <1>9
<1>10. stack' \in Seq(R) /\ Len(stack') >= NG
  <2>1. CASE CONST \/ LREAD
    BY <1>6, <1>9, <2>1 DEF CONST, LREAD
  <2>2. CASE DROP
    BY <1>7, <2>2 DEF DROP
  <2>3. CASE DUP
    <3>1. has_operands(1) /\ stack' = push(stack, operand(1))
      BY <2>3 DEF DUP
    <3>2. operand(1) \in R
      BY <1>7, <3>1
    <3> QED BY <1>9, <3>1, <3>2
  <2>4. CASE LD
    <3> PICK i \in 1 .. NG : stack' = push(stack, stack[i])
      BY <2>4 DEF LD
    <3>1. stack[i] \in R
      BY <1>2, <1>3
    <3> QED BY <1>9, <3>1
  <2>5. CASE ST
    BY <1>2, <1>7, <2>5, Replacing DEF ST
  <2>6. CASE LDA
    BY <1>4, <1>9, <2>6 DEF LDA
  <2>7. CASE STA_ref
    <3> PICK i \in 1 .. NG : stack' = push([popped(2) EXCEPT ![i] = operand(1)], operand(1))
      BY <2>7 DEF STA_ref
    <3> PICK s : s = [popped(2) EXCEPT ![i] = operand(1)] OBVIOUS
    <3>1. popped(2) \in Seq(R) /\ Len(popped(2)) >= NG /\ operand(1) \in R /\ Len(popped(2)) \in Nat
      BY <1>7, <2>7 DEF STA_ref
    <3>2. s \in Seq(R) /\ Len(s) = Len(popped(2))
      BY <3>1, Replacing
    <3>3. push(s, operand(1)) \in Seq(R) /\ Len(push(s, operand(1))) = Len(s) + 1
      BY <1>5, <3>1, <3>2
    <3>4. Len(s) + 1 >= NG
      BY <1>2, <3>1, <3>2
    <3>5. stack' = push(s, operand(1))
      OBVIOUS
    <3> QED BY <3>3, <3>4, <3>5
  <2>8. CASE LWRITE
    BY <1>4, <1>8, <2>8 DEF LWRITE
  <2>9. CASE LD_C
    <3> PICK j \in DOMAIN stack : /\ is_closure(stack[j])
                                  /\ \E i \in captured(object_at(stack[j])) :
                                       stack' = push(stack, object_at(stack[j]).words[i])
      BY <2>9 DEF LD_C
    <3>1. TO_DATA(stack[j]) \in O
      <4>1. stack[j] \in R /\ is_object(stack[j])
        BY <1>2 DEF is_closure
      <4> QED BY <4>1
    <3> QED BY <1>2, <1>9, <3>1 DEF fields_in, captured, object_at
  <2>10. CASE ELEM
    <3> PICK a : a = TO_DATA(operand(2)) OBVIOUS
    <3> PICK i : i = member(mem[a], UNBOX(operand(1))) OBVIOUS
    <3>1. /\ a \in O /\ mem[a].type \in {"ARRAY", "SEXP", "STRING"} /\ i \in DOMAIN mem[a].words
          /\ stack' = push(popped(2), IF mem[a].type = "STRING" THEN BOX(mem[a].words[i])
                                                                ELSE mem[a].words[i])
          /\ has_operands(2)
      <4>1. has_operands(2) /\ is_object(operand(2))
        BY <2>10 DEF ELEM
      <4>2. operand(2) \in R
        BY <1>7, <4>1
      <4>3. a \in O
        BY <4>1, <4>2
      <4> QED BY <2>10, <4>1, <4>3 DEF ELEM, object_at
    <3>2. mem[a].words \in Seq(Nat) /\ Len(mem[a].words) \in Nat /\ mem[a].len \in Nat
      BY <1>2, <3>1, FieldsAreWords DEF objects, Object
    <3>3. mem[a].words[i] \in Nat
      BY <3>1, <3>2
    <3>4. ASSUME mem[a].type # "STRING" PROVE mem[a].words[i] \in R
      <4>1. operand(1) \in Nat
        <5>1. operand(1) \in R
          BY <1>7, <3>1
        <5> QED BY <5>1
      <4>2. UNBOX(operand(1)) \in Nat
        BY <4>1 DEF UNBOX
      <4>3. i \in 1 .. Len(mem[a].words) /\ i >= first_field(mem[a].type, mem[a].len)
        <5>1. i \in 1 .. Len(mem[a].words)
          BY <3>1, <3>2
        <5> PICK u \in Nat : u = UNBOX(operand(1))
          BY <4>2
        <5>2. ASSUME mem[a].type = "SEXP" PROVE i = u + 2 /\ first_field(mem[a].type, mem[a].len) = 2
          BY <5>2 DEF member, first_field
        <5>3. ASSUME mem[a].type = "ARRAY" PROVE i = u + 1 /\ first_field(mem[a].type, mem[a].len) = 1
          BY <5>3 DEF member, first_field
        <5> QED BY <3>1, <3>4, <5>1, <5>2, <5>3
      <4>4. first_field(mem[a].type, mem[a].len) \in Nat
        BY <3>1, <3>2, FirstField DEF lama_type
      <4>5. i \in fields(mem[a])
        BY <3>2, <4>3, <4>4 DEF fields
      <4> QED BY <1>2, <3>1, <4>5 DEF fields_in
    <3> QED BY <1>4, <1>8, <3>1, <3>3, <3>4
  <2>11. CASE LLENGTH
    <3>1. object_at(operand(1)).len \in Nat
      BY <1>2, <2>11 DEF LLENGTH, is_object, object_at, objects, Object
    <3> QED BY <1>4, <1>8, <2>11, <3>1 DEF LLENGTH
  <2>12. CASE BINOP
    BY <1>6, <1>8, <2>12 DEF BINOP
  <2>13. CASE TAG \/ ARRAY
    BY <1>4, <1>8, <2>13 DEF TAG, ARRAY, TAG_or_ARRAY
  <2>14. CASE PATT
    BY <1>4, <1>8, <2>14 DEF PATT
  <2>15. CASE PATT_str
    <3>1. has_operands(2) /\ has_operands(1)
      BY <1>2, <2>15 DEF PATT_str, has_operands
    <3> QED BY <1>4, <1>8, <2>15, <3>1 DEF PATT_str
  <2> QED BY <2>1, <2>2, <2>3, <2>4, <2>5, <2>6, <2>7, <2>8, <2>9, <2>10, <2>11, <2>12,
             <2>13, <2>14, <2>15 DEF MovesWords
<1> QED BY <1>1, <1>10

LEMMA MovesWordsSound ==
  ASSUME Soundness, Callers, MovesWords
  PROVE  Soundness' /\ Callers'
<1> PICK O : O = DOMAIN mem OBVIOUS
<1> PICK R : R = references(O) OBVIOUS
<1>1. pc = "run"
  BY DEF MovesWords, CONST, DROP, DUP, LD, ST, LDA, STA_ref, LWRITE, LD_C, ELEM, LLENGTH,
     BINOP, LREAD, TAG, ARRAY, PATT, PATT_str, runs
<1>2. /\ stack \in Seq(R) /\ Len(stack) >= NG /\ objects(mem)
      /\ fields_in(O, R) /\ \A p \in R : is_object(p) => TO_DATA(p) \in O
  BY <1>1, ProgramRuns DEF Running, is_object
<1>3. stack_only /\ stack' \in Seq(R) /\ Len(stack') >= NG
  BY <1>2, MovedWords, PlainReferences
<1> QED BY <1>1, <1>3, StackStep DEF stack_only

\* Each of these writes one word of an object; what they write is an operand, or
\* a character of a string.
StoresWord == ST_C \/ STA \/ STA_captured
stored(R) == \E a \in DOMAIN mem : \E i \in DOMAIN mem[a].words : \E v \in Nat :
               /\ mem' = [mem EXCEPT ![a].words[i] = v]
               /\ mem[a].type # "STRING" => v \in R

LEMMA StoredWord ==
  ASSUME objects(mem), NEW R \in SUBSET Nat, stack \in Seq(R), Len(stack) >= NG, StoresWord
  PROVE  /\ pc = "run" /\ UNCHANGED <<heap, statics, locals, extra, pc, req, gc, cur_id>>
         /\ stack' \in Seq(R) /\ Len(stack') >= NG
         /\ stored(R)
<1>1. pc = "run" /\ UNCHANGED <<heap, statics, locals, extra, pc, req, gc, cur_id>>
  BY DEF StoresWord, ST_C, STA, STA_captured, runs
<1>2. Len(stack) \in Nat /\ NG \in Nat
  BY ProgramAssumption
<1>3. /\ \A i \in 1 .. Len(stack) : stack[i] \in R /\ operand(i) \in R
      /\ \A n \in 0 .. Len(stack) : popped(n) \in Seq(R) /\ Len(popped(n)) = Len(stack) - n
  BY <1>2, Operands
<1>4. operand(1) \in R /\ operand(1) \in Nat
  <2>1. has_operands(1)
    BY <1>2 DEF StoresWord, ST_C, STA, STA_captured, has_operands
  <2>2. 1 \in 1 .. Len(stack)
    BY <1>2, <2>1 DEF has_operands
  <2> QED BY <1>3, <2>2
<1>5. ASSUME NEW n \in Nat, has_operands(n), stack' = push(popped(n), operand(1))
      PROVE  stack' \in Seq(R) /\ Len(stack') >= NG
  <2>1. n \in 0 .. Len(stack) /\ Len(stack) - n >= NG /\ Len(stack) - n \in Nat
    BY <1>2, <1>5 DEF has_operands
  <2>2. popped(n) \in Seq(R) /\ Len(popped(n)) >= NG /\ Len(popped(n)) \in Nat
    BY <1>3, <2>1
  <2>3. stack' \in Seq(R) /\ Len(stack') = Len(popped(n)) + 1
    BY <1>4, <1>5, <2>2, Pushing
  <2> QED BY <1>2, <2>2, <2>3
<1>6. CASE ST_C
  <2> PICK j \in DOMAIN stack : /\ is_closure(stack[j])
                                /\ \E i \in captured(object_at(stack[j])) :
                                     mem' = [mem EXCEPT ![TO_DATA(stack[j])].words[i] = operand(1)]
    BY <1>6 DEF ST_C
  <2> PICK a : a = TO_DATA(stack[j]) OBVIOUS
  <2> PICK i \in fields(mem[a]) : mem' = [mem EXCEPT ![a].words[i] = operand(1)]
    BY DEF captured, object_at
  <2>1. a \in DOMAIN mem /\ stack' = stack
    BY <1>6 DEF is_closure, is_object, ST_C
  <2>2. i \in DOMAIN mem[a].words
    BY <2>1, FieldsAreWords DEF objects
  <2>3. stored(R)
    BY <1>4, <2>1, <2>2 DEF stored
  <2> QED BY <1>1, <2>1, <2>3
<1>7. CASE STA_captured
  <2> PICK a \in DOMAIN mem :
        \E i \in DOMAIN mem[a].words : mem' = [mem EXCEPT ![a].words[i] = operand(1)]
    BY <1>7 DEF STA_captured
  <2> PICK i \in DOMAIN mem[a].words : mem' = [mem EXCEPT ![a].words[i] = operand(1)]
    OBVIOUS
  <2>1. stack' \in Seq(R) /\ Len(stack') >= NG
    BY <1>5, <1>7 DEF STA_captured
  <2>2. stored(R)
    BY <1>4 DEF stored
  <2> QED BY <1>1, <2>1, <2>2
<1>8. CASE STA
  <2>1. PICK a : a = TO_DATA(operand(3))
    OBVIOUS
  <2>2. PICK i : i = member(mem[a], UNBOX(operand(2)))
    OBVIOUS
  <2>3. PICK v : v = IF mem[a].type = "STRING" THEN UNBOX(operand(1)) % 256 ELSE operand(1)
    OBVIOUS
  <2>4. /\ a \in DOMAIN mem /\ i \in DOMAIN mem[a].words /\ mem' = [mem EXCEPT ![a].words[i] = v]
        /\ has_operands(3) /\ stack' = push(popped(3), operand(1))
    BY <1>8, <2>1, <2>2, <2>3 DEF STA, is_object, object_at
  <2>5. stack' \in Seq(R) /\ Len(stack') >= NG
    BY <1>5, <2>4
  <2>6. v \in Nat /\ (mem[a].type # "STRING" => v \in R)
    BY <1>4, <2>3 DEF UNBOX
  <2>7. stored(R)
    BY <2>4, <2>6 DEF stored
  <2> QED BY <1>1, <2>5, <2>7
<1> QED BY <1>6, <1>7, <1>8 DEF StoresWord

LEMMA StoresSound ==
  ASSUME Soundness, Callers, StoresWord
  PROVE  Soundness' /\ Callers'
<1> PICK R : R = references(DOMAIN mem) OBVIOUS
<1>1. pc = "run"
  BY DEF StoresWord, ST_C, STA, STA_captured, runs
<1>2. objects(mem) /\ R \in SUBSET Nat /\ stack \in Seq(R) /\ Len(stack) >= NG
  BY <1>1, ProgramRuns, PlainReferences DEF Running
<1>3. /\ UNCHANGED <<heap, statics, locals, extra, pc, req, gc, cur_id>>
      /\ stack' \in Seq(R) /\ Len(stack') >= NG /\ stored(R)
  BY <1>2, StoredWord
<1> PICK a \in DOMAIN mem : \E i \in DOMAIN mem[a].words : \E v \in Nat :
      /\ mem' = [mem EXCEPT ![a].words[i] = v]
      /\ mem[a].type # "STRING" => v \in R
  BY <1>3 DEF stored
<1> PICK i \in DOMAIN mem[a].words, v \in Nat :
      /\ mem' = [mem EXCEPT ![a].words[i] = v]
      /\ mem[a].type # "STRING" => v \in R
  OBVIOUS
<1> QED BY <1>1, <1>3, StoreStep

\* failure() changes no word.
LEMMA FailureSound ==
  ASSUME Soundness, Callers, ELEM_fail \/ STA_fail \/ LLENGTH_fail \/ PATT_str_fail
  PROVE  Soundness' /\ Callers'
<1>1. pc = "run" /\ failure
  BY DEF ELEM_fail, STA_fail, LLENGTH_fail, PATT_str_fail, runs
<1>2. stack \in Seq(references(DOMAIN mem)) /\ Len(stack) >= NG
  BY <1>1, ProgramRuns DEF Running
<1>3. stack' \in Seq(references(DOMAIN mem)) /\ Len(stack') >= NG
  BY <1>1, <1>2 DEF failure
<1>4. UNCHANGED <<heap, mem, statics, locals, extra, req, gc, cur_id>> 
  BY <1>1 DEF failure
<1>5. pc = "run" /\ pc' \in {"run", "failed"}
  BY <1>1 DEF failure
<1> QED BY <1>3, <1>4, <1>5, StackStep

-------------------------------------------------------------------------------
(* The instructions that allocate *)

\* Up to the call of alloc: what is registered holds words as clean as the rest.
LEMMA RequestSound ==
  ASSUME Soundness, Callers, NEW op, NEW t \in lama_type, NEW n \in Nat, request(op, t, n),
         statics' = statics, stack' \in Seq(references(DOMAIN mem)),
         locals' \in [DOMAIN locals' -> references(DOMAIN mem)],
         extra' \in Seq({"local"} \X DOMAIN locals'), Len(extra') <= MAX_EXTRA_ROOTS_NUMBER,
         \A i, j \in DOMAIN extra' : extra'[i] = extra'[j] => i = j
  PROVE  Soundness'
<1>1. /\ pc = "run" /\ pc' = "alloc" /\ gc_idle /\ gc_idle' /\ mem' = mem /\ heap' = heap /\ gc' = gc
      /\ cur_id' = cur_id + 1 /\ req' = [op |-> op, type |-> t, len |-> n, size |-> obj_words(t, n)]
  BY DEF request, gc_idle
<1>2. Running
  BY <1>1, ProgramRuns
<1>3. obj_words(t, n) \in Nat
  <2>1. obj_bytes(t, n) \in Nat /\ obj_bytes(t, n) >= 8
    BY DEF obj_bytes, DATA_HEADER_SZ, MEMBER_SIZE, lama_type
  <2> QED BY <2>1 DEF obj_words, BYTES_TO_WORDS, WORD_BYTES
<1>4. req' \in [op: {req'.op}, type: lama_type, len: Nat, size: Nat] /\ cur_id' \in Nat
  BY <1>1, <1>2, <1>3 DEF Running
<1>5. CleanRoots'
  <2>1. references(DOMAIN mem)' = references(DOMAIN mem) /\ references(DOMAIN mem) \subseteq Nat
    BY <1>1 DEF references, outside
  <2>2. ASSUME NEW i \in DOMAIN extra' PROVE cell_word(extra[i])' \in references(DOMAIN mem)
    <3>1. extra'[i] \in {"local"} \X DOMAIN locals'
      OBVIOUS
    <3>2. extra'[i][1] = "local" /\ extra'[i][2] \in DOMAIN locals'
      BY <3>1
    <3>3. cell_word(extra[i])' = locals'[extra'[i][2]]
      BY <3>2 DEF cell_word
    <3> QED BY <3>2, <3>3
  <2>3. roots_in(references(DOMAIN mem))'
    BY <1>2, <2>1, <2>2 DEF Running, roots_in, cells_in
  <2>4. locals' \in [DOMAIN locals' -> Nat]
    BY <2>1
  <2>5. {"local"} \X DOMAIN locals' \subseteq Cell'
    BY DEF Cell
  <2>6. extra' \in Seq(Cell')
    BY <2>5, SeqGrows
  <2> QED BY <2>3, <2>4, <2>6 DEF CleanRoots
<1>6. fields_in(DOMAIN mem, references(DOMAIN mem))'
  BY <1>1, <1>2 DEF Running, fields_in, references, outside
<1> QED BY <1>1, <1>2, <1>4, <1>5, <1>6, ProgramSound DEF Running, objects

\* The instructions that allocate, and what their requests leave in the roots.
Requests == BARRAY \/ BSEXP \/ BCLOSURE \/ BSTRING \/ LSTRING
requested(R) ==
  /\ \E op : \E t \in lama_type : \E n \in Nat : request(op, t, n)
  /\ statics' = statics /\ stack' \in Seq(R) /\ locals' \in [DOMAIN locals' -> R]
  /\ extra' \in Seq({"local"} \X DOMAIN locals') /\ Len(extra') <= MAX_EXTRA_ROOTS_NUMBER
  /\ \A i, j \in DOMAIN extra' : extra'[i] = extra'[j] => i = j

LEMMA RequestedWords ==
  ASSUME NEW R \in SUBSET Nat, references({}) \subseteq R, stack \in Seq(R), Callers, Requests
  PROVE  requested(R) /\ Callers'
<1>1. pc = "run" /\ pc' = "alloc"
  BY DEF Requests, BARRAY, BSEXP, BCLOSURE, BSTRING, LSTRING, requests, request
<1>2. /\ stack \in Seq(R) /\ Len(stack) \in Nat /\ Len(stack) >= NG /\ NG \in Nat
      /\ extra = << >> /\ locals = << >>
  BY <1>1, ProgramAssumption DEF Callers
<1>3. foreign_addr \in R
  BY PlainWords
<1>4. ASSUME NEW op \in {"BARRAY", "BSEXP", "BCLOSURE"}, NEW t \in lama_type, NEW n \in Nat,
             requests(op, t, n),
             op = "BARRAY" => t = "ARRAY" /\ n <= Len(stack) - NG,
             op = "BSEXP" => t = "SEXP" /\ n <= Len(stack) - NG,
             op = "BCLOSURE" => t = "CLOSURE" /\ n >= 1
      PROVE  requested(R) /\ Callers'
  <2>1. /\ request(op, t, n) /\ stack' = stack /\ statics' = statics
        /\ locals' = << >> /\ extra' = << >> /\ DOMAIN extra' = {}
        /\ req'.op = op /\ req'.type = t /\ req'.len = n
    BY <1>2, <1>4 DEF requests, request
  <2>2. requested(R)
    BY <1>2, <2>1, PoolAssumption DEF requested
  <2> QED BY <1>1, <1>2, <1>4, <2>1, <2>2 DEF Callers
<1>5. CASE BARRAY \/ BSEXP \/ BCLOSURE
  <2>1. PICK n \in 0 .. MaxLen : \/ requests("BARRAY", "ARRAY", n) /\ has_operands(n)
                                 \/ requests("BSEXP", "SEXP", n) /\ has_operands(n)
                                 \/ requests("BCLOSURE", "CLOSURE", n + 1)
    BY <1>5 DEF BARRAY, BSEXP, BCLOSURE
  <2>2. n \in Nat /\ n + 1 \in Nat /\ n + 1 >= 1 /\ {"ARRAY", "SEXP", "CLOSURE"} \subseteq lama_type
    BY ProgramAssumption DEF lama_type
  <2>3. has_operands(n) => n <= Len(stack) - NG
    BY <1>2, <2>2 DEF has_operands
  <2> QED BY <1>4, <2>1, <2>2, <2>3
<1>6. ASSUME NEW op \in {"BSTRING", "LSTRING"}, NEW s \in Strings, request(op, "STRING", Len(s)),
             statics' = statics, stack' \in Seq(R), Len(stack') >= NG,
             locals' \in [DOMAIN locals' -> R],
             extra' \in Seq({"local"} \X DOMAIN locals'), Len(extra') <= MAX_EXTRA_ROOTS_NUMBER,
             \A i, j \in DOMAIN extra' : extra'[i] = extra'[j] => i = j
      PROVE  requested(R) /\ Callers'
  <2>1. Len(s) \in Nat /\ "STRING" \in lama_type
    BY ProgramAssumption DEF lama_type
  <2>2. requested(R)
    BY <1>6, <2>1 DEF requested
  <2>3. req'.op = op /\ req'.type = "STRING"
    BY <1>6 DEF request
  <2> QED BY <1>1, <1>6, <2>2, <2>3 DEF Callers
<1>7. CASE BSTRING
  <2> PICK s \in Strings : /\ request("BSTRING", "STRING", Len(s))
                           /\ locals' = [Bstring_p |-> foreign_addr]
                           /\ extra' = pushed_roots(<< <<"local", "Bstring_p">> >>)
                           /\ UNCHANGED <<stack, statics>>
    BY <1>7 DEF BSTRING
  <2>1. locals' \in [DOMAIN locals' -> R] /\ DOMAIN locals' = {"Bstring_p"}
    BY <1>3
  <2>2. /\ extra' = << <<"local", "Bstring_p">> >>
    BY <1>2 DEF pushed_roots
  <2>3. /\ extra' \in Seq({"local"} \X DOMAIN locals') /\ Len(extra') <= MAX_EXTRA_ROOTS_NUMBER
        /\ \A i, j \in DOMAIN extra' : extra'[i] = extra'[j] => i = j
    <3> PICK S : S = {"local"} \X DOMAIN locals' OBVIOUS
    <3> PICK c : c = <<"local", "Bstring_p">> OBVIOUS
    <3> PICK e : e = extra' OBVIOUS
    <3>1. c \in S
      BY <2>1
    <3>2. e = <<c>>
      BY <2>2
    <3>3. e \in Seq(S) /\ Len(e) = 1 /\ \A i, j \in DOMAIN e : e[i] = e[j] => i = j
      BY ONLY <3>1, <3>2
    <3> QED BY <3>3, PoolAssumption, TwoCellsAssumption
  <2>4. stack' \in Seq(R) /\ Len(stack') >= NG /\ statics' = statics
    BY <1>2
  <2> QED BY <1>6, <2>1, <2>3, <2>4
<1>8. CASE LSTRING
  <2> PICK s \in Strings :
        /\ has_operands(1) /\ request("LSTRING", "STRING", Len(s))
        /\ locals' = [Lstring_p |-> operand(1), Bstring_p |-> foreign_addr]
        /\ extra' = pushed_roots(<< <<"local", "Lstring_p">>, <<"local", "Bstring_p">> >>)
        /\ stack' = popped(1) /\ statics' = statics
    BY <1>8 DEF LSTRING
  <2>1. operand(1) \in R /\ stack' \in Seq(R) /\ Len(stack') >= NG
    <3>1. 1 \in 1 .. Len(stack) /\ 1 \in 0 .. Len(stack) /\ Len(stack) - 1 >= NG
      BY <1>2 DEF has_operands
    <3> QED BY <1>2, <3>1, Operands
  <2>2. locals' \in [DOMAIN locals' -> R] /\ DOMAIN locals' = {"Lstring_p", "Bstring_p"}
    BY <1>3, <2>1
  <2>3. /\ extra' = << <<"local", "Lstring_p">>, <<"local", "Bstring_p">> >>
    BY <1>2 DEF pushed_roots
  <2>4. /\ extra' \in Seq({"local"} \X DOMAIN locals') /\ Len(extra') <= MAX_EXTRA_ROOTS_NUMBER
        /\ \A i, j \in DOMAIN extra' : extra'[i] = extra'[j] => i = j
    <3> PICK S : S = {"local"} \X DOMAIN locals' OBVIOUS
    <3> PICK c : c = <<"local", "Lstring_p">> OBVIOUS
    <3> PICK d : d = <<"local", "Bstring_p">> OBVIOUS
    <3> PICK e : e = extra' OBVIOUS
    <3>1. c \in S /\ d \in S /\ c # d
      BY <2>2
    <3>2. e = <<c, d>>
      BY <2>3
    <3>3. e \in Seq(S) /\ Len(e) = 2 /\ \A i, j \in DOMAIN e : e[i] = e[j] => i = j
      BY ONLY <3>1, <3>2, TwoElements
    <3> QED BY <3>3, PoolAssumption, TwoCellsAssumption
  <2> QED BY <1>6, <2>1, <2>2, <2>4
<1> QED BY <1>5, <1>7, <1>8 DEF Requests

LEMMA RequestsSound ==
  ASSUME Soundness, Callers, Requests
  PROVE  Soundness' /\ Callers'
<1> PICK R : R = references(DOMAIN mem) OBVIOUS
<1>1. pc = "run"
  BY DEF Requests, BARRAY, BSEXP, BCLOSURE, BSTRING, LSTRING, requests, request
<1>2. R \in SUBSET Nat /\ references({}) \subseteq R /\ stack \in Seq(R)
  BY <1>1, ProgramRuns, PlainReferences DEF Running
<1>3. requested(R) /\ Callers'
  BY <1>2, RequestedWords
<1>4. Soundness'
  BY <1>3, RequestSound DEF requested
<1> QED BY <1>3, <1>4

\* After alloc: the operands that the collector has updated in the meantime are
\* popped and the address of the new object is pushed.
LEMMA NewAddress ==
  ASSUME heap.current \in Nat
  PROVE  new_address \in references(DOMAIN mem \cup {heap.current})
<1> PICK at, p : at = heap.current /\ p = new_address OBVIOUS
<1>1. p = at + 8
  BY DEF new_address, get_object_content_ptr, DATA_HEADER_SZ
<1>2. at \in Nat
  OBVIOUS
<1>3. p \in Nat /\ TO_DATA(p) = at
  BY ONLY <1>1, <1>2 DEF TO_DATA, DATA_HEADER_SZ
<1> QED BY <1>3 DEF references

LEMMA ReturnedStack ==
  ASSUME NEW R, NEW P, R \subseteq P, new_address \in P,
         stack \in Seq(R), statics \in Seq(R),
         NEW op, NEW contents, NEW n \in Nat, return(op, contents, n), n <= Len(stack) - NG
  PROVE  /\ allocated(op, contents) /\ pc \in {"alloc", "retry"} /\ pc' = "run"
         /\ DOMAIN mem' = DOMAIN mem \cup {heap.current}
         /\ stack' \in Seq(P) /\ Len(stack') >= NG /\ statics' \in Seq(P)
         /\ locals' = << >> /\ extra' = << >> /\ req' = req /\ cur_id' = cur_id
<1>1. /\ allocated(op, contents) /\ stack' = push(popped(n), new_address) /\ locals' = << >>
      /\ extra' = << >> /\ statics' = statics /\ req' = req /\ cur_id' = cur_id /\ pc' = "run"
      /\ pc \in {"alloc", "retry"} /\ DOMAIN mem' = DOMAIN mem \cup {heap.current}
  BY DEF return, allocated, place_object
<1>2. Len(stack) \in Nat /\ NG \in Nat
  BY ProgramAssumption
<1>3. n \in 0 .. Len(stack) /\ Len(stack) - n >= NG /\ Len(stack) - n \in Nat
  BY <1>2
<1>4. popped(n) \in Seq(R) /\ Len(popped(n)) = Len(stack) - n
  BY <1>3, Operands
<1>5. popped(n) \in Seq(P) /\ Len(popped(n)) \in Nat
  BY <1>3, <1>4, SeqGrows
<1>6. stack' \in Seq(P) /\ Len(stack') = Len(popped(n)) + 1
  BY <1>1, <1>5, Pushing
<1>7. Len(stack') >= NG
  BY <1>2, <1>3, <1>4, <1>6
<1>8. statics' \in Seq(P)
  BY <1>1, SeqGrows
<1> QED BY <1>1, <1>6, <1>7, <1>8

\* What the instructions that allocate fill the new object with.
returned(R) ==
  \E op : \E contents \in Seq(Nat), n \in Nat :
    /\ return(op, contents, n) /\ n <= Len(stack) - NG
    /\ req.type \in {"STRING", "CLOSURE"} => Len(contents) = req.len
    /\ \A i \in first_field(req.type, req.len) .. Len(contents) : contents[i] \in R

LEMMA ReturnedWords ==
  ASSUME ClientTypeOK, NEW R \in SUBSET Nat, stack \in Seq(R), Callers, Return
  PROVE  returned(R)
<1>1. pc \in {"alloc", "retry"}
  BY DEF Return, BARRAY_return, BSEXP_return, BCLOSURE_return, BSTRING_return, LSTRING_return
<1>2. Len(stack) \in Nat /\ NG \in Nat /\ Len(stack) >= NG
  BY ProgramAssumption DEF Callers
<1>3. req.len \in Nat /\ req.type \in lama_type
  BY DEF ClientTypeOK
<1>4. ASSUME NEW n \in Nat, n <= Len(stack) - NG
      PROVE  last_operands(n) \in Seq(R) /\ last_operands(n) \in Seq(Nat)
  <2>1. n \in 0 .. Len(stack)
    BY <1>2, <1>4
  <2>2. last_operands(n) \in Seq(R)
    BY <1>2, <2>1, Operands
  <2> QED BY <1>2, <2>2, SeqGrows
<1>5. CASE BARRAY_return
  <2>1. /\ return("BARRAY", last_operands(req.len), req.len)
        /\ req.op = "BARRAY"
    BY <1>5 DEF BARRAY_return, return, allocated
  <2>2. req.type = "ARRAY" /\ req.len <= Len(stack) - NG
    BY <1>1, <2>1 DEF Callers
  <2> PICK c : c = last_operands(req.len) OBVIOUS
  <2>3. c \in Seq(R) /\ c \in Seq(Nat)
    BY <1>3, <1>4, <2>2
  <2>4. \A i \in first_field(req.type, req.len) .. Len(c) : c[i] \in R
    BY <2>2, <2>3 DEF first_field
  <2> QED BY <1>3, <2>1, <2>2, <2>3, <2>4 DEF returned
<1>6. CASE BSEXP_return
  <2>1. /\ return("BSEXP", <<raw_word>> \o last_operands(req.len), req.len)
        /\ req.op = "BSEXP"
    BY <1>6 DEF BSEXP_return, return, allocated
  <2>2. req.type = "SEXP" /\ req.len <= Len(stack) - NG
    BY <1>1, <2>1 DEF Callers
  <2> PICK s : s = last_operands(req.len) OBVIOUS
  <2> PICK c : c = <<raw_word>> \o s OBVIOUS
  <2>3. c \in Seq(Nat) /\ \A i \in 2 .. Len(c) : c[i] \in R
    BY <1>2, <1>3, <1>4, <2>2, RawWord, Prefixed
  <2>4. first_field(req.type, req.len) = 2
    BY <2>2 DEF first_field
  <2> QED BY <1>3, <2>1, <2>2, <2>3, <2>4 DEF returned
<1>7. CASE BCLOSURE_return
  <2> PICK chosen \in [1 .. (req.len - 1) -> DOMAIN stack] :
        return("BCLOSURE", <<raw_word>> \o [i \in DOMAIN chosen |-> stack[chosen[i]]], 0)
    BY <1>7 DEF BCLOSURE_return
  <2>1. req.op = "BCLOSURE"
    BY DEF return, allocated
  <2>2. req.type = "CLOSURE" /\ req.len >= 1
    BY <1>1, <2>1 DEF Callers
  <2> PICK s : s = [i \in DOMAIN chosen |-> stack[chosen[i]]] OBVIOUS
  <2> PICK c : c = <<raw_word>> \o s OBVIOUS
  <2>3. s \in Seq(R) /\ Len(s) = req.len - 1
    <3> PICK k \in Nat : k = req.len - 1
      BY <1>3, <2>2
    <3>1. DOMAIN chosen = 1 .. k
      OBVIOUS
    <3>2. \A i \in 1 .. k : chosen[i] \in DOMAIN stack
      OBVIOUS
    <3>3. \A j \in DOMAIN stack : stack[j] \in R
      BY <1>2
    <3>4. s = [i \in 1 .. k |-> stack[chosen[i]]]
      BY <3>1
    <3>5. s \in [1 .. k -> R]
      BY <3>2, <3>3, <3>4
    <3>6. s \in Seq(R) /\ Len(s) = k
      BY ONLY <3>5, k \in Nat, FunctionIsSeq
    <3> QED BY <3>6
  <2>4. c \in Seq(Nat) /\ Len(c) = req.len /\ \A i \in 2 .. Len(c) : c[i] \in R
    <3>1. c \in Seq(Nat) /\ Len(c) = 1 + Len(s) /\ \A i \in 2 .. Len(c) : c[i] \in R
      BY <2>3, RawWord, Prefixed
    <3> QED BY <1>3, <2>3, <3>1
  <2>5. first_field(req.type, req.len) = 2
    BY <2>2 DEF first_field
  <2>6. 0 \in Nat /\ 0 <= Len(stack) - NG
    BY <1>2
  <2> QED BY <2>2, <2>4, <2>5, <2>6 DEF returned
<1>8. CASE BSTRING_return \/ LSTRING_return
  <2> PICK s \in Strings : Len(s) = req.len /\ \E op \in {"BSTRING", "LSTRING"} : return(op, s, 0)
    BY <1>8 DEF BSTRING_return, LSTRING_return, c_string
  <2> PICK op \in {"BSTRING", "LSTRING"} : return(op, s, 0)
    OBVIOUS
  <2>1. req.op = op
    BY DEF return, allocated
  <2>2. req.type = "STRING"
    BY <1>1, <2>1 DEF Callers
  <2>3. s \in Seq(Nat)
    BY ProgramAssumption
  <2>4. \A i \in first_field(req.type, req.len) .. Len(s) : s[i] \in R
    <3>1. first_field(req.type, req.len) = Len(s) + 1
      BY <2>2 DEF first_field
    <3> QED BY <1>3, <3>1
  <2>5. 0 \in Nat /\ 0 <= Len(stack) - NG /\ Len(s) = req.len
    BY <1>2, <1>3
  <2> QED BY <2>3, <2>4, <2>5 DEF returned
<1> QED BY <1>5, <1>6, <1>7, <1>8 DEF Return

LEMMA ReturnSound ==
  ASSUME Structure, Soundness, Callers, Return PROVE Soundness' /\ Callers'
<1> PICK R : R = references(DOMAIN mem) OBVIOUS
<1> PICK P : P = references(DOMAIN mem \cup {heap.current}) OBVIOUS
<1>1. pc \in {"alloc", "retry"} /\ gc_idle /\ ClientTypeOK /\ Clean /\ Places
  BY PlacesOf DEF Return, BARRAY_return, BSEXP_return, BCLOSURE_return, BSTRING_return,
     LSTRING_return, gc_idle, Soundness, Typed
<1>2. R \in SUBSET Nat /\ R \subseteq P /\ new_address \in P
  BY <1>1, PlainReferences, ReferencesGrow, NewAddress DEF Places
<1>3. stack \in Seq(R) /\ statics \in Seq(R)
  <2>1. roots_in(R)
    BY <1>1 DEF Clean
  <2> QED BY <2>1 DEF roots_in
<1>4. returned(R)
  BY <1>1, <1>2, <1>3, ReturnedWords
<1> PICK op : \E contents \in Seq(Nat), n \in Nat :
      /\ return(op, contents, n) /\ n <= Len(stack) - NG
      /\ req.type \in {"STRING", "CLOSURE"} => Len(contents) = req.len
      /\ \A i \in first_field(req.type, req.len) .. Len(contents) : contents[i] \in R
  BY <1>4 DEF returned
<1> PICK contents \in Seq(Nat), n \in Nat :
      /\ return(op, contents, n) /\ n <= Len(stack) - NG
      /\ req.type \in {"STRING", "CLOSURE"} => Len(contents) = req.len
      /\ \A i \in first_field(req.type, req.len) .. Len(contents) : contents[i] \in R
  OBVIOUS
<1>5. /\ allocated(op, contents) /\ pc' = "run"
      /\ DOMAIN mem' = DOMAIN mem \cup {heap.current}
      /\ stack' \in Seq(P) /\ Len(stack') >= NG /\ statics' \in Seq(P)
      /\ locals' = << >> /\ extra' = << >> /\ req' = req /\ cur_id' = cur_id
  BY <1>2, <1>3, ReturnedStack
<1>6. P = references(DOMAIN mem')
  BY <1>5
<1>7. CleanRoots'
  BY <1>5, <1>6, PoolAssumption DEF CleanRoots, roots_in, cells_in, references, outside
<1>8. \A i \in first_field(req.type, req.len) .. Len(contents) : contents[i] \in references(DOMAIN mem')
  BY <1>2, <1>6
<1>9. Soundness'
  BY <1>5, <1>7, <1>8, AllocatedSound
<1> QED BY <1>5, <1>9 DEF Callers

-------------------------------------------------------------------------------
(* The invariant and what it implies *)

\* The request that the collector answers stays, and so do the operands for it.
LEMMA CollectorCallers ==
  ASSUME Structure, Soundness, Callers, CollectStep PROVE Callers'
<1>1. pc \notin {"run", "failed"} /\ pc' \notin {"run", "failed"} /\ req' = req
      /\ DOMAIN stack' = DOMAIN stack /\ extra' = extra
  BY CollectorKeeps DEF marking, compacting
<1>2. stack \in Seq(Nat) /\ stack' \in Seq(Nat)
  BY CollectorSound DEF Soundness, Typed, ClientTypeOK, Word
<1>3. Len(stack') = Len(stack)
  BY <1>1, <1>2, SameLength
<1> QED BY <1>1, <1>3 DEF Callers

Sound == Structure /\ Soundness /\ Callers

\* The interpreter starts with boxed zeros in the globals.
LEMMA InitSound == ASSUME Init PROVE Sound
<1>1. Structure
  BY InitStructure
<1>2. /\ GcInit /\ stack = [i \in 1 .. NG |-> BOX(0)] /\ statics = <<0>> /\ cur_id \in Nat
      /\ req = [op |-> "none", type |-> "ARRAY", len |-> 0, size |-> 0]
      /\ extra = << >> /\ locals = << >> /\ pc = "run"
  BY DEF Init, GcInit
<1>3. stack \in Seq(references({})) /\ Len(stack) = NG
  <2>1. BOX(0) \in references({}) /\ NG \in Nat
    BY PlainWords, ProgramAssumption
  <2>2. stack = [i \in 1 .. NG |-> stack[i]] /\ \A i \in 1 .. NG : stack[i] \in references({})
    BY <1>2, <2>1
  <2> QED BY <2>1, <2>2, FunctionIsSeq
<1>4. statics \in Seq(references({}))
  <2>1. 0 \in references({})
    BY PlainWords
  <2> QED BY <1>2, <2>1
<1>5. Soundness
  BY <1>2, <1>3, <1>4, GcInitSound DEF roots_in, cells_in
<1>6. Callers
  BY <1>2, <1>3, ProgramAssumption DEF Callers
<1> QED BY <1>1, <1>5, <1>6 DEF Sound

\* Every step preserves it, in a program without LDA_C.
LEMMA StepSound ==
  ASSUME NoInteriorAddresses, Sound, [Next]_vars PROVE Sound'
<1>1. Structure /\ Soundness /\ Callers /\ Structure'
  BY StepStructure DEF Sound
<1>2. CASE Instruction
  <2>1. ~LDA_C
    BY DEF NoInteriorAddresses, LDA_C, runs
  <2>2. \/ MovesWords \/ ST_C \/ STA \/ STA_captured
        \/ ELEM_fail \/ STA_fail \/ LLENGTH_fail \/ PATT_str_fail
        \/ BARRAY \/ BSEXP \/ BCLOSURE \/ BSTRING \/ LSTRING
    BY <1>2, <2>1 DEF Instruction, MovesWords
  <2>3. Soundness' /\ Callers'
    BY <1>1, <2>2, MovesWordsSound, StoresSound, FailureSound, RequestsSound
       DEF StoresWord, Requests
  <2> QED BY <1>1, <2>3 DEF Sound
<1>3. CASE Return
  BY <1>1, <1>3, ReturnSound DEF Sound
<1>4. CASE CollectStep
  BY <1>1, <1>4, CollectorSound, CollectorCallers DEF Sound
<1>5. CASE UNCHANGED vars
  <2>1. UNCHANGED gcVars /\ UNCHANGED cur_id
    BY <1>5 DEF vars, clientVars
  <2>2. Soundness'
    BY <1>1, <2>1, StutteringSound
  <2>3. Callers'
    BY <1>1, <2>1 DEF gcVars, Callers
  <2> QED BY <1>1, <2>2, <2>3 DEF Sound
<1> QED BY <1>2, <1>3, <1>4, <1>5 DEF Next, Exited

\* The invariant holds in every reachable state of such a program.
THEOREM SoundHolds == ASSUME NoInteriorAddresses PROVE Spec => []Sound
<1>1. Init => Sound
  BY InitSound
<1>2. Sound /\ [Next]_vars => Sound'
  BY StepSound
<1> QED BY <1>1, <1>2, PTL DEF Spec

\* Outside of a collection, and so whenever the program runs, every word of the
\* stack, of the registered cells and of the fields of any object that looks
\* like a heap pointer is the address of an object: no collection loses an
\* object or leaves a word behind that still points at its old place.
THEOREM NoDanglingPointersHolds ==
  ASSUME NoInteriorAddresses PROVE Spec => []NoDanglingPointers
<1>1. Sound => NoDanglingPointers
  BY SoundnessImplies DEF Sound
<1> QED BY <1>1, SoundHolds, PTL

\* The comments of mark() about its queue hold in every state of mark(): each
\* object waits in it at most once, unmarked, with its enqueued bit set, and the
\* slots never run out.
THEOREM QueueInvariantHolds ==
  ASSUME NoInteriorAddresses PROVE Spec => []QueueInvariant
<1>1. Sound => QueueInvariant
  BY SoundnessImplies DEF Sound
<1> QED BY <1>1, SoundHolds, PTL

\* Whenever the program runs, both bits of every forward_address are clear.
THEOREM BitsClearHolds ==
  ASSUME NoInteriorAddresses PROVE Spec => []BitsClearOutsideCollection
<1>1. Sound => BitsClearOutsideCollection
  BY SoundnessImplies DEF Sound
<1> QED BY <1>1, SoundHolds, PTL

\* Every variable has its type, the globals stay on the stack, and the pool of
\* extra roots never overflows.
THEOREM InterpTypeOK ==
  ASSUME NoInteriorAddresses PROVE Spec => []TypeOK
<1>1. Sound => TypeOK
  BY SoundnessImplies DEF Sound, TypeOK, Callers
<1> QED BY <1>1, SoundHolds, PTL

\* The comments of mark() and of scan_extra_roots hold of a program without
\* LDA_C: what looks like a heap pointer is the contents of an object.
THEOREM MarkedRootsAreContentsHolds ==
  ASSUME NoInteriorAddresses PROVE Spec => []MarkedRootsAreContents
<1>1. Sound => MarkedRootsAreContents
  BY SoundnessImplies DEF Sound, NoDanglingPointers, MarkedRootsAreContents, gc_idle
<1> QED BY <1>1, SoundHolds, PTL

\* What an instruction does next.
LEMMA MovesWordsRun == ASSUME MovesWords PROVE pc = "run" /\ pc' = "run"
<1>1. ASSUME stack_only, pc = "run" PROVE pc' = "run"
  BY <1>1 DEF stack_only
<1>2. \A op : runs(op) => pc = "run"
  BY DEF runs
<1>3. CASE CONST \/ DROP \/ DUP \/ LD \/ ST \/ LDA
  BY <1>1, <1>2, <1>3 DEF CONST, DROP, DUP, LD, ST, LDA
<1>4. CASE STA_ref \/ LWRITE \/ LD_C
  BY <1>1, <1>2, <1>4 DEF STA_ref, LWRITE, LD_C
<1>5. CASE ELEM \/ LLENGTH \/ BINOP \/ LREAD
  BY <1>1, <1>2, <1>5 DEF ELEM, LLENGTH, BINOP, LREAD
<1>6. CASE TAG \/ ARRAY \/ PATT \/ PATT_str
  BY <1>1, <1>2, <1>6 DEF TAG, ARRAY, PATT, PATT_str, TAG_or_ARRAY
<1> QED BY <1>3, <1>4, <1>5, <1>6 DEF MovesWords

LEMMA InstructionRuns ==
  ASSUME Instruction PROVE pc = "run" /\ pc' \in {"run", "failed", "alloc"}
<1>1. \A op : runs(op) => pc = "run"
  BY DEF runs
<1>2. CASE LDA_C
  BY <1>1, <1>2 DEF LDA_C, stack_only
<1>3. CASE STA_captured \/ ST_C \/ STA
  BY <1>1, <1>3 DEF STA_captured, ST_C, STA
<1>4. CASE ELEM_fail \/ STA_fail \/ LLENGTH_fail \/ PATT_str_fail
  BY <1>1, <1>4 DEF ELEM_fail, STA_fail, LLENGTH_fail, PATT_str_fail, failure
<1>5. CASE BARRAY \/ BSEXP \/ BCLOSURE \/ BSTRING \/ LSTRING
  BY <1>5 DEF BARRAY, BSEXP, BCLOSURE, BSTRING, LSTRING, requests, request
<1> QED BY <1>2, <1>3, <1>4, <1>5, MovesWordsRun DEF Instruction, MovesWords

\* No instruction runs while the collector marks.
LEMMA ProgramReached == ASSUME Instruction \/ Return PROVE Reached'
<1>1. CASE Return
  <2>1. pc' = "run"
    BY <1>1 DEF Return, BARRAY_return, BSEXP_return, BCLOSURE_return, BSTRING_return,
                LSTRING_return, return, allocated, place_object
  <2> QED BY <2>1 DEF Reached, marking
<1>2. CASE Instruction
  <2>1. pc' \in {"run", "failed", "alloc"}
    BY <1>2, InstructionRuns
  <2> QED BY <2>1 DEF Reached, marking
<1> QED BY <1>1, <1>2

LEMMA StepReached == ASSUME Sound, Reached, [Next]_vars PROVE Reached'
<1>1. CASE CollectStep
  BY <1>1, CollectReached DEF Sound
<1>2. CASE UNCHANGED vars
  BY <1>2, StutteringReached DEF Sound, vars
<1> QED BY <1>1, <1>2, ProgramReached DEF Next, Exited

\* mark_phase marks exactly the objects that the roots reach, through fields of
\* objects, when it starts: nothing live is dropped, and no garbage is kept.
THEOREM MarkedAreReachableHolds ==
  ASSUME NoInteriorAddresses PROVE Spec => []MarkedAreReachable
<1>1. Init => Sound /\ Reached
  BY InitSound DEF Init, GcInit, Reached, marking
<1>2. Sound /\ Reached => MarkedAreReachable
  BY MarkedIsLive DEF Sound
<1>3. Sound /\ Reached /\ [Next]_vars => (Sound /\ Reached)'
  BY StepSound, StepReached
<1> QED BY <1>1, <1>2, <1>3, PTL DEF Spec

-------------------------------------------------------------------------------
(* Identity *)

LEMMA InstructionIdentity ==
  ASSUME Soundness, Callers, Identity, Instruction PROVE Identity'
<1>1. pc = "run" /\ Numbered
  BY DEF Instruction, Identity, CONST, DROP, DUP, LD, ST, LDA, STA_ref, STA_captured, LWRITE, LD_C,
     ST_C, LDA_C, ELEM, ELEM_fail, STA, STA_fail, LLENGTH, LLENGTH_fail, BINOP, LREAD, TAG, ARRAY,
     PATT, PATT_str, PATT_str_fail, BARRAY, BSEXP, BCLOSURE, BSTRING, LSTRING, requests, request,
     runs
<1>2. objects(mem) /\ cur_id \in Nat /\ Running
  BY <1>1, ProgramRuns DEF Running
<1>3. ASSUME stack_only \/ failure PROVE Identity'
  <2>1. mem' = mem /\ cur_id' = cur_id /\ pc' \in {"run", "failed"}
    BY <1>1, <1>3 DEF stack_only, failure
  <2> QED BY <1>1, <1>2, <2>1, SameObjectsNumbered, IdleIdentity
<1>4. ASSUME NEW op, NEW t, NEW n, request(op, t, n) PROVE Identity'
  <2>1. mem' = mem /\ cur_id' = cur_id + 1 /\ pc' = "alloc"
    BY <1>4 DEF request
  <2> QED BY <1>1, <1>2, <2>1, SameObjectsNumbered, IdleIdentity
<1>5. ASSUME NEW a \in DOMAIN mem, NEW i, NEW v, mem' = [mem EXCEPT ![a].words[i] = v],
             cur_id' = cur_id, pc' = pc
      PROVE  Identity'
  <2>1. mem[a] \in Object
    BY <1>2 DEF objects
  <2>2. DOMAIN mem' = DOMAIN mem /\ mem'[a].id = mem[a].id /\ \A b \in DOMAIN mem \ {a} : mem'[b] = mem[b]
    BY <1>5, <2>1 DEF Object
  <2>3. \A b \in DOMAIN mem : mem'[b].id = mem[b].id
    BY <2>2
  <2> QED BY <1>1, <1>2, <1>5, <2>2, <2>3, SameObjectsNumbered, IdleIdentity
<1>6. CASE \/ MovesWords \/ LDA_C \/ ELEM_fail \/ STA_fail \/ LLENGTH_fail \/ PATT_str_fail
  <2>1. stack_only \/ failure
    BY <1>6 DEF MovesWords, CONST, DROP, DUP, LD, ST, LDA, STA_ref, LWRITE, LD_C, LDA_C, ELEM,
       LLENGTH, BINOP, LREAD, TAG, ARRAY, TAG_or_ARRAY, PATT, PATT_str, ELEM_fail, STA_fail,
       LLENGTH_fail, PATT_str_fail
  <2> QED BY <1>3, <2>1
<1>7. CASE ST_C \/ STA \/ STA_captured
  <2>1. cur_id' = cur_id /\ pc' = pc
    BY <1>7 DEF ST_C, STA, STA_captured
  <2>2. CASE ST_C
    <3>1. PICK j \in DOMAIN stack : /\ is_closure(stack[j])
                                    /\ \E i \in captured(object_at(stack[j])) :
                                         mem' = [mem EXCEPT ![TO_DATA(stack[j])].words[i] = operand(1)]
      BY <2>2 DEF ST_C
    <3>2. TO_DATA(stack[j]) \in DOMAIN mem
      BY <3>1 DEF is_closure, is_object
    <3> QED BY <1>5, <2>1, <3>1, <3>2
  <2>3. CASE STA_captured
    <3>1. PICK a \in DOMAIN mem :
            \E i \in DOMAIN mem[a].words : mem' = [mem EXCEPT ![a].words[i] = operand(1)]
      BY <2>3 DEF STA_captured
    <3> QED BY <1>5, <2>1, <3>1
  <2>4. CASE STA
    <3>1. PICK a : a = TO_DATA(operand(3))
      OBVIOUS
    <3>2. PICK i : i = member(mem[a], UNBOX(operand(2)))
      OBVIOUS
    <3>3. PICK v : v = IF mem[a].type = "STRING" THEN UNBOX(operand(1)) % 256 ELSE operand(1)
      OBVIOUS
    <3>4. a \in DOMAIN mem /\ mem' = [mem EXCEPT ![a].words[i] = v]
      BY <2>4, <3>1, <3>2, <3>3 DEF STA, is_object, object_at
    <3> QED BY <1>5, <2>1, <3>4
  <2> QED BY <1>7, <2>2, <2>3, <2>4
<1>8. CASE BARRAY \/ BSEXP \/ BCLOSURE \/ BSTRING \/ LSTRING
  <2>1. \E op, t, n : request(op, t, n)
    BY <1>8 DEF BARRAY, BSEXP, BCLOSURE, BSTRING, LSTRING, requests
  <2> QED BY <1>4, <2>1
<1> QED BY <1>6, <1>7, <1>8 DEF Instruction, MovesWords

\* The new object has the number that the request counted.
LEMMA ReturnIdentity ==
  ASSUME Structure, Soundness, Identity, Return PROVE Identity'
<1>1. PICK op, contents : /\ allocated(op, contents) /\ cur_id' = cur_id
                          /\ pc \in {"alloc", "retry"}
  BY DEF Return, BARRAY_return, BSEXP_return, BCLOSURE_return, BSTRING_return, LSTRING_return, return
<1> PICK o : o = new_object(contents) OBVIOUS
<1>2. place_object(o) /\ o.id = cur_id
  BY <1>1 DEF allocated, new_object
<1> QED BY <1>1, <1>2, PlacedIdentity

LEMMA InitIdentity == ASSUME Init PROVE Sound /\ Reached /\ Identity
<1>1. pc = "run" /\ DOMAIN mem = {}
  BY DEF Init, GcInit
<1>2. Identity
  BY <1>1 DEF Identity, Numbered, distinct, Rooted, Unchanged, Kept, DumpsAgree,
              GarbageReclaimedInOrder, gc_idle, marking
<1> QED BY <1>1, <1>2, InitSound DEF Reached, marking

\* Every step preserves Identity, in a program without LDA_C.
LEMMA StepIdentity ==
  ASSUME NoInteriorAddresses, Sound, Reached, Identity, [Next]_vars PROVE Identity'
<1>1. Structure /\ Soundness /\ Callers /\ Structure' /\ Soundness'
  BY StepSound DEF Sound
<1> QED BY <1>1, InstructionIdentity, ReturnIdentity, CollectorIdentity, StutteringIdentity
        DEF Next, Exited, vars

\* No collection changes what the program can see: when alloc retries, the stack
\* and the graph of the objects that it reaches are those that gc_alloc dumped
\* before it marked, object for object and word for word.
THEOREM DumpsAgreeHolds ==
  ASSUME NoInteriorAddresses PROVE Spec => []DumpsAgree
<1>1. Init => Sound /\ Reached /\ Identity
  BY InitIdentity
<1>2. Sound /\ Reached /\ Identity => DumpsAgree
  BY DEF Identity
<1>3. Sound /\ Reached /\ Identity /\ [Next]_vars => (Sound /\ Reached /\ Identity)'
  BY StepSound, StepReached, StepIdentity
<1> QED BY <1>1, <1>2, <1>3, PTL DEF Spec

\* A collection leaves exactly the objects that were live when it started, in
\* the order they had, and nothing else in the heap.
THEOREM GarbageReclaimedInOrderHolds ==
  ASSUME NoInteriorAddresses PROVE Spec => []GarbageReclaimedInOrder
<1>1. Init => Sound /\ Reached /\ Identity
  BY InitIdentity
<1>2. Sound /\ Reached /\ Identity => GarbageReclaimedInOrder
  BY DEF Identity
<1>3. Sound /\ Reached /\ Identity /\ [Next]_vars => (Sound /\ Reached /\ Identity)'
  BY StepSound, StepReached, StepIdentity
<1> QED BY <1>1, <1>2, <1>3, PTL DEF Spec

-------------------------------------------------------------------------------
(* Refinement: every step of the collector is a stutter of the object graph *)

LEMMA CollectorStutters ==
  ASSUME Identity, Identity', CollectStep PROVE UNCHANGED <<abs_roots, abs_graph>>
BY CollectorShows DEF abs_roots, abs_graph, collecting, shown_roots, shown_graph

\* The program's object graph is the same before and after every step of
\* mark_phase and compact_phase, also of those that have moved some objects only.
THEOREM CollectorStuttersHolds ==
  ASSUME NoInteriorAddresses
  PROVE  Spec => [][CollectStep => UNCHANGED <<abs_roots, abs_graph>>]_vars
<1>1. Init => Sound /\ Reached /\ Identity
  BY InitIdentity
<1>2. Sound /\ Reached /\ Identity /\ [Next]_vars => (Sound /\ Reached /\ Identity)'
  BY StepSound, StepReached, StepIdentity
<1>3. Sound /\ Identity /\ Identity' /\ [Next]_vars
        => [CollectStep => UNCHANGED <<abs_roots, abs_graph>>]_vars
  BY CollectorStutters
<1> QED BY <1>1, <1>2, <1>3, PTL DEF Spec
-------------------------------------------------------------------------------
(* The live part of a graph, as the abstract specification has it *)

LEMMA GraphValues == ASSUME NEW vs PROVE Graph!refs(Graph!range(vs)) = refs_of(vs)
BY DEF Graph!refs, Graph!range, refs_of

LEMMA SameLivePart ==
  ASSUME NEW g, NEW rs PROVE Graph!live_part(g, rs) = Objects!live_part(g, rs)
BY DEF Graph!live_part, Graph!reachable, Graph!successors, Graph!refs, Graph!range,
   Graph!Cardinality, Objects!live_part, Objects!reachable, Objects!successors, Objects!refs,
   Objects!range, Objects!Cardinality

LEMMA GraphLivePart ==
  ASSUME NEW rs, NEW h, whole(rs, h), NEW g, IsFiniteSet(DOMAIN g), closed_graph(g),
         refs_of(rs) \subseteq DOMAIN g, \A d \in DOMAIN g \cap DOMAIN h : h[d] = g[d]
  PROVE  h = Graph!live_part(g, rs)
BY LivePart, SameLivePart

LEMMA ObjectAdded ==
  ASSUME NEW g, NEW h, NEW rs, NEW ro, NEW d \in DOMAIN h, d \notin DOMAIN g,
         whole(ro, g), whole(rs, h), DOMAIN h \subseteq DOMAIN g \cup {d},
         \A e \in DOMAIN g \cap DOMAIN h : h[e] = g[e]
  PROVE  h = Graph!live_part(with_object(g, d, h[d]), rs)
BY GraphExtended, SameLivePart

-------------------------------------------------------------------------------
(* Steps that make no object *)

\* Objects that are written to are none of those that stay alive; the roots get
\* words only that point at live objects, if at any.
LEMMA GraphMoves ==
  ASSUME View, View', gc_idle, gc_idle', heap' = heap, DOMAIN mem' = DOMAIN mem,
         \A a \in DOMAIN mem : mem'[a].id = mem[a].id,
         \A a \in live_objects' : mem'[a] = mem[a],
         NEW L, L = live_objects, roots_in(references(L))'
  PROVE  Graph!Move
<1> PICK g : g = now_graph OBVIOUS
<1> PICK h : h = now_graph' OBVIOUS
<1> PICK rs : rs = now_roots' OBVIOUS
<1> PICK M : M = live_objects' OBVIOUS
<1>1. /\ L \subseteq DOMAIN mem /\ whole(now_roots, g) /\ DOMAIN g = {mem[a].id : a \in L}
      /\ \A a \in L : g[mem[a].id] = abs_object(mem[a])
  BY DEF View
<1>2. /\ M \subseteq DOMAIN mem /\ whole(rs, h) /\ DOMAIN h = {mem'[a].id : a \in M}
      /\ \A a \in M : h[mem'[a].id] = abs_object(mem[a])'
      /\ \A O \in SUBSET DOMAIN mem :
           roots_in(references(O))' => refs_of(rs) \subseteq {mem'[a].id : a \in O}
      /\ \A a, b \in DOMAIN mem : mem'[a].id = mem'[b].id => a = b
  BY DEF View, distinct, references, outside
<1>3. refs_of(rs) \subseteq DOMAIN g
  BY <1>1, <1>2
<1>4. ASSUME NEW d \in DOMAIN g \cap DOMAIN h PROVE h[d] = g[d]
  <2>1. PICK a \in L : d = mem[a].id
    BY <1>1
  <2>2. PICK b \in M : d = mem'[b].id
    BY <1>2
  <2>3. a = b
    BY <1>1, <1>2, <2>1, <2>2
  <2>4. abs_object(mem[a])' = abs_object(mem[a])
    <3>1. mem'[a] = mem[a]
      BY <2>2, <2>3
    <3>2. \A p : abs_word(p)' = abs_word(p)
      BY StableValues
    <3> QED BY <3>1, <3>2 DEF abs_object, abs_words, fields
  <2> QED BY <1>1, <1>2, <2>1, <2>2, <2>3, <2>4
<1>5. h = Graph!live_part(g, rs)
  <2>1. whole(rs, h) /\ IsFiniteSet(DOMAIN g) /\ closed_graph(g)
    BY <1>1, <1>2 DEF whole
  <2> QED BY ONLY <1>3, <1>4, <2>1, GraphLivePart
<1>6. abs_graph = g /\ abs_graph' = h /\ abs_roots' = rs
  BY DEF abs_graph, abs_roots, collecting
<1>7. Graph!known(rs)
  BY <1>3, <1>6, GraphValues DEF Graph!known
<1> QED BY <1>5, <1>6, <1>7 DEF Graph!Move

\* Instructions that move words move references.
LEMMA MovesWordsMove ==
  ASSUME View, View', Callers, pc = "run", pc' = "run", MovesWords
  PROVE  Graph!Move
<1> PICK L : L = live_objects OBVIOUS
<1>1. /\ L \in SUBSET DOMAIN mem /\ objects(mem) /\ fields_in(L, references(L))
      /\ roots_in(references(L)) /\ \A p \in Nat : is_object(p) => ~outside(p)
      /\ live_objects' \subseteq DOMAIN mem'
  BY DEF View
<1>2. stack \in Seq(references(L)) /\ statics \in Seq(references(L)) /\ Len(stack) >= NG
      /\ extra = << >>
  BY <1>1 DEF roots_in, Callers
<1>3. \A p \in references(L) : is_object(p) => TO_DATA(p) \in L
  BY <1>1 DEF references
<1>4. stack_only /\ stack' \in Seq(references(L))
  <2> PICK R : R = references(L) OBVIOUS
  <2>1. R \in SUBSET Nat /\ references({}) \subseteq R
    BY PlainReferences
  <2> QED BY <1>1, <1>2, <1>3, <2>1, MovedWords
<1>5. gc_idle /\ gc_idle' /\ heap' = heap /\ mem' = mem /\ extra' = << >> /\ statics' = statics
  BY <1>2, <1>4 DEF gc_idle, stack_only
<1>6. roots_in(references(L))'
  BY <1>2, <1>4, <1>5 DEF roots_in, cells_in, references, outside
<1> QED BY <1>5, <1>6, GraphMoves

\* failure() moves none.
LEMMA FailureMoves ==
  ASSUME View, View', Callers, pc = "run", failure
  PROVE  Graph!Move
<1> PICK L : L = live_objects OBVIOUS
<1>1. roots_in(references(L)) /\ extra = << >>
  BY DEF View, Callers
<1>2. gc_idle /\ gc_idle' /\ heap' = heap /\ mem' = mem /\ extra' = << >> /\ statics' = statics
      /\ stack' = stack
  BY <1>1 DEF gc_idle, failure
<1>3. roots_in(references(L))'
  BY <1>1, <1>2 DEF roots_in, cells_in, references, outside
<1> QED BY <1>2, <1>3, GraphMoves

\* A request registers words of the roots, or words that are no references.
LEMMA RequestMoves ==
  ASSUME View, View', Callers, pc = "run", BARRAY \/ BSEXP \/ BCLOSURE \/ BSTRING \/ LSTRING
  PROVE  Graph!Move
<1> PICK L : L = live_objects OBVIOUS
<1> PICK R : R = references(L) OBVIOUS
<1>1. roots_in(R) /\ extra = << >>
  BY DEF View, Callers
<1>2. stack \in Seq(R) /\ statics \in Seq(R) /\ Len(stack) \in Nat /\ NG \in Nat
  BY <1>1, ProgramAssumption DEF roots_in
<1>3. /\ pc' = "alloc" /\ heap' = heap /\ mem' = mem /\ statics' = statics
  BY DEF BARRAY, BSEXP, BCLOSURE, BSTRING, LSTRING, requests, request
<1>4. stack' \in Seq(R) /\ cells_in(DOMAIN extra, R)'
  <2>1. CASE BARRAY \/ BSEXP \/ BCLOSURE
    <3>1. stack' = stack /\ extra' = << >>
      BY <1>1, <2>1 DEF BARRAY, BSEXP, BCLOSURE, requests
    <3> QED BY <1>2, <3>1 DEF cells_in
  <2>2. CASE BSTRING
    <3>1. stack' = stack /\ locals'.Bstring_p = foreign_addr
          /\ extra' = << <<"local", "Bstring_p">> >>
      BY <1>1, <2>2 DEF BSTRING, pushed_roots
    <3>2. foreign_addr \in R
      BY PlainWords
    <3> QED BY <1>2, <3>1, <3>2 DEF cells_in, cell_word
  <2>3. CASE LSTRING
    <3>1. /\ has_operands(1) /\ stack' = popped(1)
          /\ locals' = [Lstring_p |-> operand(1), Bstring_p |-> foreign_addr]
          /\ extra' = << <<"local", "Lstring_p">>, <<"local", "Bstring_p">> >>
      BY <1>1, <2>3 DEF LSTRING, pushed_roots
    <3>2. operand(1) \in R /\ popped(1) \in Seq(R)
      <4>1. 1 \in 1 .. Len(stack) /\ 1 \in 0 .. Len(stack)
        BY <1>2, <3>1 DEF has_operands
      <4> QED BY <1>2, <4>1, Operands
    <3>3. foreign_addr \in R
      BY PlainWords
    <3>4. DOMAIN extra' = {1, 2} /\ cell_word(extra[1])' = operand(1) /\ cell_word(extra[2])' = foreign_addr
      BY <3>1 DEF cell_word
    <3> QED BY <3>1, <3>2, <3>3, <3>4 DEF cells_in
  <2> QED BY <2>1, <2>2, <2>3
<1>5. roots_in(references(L))'
  BY <1>2, <1>3, <1>4 DEF roots_in, cells_in, references, outside
<1>6. gc_idle /\ gc_idle'
  BY <1>3 DEF gc_idle
<1> QED BY <1>3, <1>5, <1>6, GraphMoves

-------------------------------------------------------------------------------
(* Steps that write to an object *)

\* The graph g becomes h when the object d, known to the roots, changes one word.
LEMMA GraphStored ==
  ASSUME NEW g, NEW h, NEW rs, NEW ro, NEW d \in DOMAIN g, NEW i \in DOMAIN g[d].words, NEW x,
         whole(ro, g), whole(rs, h), d \in DOMAIN h,
         h[d] = with_word(g[d], i, x), h[d].words[i] = x,
         \A e \in DOMAIN g \cap DOMAIN h : e # d => h[e] = g[e],
         refs_of(rs) \subseteq DOMAIN g, refs_of(h[d].words) \subseteq DOMAIN g
  PROVE  h = Graph!live_part(written(g, d, i, h[d].words[i]), rs)
<1> PICK g1 : g1 = written(g, d, i, h[d].words[i]) OBVIOUS
<1>1. DOMAIN g1 = DOMAIN g /\ g1[d] = h[d] /\ \A e \in DOMAIN g : e # d => g1[e] = g[e]
  <2>1. g1 = [g EXCEPT ![d].words[i] = x]
    BY DEF written
  <2>2. h[d] = [g[d] EXCEPT !.words[i] = x]
    BY DEF with_word
  <2>3. g1[d] = [g[d] EXCEPT !.words[i] = x]
    BY <2>1
  <2> QED BY <2>1, <2>2, <2>3
<1>2. closed_graph(g1)
  <2>1. ASSUME NEW e \in DOMAIN g, e # d PROVE refs_of(g1[e].words) \subseteq DOMAIN g
    <3>1. refs_of(g[e].words) \subseteq DOMAIN g
      BY DEF whole, closed_graph
    <3> QED BY <1>1, <2>1, <3>1
  <2>2. refs_of(g1[d].words) \subseteq DOMAIN g
    BY <1>1
  <2> QED BY <1>1, <2>1, <2>2 DEF closed_graph
<1>3. IsFiniteSet(DOMAIN g1) /\ refs_of(rs) \subseteq DOMAIN g1
  BY <1>1 DEF whole
<1>4. \A e \in DOMAIN g1 \cap DOMAIN h : h[e] = g1[e]
  BY <1>1
<1>5. whole(rs, h)
  OBVIOUS
<1>6. h = Graph!live_part(g1, rs)
  BY ONLY <1>2, <1>3, <1>4, <1>5, GraphLivePart
<1> QED BY <1>6

\* The object that is written to takes the value of a root, if it stays alive.
LEMMA WordStored ==
  ASSUME View, View', gc_idle, gc_idle', heap' = heap, statics' = statics, extra' = << >>,
         NEW L, L = live_objects, stack' \in Seq(references(L)),
         NEW a \in L, NEW i \in DOMAIN mem[a].words, NEW v \in Nat,
         mem' = [mem EXCEPT ![a].words[i] = v],
         NEW w \in references(L), NEW n \in DOMAIN now_roots, now_roots[n] = abs_word(w),
         mem[a].type # "STRING" => v = w /\ i \in fields(mem[a]),
         mem[a].type = "STRING" => /\ UNBOXED(w) /\ v = UNBOX(w) % 256
                                   /\ fields(mem[a]) = {}
  PROVE  Graph!Move \/ Graph!Store
<1> PICK g : g = now_graph OBVIOUS
<1> PICK h : h = now_graph' OBVIOUS
<1> PICK rs : rs = now_roots' OBVIOUS
<1> PICK M : M = live_objects' OBVIOUS
<1> PICK d : d = mem[a].id OBVIOUS
<1>1. /\ L \subseteq DOMAIN mem /\ whole(now_roots, g) /\ DOMAIN g = {mem[b].id : b \in L}
      /\ \A b \in L : g[mem[b].id] = abs_object(mem[b])
      /\ statics \in Seq(references(L)) /\ objects(mem) /\ fields_in(L, references(L))
  BY DEF View, roots_in
<1>2. /\ M \subseteq DOMAIN mem' /\ whole(rs, h) /\ DOMAIN h = {mem'[b].id : b \in M}
      /\ \A b \in M : h[mem'[b].id] = abs_object(mem[b])'
      /\ \A O \in SUBSET DOMAIN mem' :
           roots_in(references(O))' => refs_of(rs) \subseteq {mem'[b].id : b \in O}
      /\ \A b, c \in DOMAIN mem' : mem'[b].id = mem'[c].id => b = c
      /\ \A O : \A b \in DOMAIN mem' :
           (\A j \in fields(mem'[b]) : mem'[b].words[j] \in references(O))
             => refs_of(abs_object(mem[b])'.words) \subseteq {mem'[c].id : c \in O}
  BY ViewMoved
<1>3. mem[a] \in Object /\ a \in DOMAIN mem
  BY <1>1 DEF objects
<1>4. /\ DOMAIN mem' = DOMAIN mem /\ \A b \in DOMAIN mem : b # a => mem'[b] = mem[b]
      /\ mem'[a].id = d /\ mem'[a].type = mem[a].type /\ mem'[a].len = mem[a].len
      /\ DOMAIN mem'[a].words = DOMAIN mem[a].words /\ fields(mem'[a]) = fields(mem[a])
      /\ \A j \in DOMAIN mem[a].words : mem'[a].words[j] = IF j = i THEN v ELSE mem[a].words[j]
  <2> PICK m : m = mem OBVIOUS
  <2> PICK k : k = mem' OBVIOUS
  <2>1. a \in DOMAIN m /\ m[a] \in Object /\ i \in DOMAIN m[a].words /\ k = [m EXCEPT ![a].words[i] = v]
    BY <1>3
  <2>2. /\ DOMAIN k = DOMAIN m /\ \A b \in DOMAIN m : b # a => k[b] = m[b]
        /\ k[a].id = m[a].id /\ k[a].type = m[a].type /\ k[a].len = m[a].len
        /\ DOMAIN k[a].words = DOMAIN m[a].words /\ fields(k[a]) = fields(m[a])
        /\ \A j \in DOMAIN m[a].words : k[a].words[j] = IF j = i THEN v ELSE m[a].words[j]
    BY ONLY <2>1, v \in Nat, WordReplaced
  <2> QED BY <2>2
<1>5. \A b \in DOMAIN mem : mem'[b].id = mem[b].id
  BY <1>4
<1>6. \A b : abs_object(mem[b])' = abs_object(mem'[b])
  <2>1. \A p : abs_word(p)' = abs_word(p)
    BY <1>4, <1>5, StableValues
  <2>2. ASSUME NEW b PROVE abs_object(mem[b])' = abs_object(mem'[b])
    <3> PICK q : q = mem'[b] OBVIOUS
    <3>1. abs_words(mem[b])' = [j \in DOMAIN q.words |->
            IF j \in fields(q) THEN abs_word(q.words[j]) ELSE <<"word", q.words[j]>>]
      BY <2>1 DEF abs_words, fields
    <3>2. abs_words(mem[b])' = abs_words(q)
      BY <3>1 DEF abs_words
    <3> QED BY <3>2 DEF abs_object
  <2> QED BY <2>2
<1>7. roots_in(references(L))'
  BY <1>1 DEF roots_in, cells_in, references, outside
<1>8. refs_of(rs) \subseteq DOMAIN g
  <2>1. L \in SUBSET DOMAIN mem'
    BY <1>1, <1>4
  <2>2. refs_of(rs) \subseteq {mem'[b].id : b \in L}
    BY ONLY <1>2, <1>7, <2>1
  <2>3. {mem'[b].id : b \in L} = {mem[b].id : b \in L}
    BY ONLY <1>1, <1>5
  <2> QED BY <1>1, <2>2, <2>3
<1>9. CASE a \notin M
  <2>1. \A b \in live_objects' : mem'[b] = mem[b]
    BY <1>2, <1>4, <1>9
  <2> QED BY <1>4, <1>5, <1>7, <2>1, GraphMoves
<1>10. CASE a \in M
  <2> PICK x : x = IF i \in fields(mem[a]) THEN abs_word(v) ELSE <<"word", v>> OBVIOUS
  <2>1. d \in DOMAIN g /\ d \in DOMAIN h
    <3>1. a \in L /\ a \in M /\ mem[a].id = d /\ mem'[a].id = d
      BY <1>4, <1>10
    <3> QED BY ONLY <1>1, <1>2, <3>1
  <2>2. g[d] = abs_object(mem[a]) /\ h[d] = abs_object(mem'[a])
    <3>1. a \in L /\ a \in M /\ mem[a].id = d /\ mem'[a].id = d
      BY <1>4, <1>10
    <3> QED BY ONLY <1>1, <1>2, <1>6, <3>1
  <2>3. /\ h[d] = with_word(g[d], i, x) /\ h[d].words[i] = x
        /\ i \in DOMAIN g[d].words /\ g[d].type = mem[a].type
    <3> PICK o : o = mem[a] OBVIOUS
    <3> PICK q : q = mem'[a] OBVIOUS
    <3>1. one_word(o, q, i, v) /\ shown_in(o, i, v, x)
      BY <1>4 DEF one_word, shown_in
    <3>2. /\ abs_object(q) = with_word(abs_object(o), i, x)
          /\ abs_object(q).words[i] = x
          /\ i \in DOMAIN abs_object(o).words /\ abs_object(o).type = o.type
      BY ONLY <3>1, WordShown
    <3>3. g[d] = abs_object(o) /\ h[d] = abs_object(q) /\ o.type = mem[a].type
      BY <2>2
    <3> QED BY ONLY <3>2, <3>3
  <2>4. ASSUME NEW e \in DOMAIN g \cap DOMAIN h, e # d PROVE h[e] = g[e]
    <3>1. PICK b \in L : e = mem[b].id
      BY <1>1
    <3>2. PICK c \in M : e = mem'[c].id
      BY <1>2
    <3>3. b \in DOMAIN mem' /\ c \in DOMAIN mem' /\ mem'[b].id = e /\ b # a
      BY ONLY <1>1, <1>2, <1>4, <1>5, <2>4, <3>1, <3>2, d = mem[a].id
    <3>4. b = c
      BY ONLY <1>2, <3>2, <3>3
    <3>5. mem'[b] = mem[b]
      BY ONLY <1>1, <1>4, <3>1, <3>3
    <3>6. h[e] = abs_object(mem'[b])
      BY ONLY <1>2, <1>6, <3>2, <3>4
    <3>7. g[e] = abs_object(mem[b])
      BY ONLY <1>1, <3>1
    <3> QED BY ONLY <3>5, <3>6, <3>7
  <2>5. refs_of(h[d].words) \subseteq DOMAIN g
    <3>1. ASSUME NEW j \in fields(mem'[a]) PROVE mem'[a].words[j] \in references(L)
      <4>1. j \in fields(mem[a]) /\ j \in DOMAIN mem[a].words /\ mem[a].type # "STRING"
        BY <1>3, <1>4, FieldsAreWords
      <4>2. mem[a].words[j] \in references(L)
        BY <1>1, <4>1 DEF fields_in
      <4>3. mem'[a].words[j] = IF j = i THEN v ELSE mem[a].words[j]
        BY <1>4, <4>1
      <4> QED BY <4>1, <4>2, <4>3
    <3>2. refs_of(abs_object(mem[a])'.words) \subseteq {mem'[c].id : c \in L}
      <4>1. a \in DOMAIN mem'
        BY <1>3, <1>4
      <4> QED BY ONLY <1>2, <3>1, <4>1
    <3>3. {mem'[c].id : c \in L} = {mem[c].id : c \in L}
      BY ONLY <1>1, <1>5
    <3>4. h[d] = abs_object(mem[a])'
      BY ONLY <1>6, <2>2
    <3> QED BY ONLY <1>1, <3>2, <3>3, <3>4
  <2>6. h = Graph!live_part(written(g, d, i, h[d].words[i]), rs)
    <3>1. whole(now_roots, g) /\ whole(rs, h)
      BY <1>1, <1>2
    <3> QED BY ONLY <1>8, <2>1, <2>3, <2>4, <2>5, <3>1, GraphStored
  <2>7. abs_graph = g /\ abs_graph' = h /\ abs_roots' = rs /\ abs_roots = now_roots
    BY DEF abs_graph, abs_roots, collecting
  <2>8. Graph!known(rs)
    BY <1>8, <2>7, GraphValues DEF Graph!known
  <2>9. PICK u \in Graph!range(now_roots) : u = abs_word(w)
    BY DEF Graph!range
  <2>10. h[d].words[i] = Graph!stored(g[d], u)
    <3>1. CASE mem[a].type = "STRING"
      <4>1. u = <<"word", w>>
        BY <2>9, <3>1 DEF abs_word, is_valid_heap_pointer
      <4>2. x = <<"word", UNBOX(w) % 256>>
        BY <3>1
      <4>3. Graph!stored(g[d], u) = <<"word", Graph!UNBOX(u[2]) % 256>>
        BY <2>3, <3>1 DEF Graph!stored
      <4>4. u[2] = w
        BY <4>1
      <4> QED BY <2>3, <4>2, <4>3, <4>4 DEF Graph!UNBOX, UNBOX
    <3>2. CASE mem[a].type # "STRING"
      <4>1. x = abs_word(w) /\ g[d].type # "STRING"
        BY <2>3, <3>2
      <4> QED BY <2>3, <2>9, <4>1 DEF Graph!stored
    <3> QED BY <3>1, <3>2
  <2>11. Graph!Store
    <3> PICK G : G = abs_graph OBVIOUS
    <3> PICK H : H = abs_graph' OBVIOUS
    <3> PICK A : A = abs_roots OBVIOUS
    <3> PICK B : B = abs_roots' OBVIOUS
    <3> PICK y : y = h[d].words[i] OBVIOUS
    <3>1. /\ G = g /\ H = h /\ A = now_roots /\ B = rs
      BY <2>7
    <3>2. /\ d \in DOMAIN G \cap DOMAIN H /\ i \in DOMAIN G[d].words
          /\ u \in Graph!range(A) /\ y = Graph!stored(G[d], u) /\ y = H[d].words[i]
          /\ H = Graph!live_part(written(G, d, i, y), B)
          /\ Graph!known(B)
      BY ONLY <2>1, <2>3, <2>6, <2>8, <2>9, <2>10, <3>1, y = h[d].words[i]
    <3>3. /\ d \in DOMAIN abs_graph \cap DOMAIN abs_graph' /\ i \in DOMAIN abs_graph[d].words
          /\ u \in Graph!range(abs_roots) /\ abs_graph'[d].words[i] = Graph!stored(abs_graph[d], u)
          /\ abs_graph' = Graph!live_part(written(abs_graph, d, i, abs_graph'[d].words[i]), abs_roots')
          /\ Graph!known(abs_roots')
      BY ONLY <3>2, G = abs_graph, H = abs_graph', A = abs_roots, B = abs_roots'
    <3>4. /\ Graph!known(abs_roots')
          /\ \E dd \in DOMAIN abs_graph \cap DOMAIN abs_graph' : \E ii \in DOMAIN abs_graph[dd].words :
               /\ \E vv \in Graph!range(abs_roots) :
                    abs_graph'[dd].words[ii] = Graph!stored(abs_graph[dd], vv)
               /\ abs_graph' = Graph!live_part(written(abs_graph, dd, ii, abs_graph'[dd].words[ii]),
                                              abs_roots')
      BY ONLY <3>3
    <3> QED BY ONLY <3>4, Zenon DEF Graph!Store, written
  <2> QED BY <2>11
<1> QED BY <1>9, <1>10

\* Without LDA_C no operand is the address of a word inside of an object.
LEMMA NoneCaptured ==
  ASSUME View, Callers, STA_captured PROVE FALSE
<1>1. /\ has_operands(2) /\ ~is_object(operand(2))
      /\ roots_in(references(live_objects)) /\ \A p \in Nat : is_object(p) => ~outside(p)
      /\ live_objects \subseteq DOMAIN mem /\ Places /\ heap.begin \in Bases
  BY DEF View, STA_captured
<1>2. PICK a \in DOMAIN mem : \E i \in DOMAIN mem[a].words :
        operand(2) = get_object_content_ptr(a) + MEMBER_SIZE * (i - 1)
  BY DEF STA_captured
<1>3. PICK i \in DOMAIN mem[a].words : operand(2) = get_object_content_ptr(a) + MEMBER_SIZE * (i - 1)
  BY <1>2
<1>4. i \in Nat /\ i >= 1
  <2>1. mem[a].words \in Seq(Nat)
    BY FieldsAreWords DEF View, objects
  <2> QED BY <2>1
<1>5. operand(2) \in Nat /\ outside(operand(2))
  <2>1. stack \in Seq(references(live_objects)) /\ 2 \in 1 .. Len(stack)
    BY <1>1, ProgramAssumption DEF roots_in, has_operands
  <2>2. operand(2) \in references(live_objects)
    BY <2>1, Operands
  <2> QED BY <1>1, <2>2 DEF references, is_object
<1>6. a \in Nat /\ heap.begin \in Nat /\ heap.begin <= a
  BY <1>1 DEF Places
<1>7. operand(2) = a + 8 + 4 * (i - 1)
  BY <1>3 DEF get_object_content_ptr, MEMBER_SIZE, DATA_HEADER_SZ
<1>8. ~UNBOXED(operand(2))
  <2>1. a + 8 \in Nat /\ TO_DATA(a + 8) = a
    BY <1>6 DEF TO_DATA, DATA_HEADER_SZ
  <2>2. ~outside(a + 8)
    BY <1>1, <2>1 DEF is_object
  <2>3. (a + 8) % 2 # 1
    BY <2>2 DEF outside, UNBOXED
  <2>4. (a + 8 + 4 * (i - 1)) % 2 # 1
    BY ONLY <1>4, <1>6, <2>3
  <2> QED BY <1>7, <2>4 DEF UNBOXED
<1>9. operand(2) < heap.begin
  BY <1>1, <1>5, <1>8 DEF outside
<1> QED BY ONLY <1>4, <1>5, <1>6, <1>7, <1>9

LEMMA StoresMove ==
  ASSUME View, View', Callers, pc = "run", ST_C \/ STA \/ STA_captured,
         \A a \in DOMAIN mem : mem[a].type = "STRING" => Len(mem[a].words) = mem[a].len
  PROVE  Graph!Move \/ Graph!Store
<1> PICK L : L = live_objects OBVIOUS
<1> PICK R : R = references(L) OBVIOUS
<1>1. /\ L \in SUBSET DOMAIN mem /\ objects(mem) /\ fields_in(L, R)
      /\ roots_in(R) /\ \A p \in Nat : is_object(p) => ~outside(p)
      /\ extra = << >> /\ extra \in Seq(Cell)
  BY DEF View, Callers
<1>2. /\ pc' = "run" /\ UNCHANGED <<heap, statics, locals, extra>> /\ has_operands(1)
  <2>1. UNCHANGED <<heap, statics, locals, extra, pc>>
    BY DEF ST_C, STA, STA_captured
  <2>2. Len(stack) \in Nat /\ NG \in Nat
    BY ProgramAssumption DEF View
  <2> QED BY <2>1, <2>2 DEF ST_C, STA, STA_captured, has_operands
<1>3. stack \in Seq(R) /\ Len(stack) \in Nat /\ NG \in Nat
  BY <1>1, ProgramAssumption DEF roots_in
<1>4. /\ \A i \in 1 .. Len(stack) : stack[i] \in R /\ operand(i) \in R
      /\ \A n \in 0 .. Len(stack) : popped(n) \in Seq(R) /\ Len(popped(n)) = Len(stack) - n
  BY <1>3, Operands
<1>5. PICK w \in R : w = operand(1) /\ \E n \in DOMAIN now_roots : now_roots[n] = abs_word(w)
  <2>1. 1 \in 1 .. Len(stack) /\ Len(stack) \in DOMAIN stack
    BY <1>2, <1>3 DEF has_operands
  <2>2. operand(1) = stack[Len(stack)]
    BY <1>3 DEF operand
  <2> QED BY <1>1, <1>4, <2>1, <2>2, StackShown
<1>6. PICK n \in DOMAIN now_roots : now_roots[n] = abs_word(w)
  BY <1>5
<1>7. w \in Nat /\ gc_idle /\ gc_idle' /\ heap' = heap /\ statics' = statics /\ extra' = << >>
  BY <1>1, <1>2 DEF references, gc_idle
<1>8. \A p \in R : is_object(p) => TO_DATA(p) \in L
  BY <1>1 DEF references
<1>9. CASE ST_C
  <2> PICK j \in DOMAIN stack : /\ is_closure(stack[j])
                                /\ \E i \in captured(object_at(stack[j])) :
                                     mem' = [mem EXCEPT ![TO_DATA(stack[j])].words[i] = operand(1)]
    BY <1>9 DEF ST_C
  <2> PICK a : a = TO_DATA(stack[j]) OBVIOUS
  <2> PICK i \in fields(mem[a]) : mem' = [mem EXCEPT ![a].words[i] = w]
    BY <1>5 DEF captured, object_at
  <2>1. a \in L /\ stack' \in Seq(R) /\ mem[a].type = "CLOSURE"
    <3>1. stack[j] \in R /\ is_object(stack[j]) /\ object_at(stack[j]).type = "CLOSURE"
      BY <1>3 DEF is_closure
    <3>2. stack' = stack
      BY <1>9 DEF ST_C
    <3> QED BY <1>3, <1>8, <3>1, <3>2 DEF object_at
  <2>2. i \in DOMAIN mem[a].words
    BY <1>1, <2>1, FieldsAreWords DEF objects
  <2> PICK v : v = w OBVIOUS
  <2>3. /\ mem[a].type # "STRING" => v = w /\ i \in fields(mem[a])
        /\ mem[a].type = "STRING" => UNBOXED(w) /\ v = UNBOX(w) % 256 /\ fields(mem[a]) = {}
        /\ v \in Nat /\ mem' = [mem EXCEPT ![a].words[i] = v]
    BY <1>7, <2>1
  <2>4. L = live_objects /\ stack' \in Seq(references(L)) /\ w \in references(L)
    BY <2>1
  <2> QED BY ONLY View, View', <1>6, <1>7, <2>1, <2>2, <2>3, <2>4, WordStored
<1>10. CASE STA
  <2> PICK a : a = TO_DATA(operand(3)) OBVIOUS
  <2> PICK i : i = member(mem[a], UNBOX(operand(2))) OBVIOUS
  <2> PICK v : v = IF mem[a].type = "STRING" THEN UNBOX(w) % 256 ELSE w OBVIOUS
  <2>1. /\ is_object(operand(3)) /\ i \in DOMAIN mem[a].words /\ mem' = [mem EXCEPT ![a].words[i] = v]
        /\ has_operands(3) /\ stack' = push(popped(3), w)
        /\ mem[a].type \in {"ARRAY", "SEXP", "STRING"} /\ (mem[a].type = "STRING" => UNBOXED(w))
    BY <1>5, <1>10 DEF STA, object_at
  <2>2. 2 \in 1 .. Len(stack) /\ 3 \in 1 .. Len(stack) /\ 3 \in 0 .. Len(stack)
    BY <1>3, <2>1 DEF has_operands
  <2>3. a \in L
    BY <1>4, <1>8, <2>1, <2>2
  <2>4. stack' \in Seq(R)
    BY <1>4, <2>1, <2>2, Pushing
  <2>5. v \in Nat
    BY <1>7 DEF UNBOX
  <2>6. /\ mem[a] \in Object /\ mem[a].words \in Seq(Nat) /\ Len(mem[a].words) \in Nat
        /\ mem[a].len \in Nat /\ i \in 1 .. Len(mem[a].words)
    BY <1>1, <2>1, <2>3, FieldsAreWords DEF objects, Object
  <2>7. mem[a].type # "STRING" => i \in fields(mem[a])
    <3> SUFFICES ASSUME mem[a].type # "STRING" PROVE i \in fields(mem[a])
      OBVIOUS
    <3>1. operand(2) \in Nat
      BY <1>4, <2>2 DEF references
    <3> PICK u \in Nat : u = UNBOX(operand(2))
      BY <3>1 DEF UNBOX
    <3>2. ASSUME mem[a].type = "SEXP" PROVE i = u + 2 /\ first_field(mem[a].type, mem[a].len) = 2
      BY <3>2 DEF member, first_field
    <3>3. ASSUME mem[a].type = "ARRAY" PROVE i = u + 1 /\ first_field(mem[a].type, mem[a].len) = 1
      BY <3>3 DEF member, first_field
    <3> PICK f : f = first_field(mem[a].type, mem[a].len)
      OBVIOUS
    <3>4. (i = u + 2 /\ f = 2) \/ (i = u + 1 /\ f = 1)
      BY <2>1, <3>2, <3>3
    <3>5. f \in Nat /\ f <= i
      BY ONLY <3>4, u \in Nat
    <3> QED BY <2>6, <3>5 DEF fields
  <2>8. mem[a].type = "STRING" => fields(mem[a]) = {}
    <3>1. mem[a].type = "STRING" => Len(mem[a].words) = mem[a].len
      BY <1>1, <2>3
    <3>2. mem[a].type = "STRING" => first_field(mem[a].type, mem[a].len) = mem[a].len + 1
      BY DEF first_field
    <3> PICK k : k = Len(mem[a].words) OBVIOUS
    <3> PICK m : m = mem[a].len OBVIOUS
    <3>3. k \in Nat /\ m \in Nat
      BY <2>6
    <3>4. ASSUME k <= m PROVE m + 1 .. k = {}
      <4>1. \A x \in Int : ~(m + 1 <= x /\ x <= k)
        BY <3>3, <3>4
      <4> QED BY ONLY <3>3, <4>1
    <3> QED BY <3>1, <3>2, <3>4 DEF fields
  <2> QED BY <1>6, <1>7, <2>1, <2>3, <2>4, <2>5, <2>7, <2>8, WordStored
<1> QED BY <1>9, <1>10, NoneCaptured

-------------------------------------------------------------------------------
(* Steps that make an object *)

\* What the roots show after the return: the operands are gone, and the object
\* is there.
LEMMA ReturnedRoots ==
  ASSUME View, NEW k \in 0 .. Len(stack), k = 0 \/ extra = << >>,
         NEW p, stack' = push(popped(k), p), statics' = statics, extra' = << >>,
         \A q \in references(live_objects) : abs_word(q)' = abs_word(q),
         NEW n, n = k + Len(extra), NEW s, s = now_roots, NEW t, t = now_roots',
         NEW w, w = abs_word(p)'
  PROVE  replaced(s, t, n, w)
<1> PICK R : R = references(live_objects) OBVIOUS
<1> PICK V : V = {abs_word(q) : q \in R} \cup {w} OBVIOUS
<1> PICK A : A = shown(statics) OBVIOUS
<1> PICK B : B = shown(stack) OBVIOUS
<1> PICK C : C = shown_cells OBVIOUS
<1> PICK l : l = Len(stack) OBVIOUS
<1> PICK m : m = l - k OBVIOUS
<1> PICK D : D = Append(SubSeq(B, 1, Len(B) - k), w) OBVIOUS
<1>1. /\ roots_in(R) /\ extra \in Seq(Cell) /\ stack \in Seq(R) /\ statics \in Seq(R)
      /\ \A q \in R : abs_word(q)' = abs_word(q)
  BY DEF View, roots_in
<1>2. /\ l \in Nat /\ k \in Nat /\ m \in Nat /\ m <= l /\ k <= l /\ m = l - k
  <2>1. l \in Nat /\ k \in 0 .. l
    BY <1>1
  <2> QED BY ONLY <2>1, m = l - k
<1>3. /\ s = joined(A, B, C) /\ A \in Seq(V) /\ B \in Seq(V) /\ C \in Seq(V) /\ w \in V
      /\ Len(A) = Len(statics) /\ Len(B) = l /\ Len(C) = Len(extra)
  <2> PICK U : U = {abs_word(q) : q \in R} OBVIOUS
  <2>1. /\ s = joined(A, B, C) /\ A \in Seq(U) /\ B \in Seq(U) /\ C \in Seq(U)
        /\ Len(A) = Len(statics) /\ Len(B) = l /\ Len(C) = Len(extra)
    BY <1>1, RootParts
  <2>2. U \subseteq V /\ w \in V
    OBVIOUS
  <2>3. A \in Seq(V) /\ B \in Seq(V) /\ C \in Seq(V)
    BY ONLY <2>1, <2>2, SeqGrows
  <2> QED BY <2>1, <2>2, <2>3
<1>4. [j \in DOMAIN statics |-> abs_word(statics[j])'] = A
  <2>1. \A j \in DOMAIN statics : abs_word(statics[j])' = abs_word(statics[j])
    BY <1>1
  <2> QED BY <2>1 DEF shown
<1> PICK S : S = popped(k) OBVIOUS
<1> PICK T : T = stack' OBVIOUS
<1>5. S \in Seq(R) /\ Len(S) = m /\ \A j \in 1 .. m : S[j] = stack[j] /\ stack[j] \in R
  <2>1. \A j \in 1 .. m : stack[j] \in R
    <3>1. \A j \in 1 .. m : j \in 1 .. Len(stack)
      BY ONLY <1>2, l = Len(stack)
    <3> QED BY ONLY <1>1, <3>1
  <2>2. S = SubSeq(stack, 1, m)
    BY DEF popped
  <2>3. S \in Seq(R) /\ Len(S) = (IF 1 <= m THEN m - 1 + 1 ELSE 0)
        /\ \A j \in 1 .. m - 1 + 1 : S[j] = stack[1 + j - 1]
    BY ONLY <1>2, <2>1, <2>2, SubSeqProperties
  <2> QED BY ONLY <1>2, <2>1, <2>3
<1>6. /\ T = Append(S, p) /\ DOMAIN T = 1 .. m + 1 /\ T[m + 1] = p
      /\ \A j \in 1 .. m : T[j] = stack[j]
  <2>1. T = Append(S, p) /\ S \in Seq(R \cup {p}) /\ p \in R \cup {p}
    <3>1. S \in Seq(R \cup {p})
      BY <1>5, SeqGrows
    <3> QED BY <3>1 DEF push
  <2>2. /\ T \in Seq(R \cup {p}) /\ Len(T) = Len(S) + 1
        /\ \A j \in 1 .. Len(S) : T[j] = S[j]
        /\ T[Len(S) + 1] = p
    BY ONLY <2>1, AppendProperties
  <2> QED BY ONLY <1>2, <1>5, <2>1, <2>2
<1>7. [j \in DOMAIN T |-> abs_word(T[j])'] = D
  <2> PICK E : E = SubSeq(B, 1, m) OBVIOUS
  <2>1. D = Append(E, w) /\ B \in Seq(V)
    BY <1>3
  <2>2. \A j \in 1 .. m : B[j] \in V /\ B[j] = abs_word(stack[j])
    <3>1. \A j \in 1 .. m : j \in 1 .. Len(B) /\ j \in DOMAIN stack
      <4>1. DOMAIN stack = 1 .. l
        BY <1>1
      <4> QED BY ONLY <1>2, <1>3, <4>1
    <3>2. \A j \in 1 .. Len(B) : B[j] \in V
      BY ONLY <1>3
    <3>3. \A j \in DOMAIN stack : B[j] = abs_word(stack[j])
      BY DEF shown
    <3> QED BY ONLY <3>1, <3>2, <3>3
  <2>3. E \in Seq(V) /\ Len(E) = (IF 1 <= m THEN m - 1 + 1 ELSE 0)
        /\ \A j \in 1 .. m - 1 + 1 : E[j] = B[1 + j - 1]
    BY ONLY <1>2, <2>2, E = SubSeq(B, 1, m), SubSeqProperties
  <2>4. Len(E) = m /\ \A j \in 1 .. m : E[j] = abs_word(stack[j])
    BY ONLY <1>2, <2>2, <2>3
  <2>5. /\ D \in Seq(V) /\ Len(D) = Len(E) + 1 /\ \A j \in 1 .. Len(E) : D[j] = E[j]
        /\ D[Len(E) + 1] = w
    BY ONLY <1>3, <2>1, <2>3, AppendProperties
  <2>6. /\ D = [j \in 1 .. m + 1 |-> D[j]] /\ D[m + 1] = w
        /\ \A j \in 1 .. m : D[j] = abs_word(stack[j])
    BY ONLY <1>2, <2>4, <2>5
  <2>7. ASSUME NEW j \in 1 .. m + 1 PROVE abs_word(T[j])' = D[j]
    <3>1. CASE j = m + 1
      <4>1. T[j] = p
        BY <1>6, <3>1
      <4> QED BY <2>6, <3>1, <4>1
    <3>2. CASE j # m + 1
      <4>1. j \in 1 .. m
        BY ONLY <1>2, <3>2, j \in 1 .. m + 1
      <4>2. T[j] = stack[j] /\ stack[j] \in R
        BY <1>5, <1>6, <4>1
      <4>3. abs_word(T[j])' = abs_word(stack[j])
        BY <1>1, <4>2
      <4> QED BY <2>6, <4>1, <4>3
    <3> QED BY <3>1, <3>2
  <2> QED BY <1>6, <2>6, <2>7
<1>8. t = joined(A, D, << >>)
  <2>1. t = [j \in DOMAIN statics |-> abs_word(statics[j])'] \o [j \in DOMAIN T |-> abs_word(T[j])']
              \o [j \in DOMAIN extra' |-> abs_word(cell_word(extra[j]))']
    BY DEF now_roots
  <2>2. [j \in DOMAIN extra' |-> abs_word(cell_word(extra[j]))'] = << >>
    OBVIOUS
  <2> QED BY <1>4, <1>7, <2>1, <2>2 DEF joined
<1>9. k \in 0 .. Len(B) /\ (k = 0 \/ C = << >>) /\ n = k + Len(C)
      /\ D = Append(SubSeq(B, 1, Len(B) - k), w)
  <2>1. k \in 0 .. Len(B)
    BY <1>2, <1>3
  <2>2. extra = << >> => C = << >>
    BY DEF shown_cells
  <2> QED BY <1>3, <2>1, <2>2
<1> QED BY ONLY <1>3, <1>8, <1>9, PoppedRoots

\* A return makes the object that takes the last n roots as its operands.
LEMMA ReturnedNew ==
  ASSUME View, View', Numbered, Callers, pc \in {"alloc", "retry"},
         NEW op, NEW contents, NEW k \in 0 .. Len(stack), return(op, contents, k),
         k = 0 \/ extra = << >>, NEW o, o = new_object(contents),
         \A i \in fields(o) : o.words[i] \in references(live_objects),
         NEW n, n = k + Len(extra), Graph!takes_operands(abs_object(o), n)
  PROVE  Graph!New
<1> PICK L : L = live_objects OBVIOUS
<1> PICK M : M = live_objects' OBVIOUS
<1> PICK R : R = references(L) OBVIOUS
<1> PICK g : g = now_graph OBVIOUS
<1> PICK h : h = now_graph' OBVIOUS
<1> PICK s : s = now_roots OBVIOUS
<1> PICK rs : rs = now_roots' OBVIOUS
<1> PICK d : d = cur_id OBVIOUS
<1> PICK at : at = heap.current OBVIOUS
<1> PICK p : p = new_address OBVIOUS
<1>1. /\ stack' = push(popped(k), p) /\ statics' = statics /\ extra' = << >> /\ pc' = "run"
      /\ mem' = [a \in DOMAIN mem \cup {at} |-> IF a = at THEN o ELSE mem[a]] /\ o.id = d
  BY DEF return, allocated, place_object, new_object
<1>2. /\ at \in Nat /\ at \notin DOMAIN mem /\ DOMAIN mem' = DOMAIN mem \cup {at} /\ mem'[at] = o
      /\ \A a \in DOMAIN mem : mem'[a] = mem[a]
      /\ \A q \in references(DOMAIN mem) : abs_word(q)' = abs_word(q)
      /\ p \in Nat /\ TO_DATA(p) = at /\ ~outside(p) /\ abs_word(p)' = <<"ref", d>>
  <2>1. placed(o, at, p)
    BY <1>1 DEF placed
  <2>2. /\ at \in Nat /\ at \notin DOMAIN mem /\ DOMAIN mem' = DOMAIN mem \cup {at} /\ mem'[at] = o
        /\ \A a \in DOMAIN mem : mem'[a] = mem[a]
        /\ \A q \in references(DOMAIN mem) : abs_word(q)' = abs_word(q)
        /\ p \in Nat /\ TO_DATA(p) = at /\ ~outside(p) /\ abs_word(p)' = <<"ref", cur_id>>
    BY ONLY View, View', <2>1, NewValues
  <2> QED BY ONLY <2>2, d = cur_id
<1>3. /\ L \subseteq DOMAIN mem /\ whole(s, g) /\ DOMAIN g = {mem[a].id : a \in L}
      /\ \A a \in L : g[mem[a].id] = abs_object(mem[a])
      /\ roots_in(R) /\ fields_in(L, R) /\ fields_in(DOMAIN mem, references(DOMAIN mem))
  BY DEF View
<1>4. /\ M \subseteq DOMAIN mem' /\ whole(rs, h) /\ DOMAIN h = {mem'[a].id : a \in M}
      /\ \A a \in M : h[mem'[a].id] = abs_object(mem[a])'
      /\ \A a, b \in DOMAIN mem' : mem'[a].id = mem'[b].id => a = b
  BY ViewMoved
<1>5. R \subseteq references(DOMAIN mem) /\ R \subseteq references(L \cup {at})
      /\ p \in references(L \cup {at})
  BY <1>2, <1>3 DEF references
<1>6. stack \in Seq(R) /\ statics \in Seq(R)
  BY <1>3 DEF roots_in
<1>7. stack' \in Seq(references(L \cup {at})) /\ p \in {stack'[j] : j \in DOMAIN stack'}
  <2> PICK S : S = popped(k) OBVIOUS
  <2>1. S \in Seq(R)
    BY <1>6, Operands
  <2>2. S \in Seq(references(L \cup {at}))
    BY <1>5, <2>1, SeqGrows
  <2>3. /\ stack' \in Seq(references(L \cup {at})) /\ Len(stack') = Len(S) + 1
        /\ stack'[Len(S) + 1] = p
    <3> PICK X : X = references(L \cup {at}) OBVIOUS
    <3> PICK T : T = Append(S, p) OBVIOUS
    <3>1. stack' = T
      BY <1>1 DEF push
    <3>2. S \in Seq(X) /\ p \in X
      BY ONLY <1>5, <2>2, X = references(L \cup {at})
    <3>3. T \in Seq(X) /\ Len(T) = Len(S) + 1 /\ T[Len(S) + 1] = p
      BY ONLY <3>2, AppendProperties, T = Append(S, p)
    <3> QED BY ONLY <3>1, <3>3, X = references(L \cup {at})
  <2>4. Len(S) + 1 \in DOMAIN stack'
    BY ONLY <2>2, <2>3
  <2> QED BY <2>3, <2>4
<1>8. M \subseteq L \cup {at}
  <2>1. roots_in(references(L \cup {at}))'
    <3>1. statics' \in Seq(references(L \cup {at}))
      BY <1>1, <1>5, <1>6, SeqGrows
    <3> QED BY <1>1, <1>7, <3>1 DEF roots_in, cells_in, references, outside
  <2>2. fields_in(L \cup {at}, references(L \cup {at}))'
    <3>1. ASSUME NEW a \in L \cup {at}, NEW i \in fields(mem'[a])
          PROVE  mem'[a].words[i] \in references(L \cup {at})
      <4>1. CASE a = at
        BY <1>2, <1>5, <4>1
      <4>2. CASE a # at
        <5>1. a \in L /\ mem'[a] = mem[a]
          BY <1>2, <1>3, <4>2
        <5> QED BY <1>3, <1>5, <5>1 DEF fields_in
      <4> QED BY <4>1, <4>2
    <3> QED BY <3>1 DEF fields_in, fields, references, outside
  <2>3. L \cup {at} \in SUBSET DOMAIN mem'
    BY <1>2, <1>3
  <2>4. \A O \in SUBSET DOMAIN mem' :
          roots_in(references(O))' /\ fields_in(O, references(O))' => M \subseteq O
    BY DEF View
  <2> QED BY <2>1, <2>2, <2>3, <2>4
<1>9. at \in M
  <2>1. stack' \in Seq(references(M))
    BY DEF View, roots_in, references, outside
  <2>2. p \in references(M)
    BY <1>7, <2>1
  <2> QED BY <1>2, <2>2 DEF references
<1>10. d \notin DOMAIN g
  <2>1. \A a \in DOMAIN mem : mem[a].id < d /\ mem[a].id \in Nat
    BY DEF Numbered, allocating, View, objects, Object
  <2>2. \A a \in L : mem[a].id # d
    BY <1>3, <2>1
  <2> QED BY <1>3, <2>2
<1>11. d \in DOMAIN h /\ DOMAIN h \subseteq DOMAIN g \cup {d}
  <2>1. d \in DOMAIN h
    BY <1>1, <1>2, <1>4, <1>9
  <2>2. \A a \in M : mem'[a].id \in DOMAIN g \cup {d}
    <3>1. ASSUME NEW a \in M PROVE mem'[a].id \in DOMAIN g \cup {d}
      <4>1. a = at \/ (a \in L /\ mem'[a] = mem[a])
        BY <1>2, <1>3, <1>8
      <4> QED BY <1>1, <1>2, <1>3, <4>1
    <3> QED BY <3>1
  <2> QED BY <1>4, <2>1, <2>2
<1>12. h[d] = abs_object(o)
  <2>1. h[d] = abs_object(mem[at])'
    <3>1. mem'[at].id = d
      BY <1>1, <1>2
    <3>2. h[mem'[at].id] = abs_object(mem[at])'
      BY ONLY <1>4, <1>9
    <3> QED BY ONLY <3>1, <3>2
  <2>2. abs_object(mem[at])' = abs_object(o)
    <3>1. \A i \in fields(o) : abs_word(o.words[i])' = abs_word(o.words[i])
      BY <1>2, <1>5
    <3>2. mem'[at] = o
      BY <1>2
    <3> QED BY <3>1, <3>2, SameShown
  <2> QED BY <2>1, <2>2
<1>13. ASSUME NEW e \in DOMAIN g \cap DOMAIN h PROVE h[e] = g[e]
  <2>1. PICK a \in M : e = mem'[a].id
    BY <1>4
  <2>2. a \in L /\ mem'[a] = mem[a]
    <3>1. a # at
      BY <1>1, <1>2, <1>10, <2>1
    <3> QED BY <1>2, <1>3, <1>8, <3>1
  <2>3. abs_object(mem[a])' = abs_object(mem[a])
    <3> PICK q : q = mem[a] OBVIOUS
    <3>1. \A i \in fields(q) : q.words[i] \in R
      BY <1>3, <2>2 DEF fields_in
    <3>2. \A i \in fields(q) : abs_word(q.words[i])' = abs_word(q.words[i])
      BY <1>2, <1>5, <3>1
    <3>3. mem'[a] = q
      BY <2>2
    <3> QED BY <3>2, <3>3, SameShown
  <2> QED BY <1>3, <1>4, <2>1, <2>2, <2>3
<1>14. h = Graph!live_part(with_object(g, d, h[d]), rs)
  BY ONLY <1>3, <1>4, <1>10, <1>11, <1>13, ObjectAdded
<1>15. replaced(s, rs, n, <<"ref", d>>)
  <2>1. \A q \in references(live_objects) : abs_word(q)' = abs_word(q)
    BY <1>2, <1>5
  <2> QED BY <1>1, <1>2, <2>1, ReturnedRoots
<1>16. abs_graph = g /\ abs_graph' = h /\ abs_roots = s /\ abs_roots' = rs
  BY <1>1 DEF abs_graph, abs_roots, collecting, gc_idle
<1>17. /\ rs # << >> /\ rs[Len(rs)] = <<"ref", d>> /\ n \in 0 .. Len(s)
       /\ SubSeq(rs, 1, Len(rs) - 1) = SubSeq(s, 1, Len(s) - n)
  BY <1>15 DEF replaced
<1> PICK G : G = abs_graph OBVIOUS
<1> PICK H : H = abs_graph' OBVIOUS
<1> PICK A : A = abs_roots OBVIOUS
<1> PICK B : B = abs_roots' OBVIOUS
<1> PICK w : w = B[Len(B)] OBVIOUS
<1>18. /\ G = g /\ H = h /\ A = s /\ B = rs /\ w[1] = "ref" /\ w[2] = d
  BY <1>16, <1>17
<1>19. Graph!takes_operands(H[w[2]], n)
  BY <1>12, <1>18
<1>20. /\ B # << >> /\ w[1] = "ref" /\ w[2] \notin DOMAIN G /\ w[2] \in DOMAIN H
       /\ n \in 0 .. Len(A) /\ SubSeq(B, 1, Len(B) - 1) = SubSeq(A, 1, Len(A) - n)
       /\ Graph!takes_operands(H[w[2]], n)
       /\ H = Graph!live_part(with_object(G, w[2], H[w[2]]), B)
  BY ONLY <1>10, <1>11, <1>14, <1>17, <1>18, <1>19
<1>21. /\ abs_roots' # << >> /\ abs_roots'[Len(abs_roots')][1] = "ref"
       /\ abs_roots'[Len(abs_roots')][2] \notin DOMAIN abs_graph
       /\ abs_roots'[Len(abs_roots')][2] \in DOMAIN abs_graph'
       /\ n \in 0 .. Len(abs_roots)
       /\ SubSeq(abs_roots', 1, Len(abs_roots') - 1) = SubSeq(abs_roots, 1, Len(abs_roots) - n)
       /\ Graph!takes_operands(abs_graph'[abs_roots'[Len(abs_roots')][2]], n)
       /\ abs_graph' = Graph!live_part(
                          with_object(abs_graph, abs_roots'[Len(abs_roots')][2],
                                      abs_graph'[abs_roots'[Len(abs_roots')][2]]), abs_roots')
  BY ONLY <1>20, G = abs_graph, H = abs_graph', A = abs_roots, B = abs_roots', w = B[Len(B)]
<1> QED BY ONLY <1>21, Zenon DEF Graph!New, with_object

\* The operands as the graph sees them are the last of its roots.
LEMMA OperandsShown ==
  ASSUME View, extra = << >>, NEW k, k \in 0 .. Len(stack), NEW c, c = last_operands(k)
  PROVE  /\ c \in Seq(references(live_objects)) /\ Len(c) = k
         /\ shown(c) = last_of(now_roots, k)
<1> PICK R : R = references(live_objects) OBVIOUS
<1> PICK V : V = {abs_word(q) : q \in R} OBVIOUS
<1> PICK A : A = shown(statics) OBVIOUS
<1> PICK B : B = shown(stack) OBVIOUS
<1> PICK l : l = Len(stack) OBVIOUS
<1> PICK s : s = now_roots OBVIOUS
<1>1. /\ roots_in(R) /\ extra \in Seq(Cell) /\ stack \in Seq(R)
      /\ l \in Nat /\ k \in Nat /\ k <= l /\ k \in 0 .. l
  <2>1. roots_in(R) /\ extra \in Seq(Cell) /\ stack \in Seq(R)
    BY DEF View, roots_in
  <2>2. l \in Nat
    BY <2>1
  <2> QED BY <2>1, <2>2
<1>2. c \in Seq(R) /\ Len(c) = k
  BY <1>1, Operands
<1>3. s = joined(A, B, << >>) /\ A \in Seq(V) /\ B \in Seq(V) /\ Len(B) = l
  <2>1. shown_cells = << >>
    BY DEF shown_cells
  <2> QED BY <1>1, <2>1, RootParts
<1>4. last_of(s, k) = SubSeq(B, Len(B) - k + 1, Len(B))
  <2>1. k \in 0 .. Len(B)
    BY <1>1, <1>3
  <2>2. last_of(s, k) = last_of(B, k)
    BY ONLY <1>3, <2>1, LastRoots
  <2> QED BY <2>2 DEF last_of
<1> PICK a : a = l - k + 1 OBVIOUS
<1> PICK r : r = SubSeq(B, a, l) OBVIOUS
<1>5. a \in Int /\ l - a + 1 = k /\ (a <= l \/ k = 0) /\ \A i \in 1 .. k : a + i - 1 \in 1 .. l
  BY ONLY <1>1, a = l - k + 1
<1>6. /\ r \in Seq(V) /\ Len(r) = k /\ \A i \in 1 .. k : r[i] = B[a + i - 1]
  <2>1. \A i \in a .. l : B[i] \in V
    <3>1. \A i \in a .. l : i \in 1 .. l
      BY ONLY <1>1, a = l - k + 1
    <3> QED BY ONLY <1>3, <3>1
  <2>2. /\ r \in Seq(V) /\ Len(r) = (IF a <= l THEN l - a + 1 ELSE 0)
        /\ \A i \in 1 .. l - a + 1 : r[i] = B[a + i - 1]
    BY ONLY <1>1, <1>5, <2>1, SubSeqProperties, r = SubSeq(B, a, l)
  <2> QED BY ONLY <1>1, <1>5, <2>2
<1>7. \A i \in 1 .. k : c[i] = stack[a + i - 1]
  <2>1. c = SubSeq(stack, a, l)
    <3>1. c = SubSeq(stack, l - k + 1, l)
      BY DEF last_operands
    <3> QED BY ONLY <3>1, a = l - k + 1
  <2>2. \A i \in a .. l : stack[i] \in R
    <3>1. \A i \in a .. l : i \in 1 .. l
      BY ONLY <1>1, a = l - k + 1
    <3> QED BY ONLY <1>1, l = Len(stack), <3>1
  <2>3. \A i \in 1 .. l - a + 1 : c[i] = stack[a + i - 1]
    BY ONLY <1>1, <1>5, <2>1, <2>2, SubSeqProperties
  <2> QED BY ONLY <1>5, <2>3
<1>8. ASSUME NEW i \in 1 .. k PROVE abs_word(c[i]) = r[i]
  <2>1. a + i - 1 \in DOMAIN stack
    <3>1. DOMAIN stack = 1 .. l
      BY <1>1
    <3> QED BY ONLY <1>5, <3>1, i \in 1 .. k
  <2>2. B[a + i - 1] = abs_word(stack[a + i - 1])
    BY <2>1 DEF shown
  <2> QED BY ONLY <1>6, <1>7, <2>2, i \in 1 .. k
<1>9. shown(c) = r
  <2>1. shown(c) = [i \in 1 .. k |-> abs_word(c[i])]
    BY <1>2 DEF shown
  <2>2. shown(c) = [i \in 1 .. k |-> r[i]]
    BY ONLY <1>8, <2>1
  <2>3. r = [i \in 1 .. k |-> r[i]]
    BY ONLY <1>6
  <2> QED BY ONLY <2>2, <2>3
<1>10. last_of(s, k) = r
  BY ONLY <1>3, <1>4, <1>9, r = SubSeq(B, a, l), a = l - k + 1
<1> QED BY <1>2, <1>9, <1>10

LEMMA ArrayTakes ==
  ASSUME View, extra = << >>, gc_idle, NEW k, k \in 0 .. Len(stack), NEW c, c = last_operands(k),
         NEW o, filled(o, c), req.type = "ARRAY", req.len = k
  PROVE  /\ \A i \in fields(o) : o.words[i] \in references(live_objects)
         /\ Graph!takes_operands(abs_object(o), k)
<1> PICK R : R = references(live_objects) OBVIOUS
<1>1. c \in Seq(R) /\ Len(c) = k /\ shown(c) = last_of(now_roots, k) /\ k \in Nat
  <2>1. c \in Seq(R) /\ Len(c) = k /\ shown(c) = last_of(now_roots, k)
    BY OperandsShown
  <2> QED BY <2>1
<1>2. /\ o.words = c /\ fields(o) = 1 .. Len(c) /\ shows_fields(o, c)
      /\ abs_object(o).type = "ARRAY" /\ abs_object(o).len = k /\ abs_object(o).words = abs_words(o)
  <2>1. /\ o.words = c /\ fields(o) = first_field(req.type, req.len) .. Len(c) /\ shows_fields(o, c)
        /\ abs_object(o).type = req.type /\ abs_object(o).len = req.len
        /\ abs_object(o).words = abs_words(o)
    BY ONLY filled(o, c), FreshShown
  <2> QED BY <2>1 DEF first_field
<1>3. \A i \in fields(o) : o.words[i] \in R
  BY <1>1, <1>2
<1>4. abs_words(o) = shown(c)
  <2>1. DOMAIN c = fields(o)
    BY <1>1, <1>2
  <2>2. \A i \in DOMAIN c : abs_words(o)[i] = abs_word(c[i])
    BY <1>2, <2>1 DEF shows_fields
  <2>3. abs_words(o) = [i \in DOMAIN c |-> abs_words(o)[i]]
    BY <1>2 DEF shows_fields
  <2> QED BY <2>2, <2>3 DEF shown
<1> PICK x : x = abs_object(o) OBVIOUS
<1>5. x.type = "ARRAY" /\ x.len = k /\ x.words = last_of(abs_roots, k)
  BY <1>1, <1>2, <1>4 DEF abs_roots, collecting, gc_idle
<1>6. Graph!takes_operands(x, k)
  BY ONLY <1>5 DEF Graph!takes_operands, last_of
<1> QED BY <1>3, <1>6

LEMMA SexpTakes ==
  ASSUME View, extra = << >>, gc_idle, NEW k, k \in 0 .. Len(stack), NEW c, c = last_operands(k),
         NEW w, NEW e, e = <<w>> \o c, NEW o, filled(o, e), req.type = "SEXP", req.len = k
  PROVE  /\ \A i \in fields(o) : o.words[i] \in references(live_objects)
         /\ Graph!takes_operands(abs_object(o), k)
<1> PICK R : R = references(live_objects) OBVIOUS
<1>1. c \in Seq(R) /\ k = Len(c) /\ shown(c) = last_of(now_roots, k)
  BY OperandsShown
<1>2. /\ \A i \in fields(o) : o.words[i] \in R
      /\ abs_object(o).type = req.type /\ abs_object(o).len = req.len
      /\ Tail(abs_object(o).words) = shown(c)
  <2>1. req.type \in {"SEXP", "CLOSURE"} /\ e = <<w>> \o c /\ filled(o, e)
    OBVIOUS
  <2> QED BY ONLY <1>1, <2>1, PrefixShown
<1> PICK x : x = abs_object(o) OBVIOUS
<1>3. x.type = "SEXP" /\ x.len = k /\ Tail(x.words) = last_of(abs_roots, k)
  BY <1>1, <1>2 DEF abs_roots, collecting, gc_idle
<1>4. Graph!takes_operands(x, k)
  BY ONLY <1>3 DEF Graph!takes_operands, last_of
<1> QED BY <1>2, <1>4

LEMMA ClosureTakes ==
  ASSUME View, gc_idle, NEW k \in Nat, NEW chosen \in [1 .. k -> DOMAIN stack],
         NEW c, c = [i \in 1 .. k |-> stack[chosen[i]]],
         NEW w, NEW e, e = <<w>> \o c, NEW o, filled(o, e), req.type = "CLOSURE"
  PROVE  /\ \A i \in fields(o) : o.words[i] \in references(live_objects)
         /\ Graph!takes_operands(abs_object(o), 0)
<1> PICK R : R = references(live_objects) OBVIOUS
<1>1. roots_in(R) /\ extra \in Seq(Cell) /\ stack \in Seq(R)
  BY DEF View, roots_in
<1>2. c \in Seq(R) /\ Len(c) = k
  <2>1. \A i \in 1 .. k : chosen[i] \in DOMAIN stack
    OBVIOUS
  <2>2. \A j \in DOMAIN stack : stack[j] \in R
    BY <1>1
  <2>3. c = [i \in 1 .. k |-> c[i]] /\ \A i \in 1 .. k : c[i] \in R
    BY <2>1, <2>2
  <2> QED BY ONLY <2>3, k \in Nat, FunctionIsSeq
<1>3. /\ \A i \in fields(o) : o.words[i] \in R
      /\ abs_object(o).type = req.type /\ Tail(abs_object(o).words) = shown(c)
  <2>1. req.type \in {"SEXP", "CLOSURE"} /\ e = <<w>> \o c /\ filled(o, e) /\ k = Len(c)
    BY <1>2
  <2> QED BY ONLY <1>2, <2>1, PrefixShown
<1> PICK x : x = abs_object(o) OBVIOUS
<1> PICK s : s = now_roots OBVIOUS
<1> PICK r : r = shown(c) OBVIOUS
<1>4. \A i \in DOMAIN r : \E n \in DOMAIN s : s[n] = r[i]
  <2>1. ASSUME NEW i \in 1 .. k PROVE \E n \in DOMAIN s : s[n] = r[i]
    <3> PICK j : j = chosen[i] OBVIOUS
    <3>1. j \in DOMAIN stack /\ c[i] = stack[j]
      OBVIOUS
    <3>2. \E n \in DOMAIN s : s[n] = abs_word(stack[j])
      BY <1>1, <3>1, StackShown
    <3>3. r[i] = abs_word(c[i])
      BY <1>2 DEF shown
    <3> QED BY <3>1, <3>2, <3>3
  <2>2. DOMAIN r = 1 .. k
    BY <1>2 DEF shown
  <2> QED BY <2>1, <2>2
<1>5. x.type = "CLOSURE" /\ Tail(x.words) = r /\ abs_roots = s
  BY <1>3 DEF abs_roots, collecting, gc_idle
<1>6. Graph!range(Tail(x.words)) \subseteq Graph!range(abs_roots)
  BY ONLY <1>4, <1>5 DEF Graph!range
<1>7. Graph!takes_operands(x, 0)
  BY ONLY <1>5, <1>6 DEF Graph!takes_operands
<1> QED BY <1>3, <1>7

LEMMA StringTakes ==
  ASSUME NEW c \in Seq(Nat), NEW o, filled(o, c), req.type = "STRING", req.len = Len(c), NEW n
  PROVE  fields(o) = {} /\ Graph!takes_operands(abs_object(o), n)
<1>1. /\ fields(o) = first_field(req.type, req.len) .. Len(c) /\ shows_fields(o, c)
      /\ abs_object(o).type = req.type /\ abs_object(o).words = abs_words(o)
  BY ONLY filled(o, c), FreshShown
<1>2. fields(o) = {}
  <2>1. first_field(req.type, req.len) = Len(c) + 1
    BY DEF first_field
  <2> QED BY <1>1, <2>1
<1> PICK x : x = abs_object(o) OBVIOUS
<1>3. x.type = "STRING" /\ \A i \in DOMAIN x.words : x.words[i] = <<"word", c[i]>>
  <2>1. abs_words(o) = [i \in DOMAIN c |-> abs_words(o)[i]]
    BY <1>1 DEF shows_fields
  <2>2. \A i \in DOMAIN c : abs_words(o)[i] = <<"word", c[i]>>
    BY <1>1, <1>2 DEF shows_fields
  <2> QED BY <1>1, <2>1, <2>2
<1>4. Graph!refs(Graph!range(x.words)) = {}
  <2>1. \A v \in Graph!range(x.words) : v[1] # "ref"
    BY ONLY <1>3 DEF Graph!range
  <2> QED BY ONLY <2>1 DEF Graph!refs
<1>5. Graph!takes_operands(x, n)
  BY ONLY <1>3, <1>4 DEF Graph!takes_operands
<1> QED BY <1>2, <1>5

\* Every return makes a new object of its operands.
LEMMA ReturnNews ==
  ASSUME View, View', Numbered, Callers, ClientTypeOK, gc_idle, Return PROVE Graph!New
<1>1. /\ pc \in {"alloc", "retry"} /\ req.len \in Nat /\ stack \in Seq(Nat)
      /\ Len(stack) \in Nat /\ NG \in Nat /\ extra \in Seq(Cell) /\ Len(extra) \in Nat
      /\ 0 \in 0 .. Len(stack)
  <2>1. pc \in {"alloc", "retry"} /\ req.len \in Nat /\ stack \in Seq(Nat) /\ extra \in Seq(Cell)
    BY DEF Return, BARRAY_return, BSEXP_return, BCLOSURE_return, BSTRING_return,
       LSTRING_return, ClientTypeOK, View
  <2>2. Len(stack) \in Nat /\ Len(extra) \in Nat
    BY <2>1
  <2> QED BY <2>1, <2>2, ProgramAssumption
<1> PICK l : l = Len(extra) OBVIOUS
<1>2. ASSUME extra = << >>, NEW k \in Nat PROVE k + l = k
  BY <1>2
<1>3. ASSUME NEW k \in Nat, k <= Len(stack) - NG PROVE k \in 0 .. Len(stack)
  BY <1>1, <1>3
<1>4. CASE BARRAY_return
  <2> PICK k : k = req.len OBVIOUS
  <2> PICK c : c = last_operands(k) OBVIOUS
  <2> PICK o : o = new_object(c) OBVIOUS
  <2>1. return("BARRAY", c, k) /\ req.op = "BARRAY"
    BY <1>4 DEF BARRAY_return, return, allocated
  <2>2. req.type = "ARRAY" /\ k <= Len(stack) - NG /\ extra = << >> /\ k \in Nat
    BY <1>1, <2>1 DEF Callers
  <2>3. k \in 0 .. Len(stack) /\ k = k + Len(extra)
    BY <1>2, <1>3, <2>2
  <2>4. /\ \A i \in fields(o) : o.words[i] \in references(live_objects)
        /\ Graph!takes_operands(abs_object(o), k)
    BY <2>2, <2>3, ArrayTakes DEF filled
  <2> QED BY <1>1, <2>1, <2>2, <2>3, <2>4, ReturnedNew
<1>5. CASE BSEXP_return
  <2> PICK k : k = req.len OBVIOUS
  <2> PICK c : c = last_operands(k) OBVIOUS
  <2> PICK w : w = raw_word OBVIOUS
  <2> PICK e : e = <<w>> \o c OBVIOUS
  <2> PICK o : o = new_object(e) OBVIOUS
  <2>1. return("BSEXP", e, k) /\ req.op = "BSEXP"
    BY <1>5 DEF BSEXP_return, return, allocated
  <2>2. req.type = "SEXP" /\ k <= Len(stack) - NG /\ extra = << >> /\ k \in Nat
    BY <1>1, <2>1 DEF Callers
  <2>3. k \in 0 .. Len(stack) /\ k = k + Len(extra)
    BY <1>2, <1>3, <2>2
  <2>4. filled(o, e)
    BY DEF filled
  <2>5. /\ \A i \in fields(o) : o.words[i] \in references(live_objects)
        /\ Graph!takes_operands(abs_object(o), k)
    BY <2>2, <2>3, <2>4, SexpTakes
  <2> QED BY <1>1, <2>1, <2>2, <2>3, <2>5, ReturnedNew
<1>6. CASE BCLOSURE_return
  <2> PICK chosen \in [1 .. (req.len - 1) -> DOMAIN stack] :
        return("BCLOSURE", <<raw_word>> \o [i \in DOMAIN chosen |-> stack[chosen[i]]], 0)
    BY <1>6 DEF BCLOSURE_return
  <2>1. req.op = "BCLOSURE"
    BY DEF return, allocated
  <2>2. req.type = "CLOSURE" /\ req.len >= 1 /\ extra = << >>
    BY <1>1, <2>1 DEF Callers
  <2> PICK k : k = req.len - 1 OBVIOUS
  <2>3. k \in Nat /\ chosen \in [1 .. k -> DOMAIN stack] /\ DOMAIN chosen = 1 .. k
    BY <1>1, <2>2
  <2> PICK c : c = [i \in 1 .. k |-> stack[chosen[i]]] OBVIOUS
  <2> PICK w : w = raw_word OBVIOUS
  <2> PICK e : e = <<w>> \o c OBVIOUS
  <2> PICK o : o = new_object(e) OBVIOUS
  <2>4. return("BCLOSURE", e, 0)
    BY <2>3
  <2>5. filled(o, e)
    BY DEF filled
  <2>6. /\ \A i \in fields(o) : o.words[i] \in references(live_objects)
        /\ Graph!takes_operands(abs_object(o), 0)
    BY <2>2, <2>3, <2>5, ClosureTakes
  <2>7. 0 = 0 + Len(extra)
    BY <2>2
  <2> QED BY <1>1, <2>2, <2>4, <2>6, <2>7, ReturnedNew
<1>7. CASE BSTRING_return \/ LSTRING_return
  <2> PICK s \in Strings : Len(s) = req.len /\ \E op \in {"BSTRING", "LSTRING"} : return(op, s, 0)
    BY <1>7 DEF BSTRING_return, LSTRING_return, c_string
  <2> PICK op \in {"BSTRING", "LSTRING"} : return(op, s, 0)
    OBVIOUS
  <2>1. req.op = op
    BY DEF return, allocated
  <2>2. req.type = "STRING"
    BY <1>1, <2>1 DEF Callers
  <2>3. s \in Seq(Nat)
    BY ProgramAssumption
  <2> PICK o : o = new_object(s) OBVIOUS
  <2> PICK n : n = 0 + Len(extra) OBVIOUS
  <2>4. fields(o) = {} /\ Graph!takes_operands(abs_object(o), n)
    BY <2>2, <2>3, StringTakes DEF filled
  <2>5. \A i \in fields(o) : o.words[i] \in references(live_objects)
    BY <2>4
  <2> QED BY <1>1, <2>4, <2>5, ReturnedNew
<1> QED BY <1>4, <1>5, <1>6, <1>7 DEF Return

-------------------------------------------------------------------------------
(* Refinement: the interpreter implements the object graph *)

\* The program starts with an empty graph and roots that are no references.
LEMMA InitGraph == ASSUME Init, View PROVE Graph!Init
<1> PICK s : s = now_roots OBVIOUS
<1> PICK g : g = now_graph OBVIOUS
<1> PICK L : L = live_objects OBVIOUS
<1>1. /\ L = {} /\ DOMAIN g = {} /\ whole(s, g) /\ roots_in(references(L)) /\ extra \in Seq(Cell)
  <2>1. DOMAIN mem = {}
    BY DEF Init, GcInit
  <2> QED BY <2>1 DEF View
<1>2. abs_roots = s /\ abs_graph = g
  BY DEF Init, GcInit, abs_roots, abs_graph, collecting, gc_idle
<1>3. s \in Seq(Graph!range(s))
  <2> PICK V : V = {abs_word(q) : q \in references(L)} OBVIOUS
  <2> PICK A : A = shown(statics) OBVIOUS
  <2> PICK B : B = shown(stack) OBVIOUS
  <2> PICK C : C = shown_cells OBVIOUS
  <2>1. s = joined(A, B, C) /\ A \in Seq(V) /\ B \in Seq(V) /\ C \in Seq(V)
    BY <1>1, RootParts
  <2>2. s \in Seq(V)
    BY ONLY <2>1, Parted
  <2> PICK T : T = Graph!range(s) OBVIOUS
  <2> PICK n : n = Len(s) OBVIOUS
  <2>3. n \in Nat /\ s = [i \in 1 .. n |-> s[i]] /\ DOMAIN s = 1 .. n
    BY ONLY <2>2, n = Len(s)
  <2>4. \A i \in 1 .. n : s[i] \in T
    BY <2>3 DEF Graph!range
  <2>5. s \in Seq(T)
    BY ONLY <2>3, <2>4, FunctionIsSeq
  <2> QED BY <2>5
<1>4. Graph!refs(Graph!range(s)) = {}
  <2>1. refs_of(s) \subseteq {}
    BY <1>1 DEF whole
  <2> QED BY <2>1, GraphValues
<1>5. g = << >>
  <2>1. g = [d \in DOMAIN g |-> g[d]] /\ DOMAIN g = {}
    BY <1>1 DEF whole
  <2> QED BY <2>1
<1>6. /\ abs_roots \in Seq(Graph!range(abs_roots)) /\ Graph!refs(Graph!range(abs_roots)) = {}
      /\ abs_graph = << >>
  BY ONLY <1>2, <1>3, <1>4, <1>5
<1> QED BY ONLY <1>6, Zenon DEF Graph!Init

\* A state that stays the same shows the same graph.
LEMMA SameGraph == ASSUME UNCHANGED vars PROVE UNCHANGED <<abs_roots, abs_graph>>
<1>1. /\ abs_roots' = abs_roots
  BY DEF vars, clientVars, gcVars, abs_roots, collecting, gc_idle, now_roots, abs_word,
     is_valid_heap_pointer, is_object, object_at, cell_word
<1>2. /\ abs_graph' = abs_graph
  BY DEF vars, clientVars, gcVars, abs_graph, collecting, gc_idle, now_graph, live_objects,
     root_targets, field_targets, targets, root, root_count, fields, abs_object, abs_words, abs_word,
     is_valid_heap_pointer, is_object, object_at, cell_word
<1> QED BY <1>1, <1>2

\* Every instruction moves references or stores one.
LEMMA InstructionGraph ==
  ASSUME NoInteriorAddresses, Sound, View, View', Instruction PROVE Graph!Next
<1>1. ~LDA_C
  BY DEF NoInteriorAddresses, LDA_C, runs
<1>2. \/ MovesWords \/ ST_C \/ STA \/ STA_captured
      \/ ELEM_fail \/ STA_fail \/ LLENGTH_fail \/ PATT_str_fail
      \/ BARRAY \/ BSEXP \/ BCLOSURE \/ BSTRING \/ LSTRING
  BY <1>1 DEF Instruction, MovesWords
<1>3. Soundness /\ Callers
  BY DEF Sound
<1>4. CASE MovesWords
  <2>1. pc = "run" /\ pc' = "run"
    BY <1>4, MovesWordsRun
  <2> QED BY <1>3, <1>4, <2>1, MovesWordsMove DEF Graph!Next
<1>5. CASE ST_C \/ STA \/ STA_captured
  <2>1. pc = "run"
    BY InstructionRuns
  <2>2. \A a \in DOMAIN mem : mem[a].type = "STRING" => Len(mem[a].words) = mem[a].len
    BY <1>3, <2>1, ProgramRuns DEF Running
  <2> QED BY <1>3, <1>5, <2>1, <2>2, StoresMove DEF Graph!Next
<1>6. CASE ELEM_fail \/ STA_fail \/ LLENGTH_fail \/ PATT_str_fail
  <2>1. pc = "run" /\ failure
    BY <1>6, InstructionRuns DEF ELEM_fail, STA_fail, LLENGTH_fail, PATT_str_fail
  <2> QED BY <1>3, <2>1, FailureMoves DEF Graph!Next
<1>7. CASE BARRAY \/ BSEXP \/ BCLOSURE \/ BSTRING \/ LSTRING
  <2>1. pc = "run"
    BY InstructionRuns
  <2> QED BY <1>3, <1>7, <2>1, RequestMoves DEF Graph!Next
<1> QED BY <1>2, <1>4, <1>5, <1>6, <1>7

\* Every step of the program is a step of the graph, or none.
GraphInv == Sound /\ Reached /\ Identity

LEMMA StepGraph ==
  NoInteriorAddresses /\ GraphInv /\ GraphInv' /\ [Next]_vars => [Graph!Next]_Graph!vars
<1> SUFFICES ASSUME NoInteriorAddresses, GraphInv, GraphInv', [Next]_vars
             PROVE  Graph!Next \/ UNCHANGED <<abs_roots, abs_graph>>
  BY DEF Graph!vars
<1>1. gc_idle => View
  BY ViewHolds DEF GraphInv, Sound, Identity
<1>2. (Structure /\ Soundness /\ Numbered /\ gc_idle => View)'
  BY ViewHolds, PTL
<1>3. Structure' /\ Soundness' /\ Numbered'
  BY DEF GraphInv, Sound, Identity
<1>4. gc_idle' => View'
  BY <1>2, <1>3
<1>5. CASE Instruction
  <2>1. gc_idle /\ gc_idle'
    BY <1>5, InstructionRuns DEF gc_idle
  <2> QED BY <1>1, <1>4, <1>5, <2>1, InstructionGraph DEF GraphInv
<1>6. CASE Return
  <2>1. gc_idle /\ gc_idle'
    BY <1>6 DEF Return, BARRAY_return, BSEXP_return, BCLOSURE_return, BSTRING_return,
       LSTRING_return, return, allocated, place_object, gc_idle
  <2>2. Numbered /\ Callers /\ ClientTypeOK
    BY <2>1 DEF GraphInv, Sound, Identity, Soundness, Typed
  <2> QED BY <1>1, <1>4, <1>6, <2>1, <2>2, ReturnNews DEF Graph!Next
<1>7. CASE CollectStep
  BY <1>7, CollectorStutters DEF GraphInv
<1>8. CASE UNCHANGED vars
  BY <1>8, SameGraph
<1> QED BY <1>5, <1>6, <1>7, <1>8 DEF Next, Exited

\* The interpreter implements the object graph: its globals, operands and
\* registered cells hold values, its instructions move and store them and make
\* objects of them, and neither the addresses of the objects, nor their number,
\* nor any collection shows.
THEOREM ImplementsObjectGraphHolds ==
  ASSUME NoInteriorAddresses PROVE Spec => ImplementsObjectGraph
<1>1. Init => GraphInv
  BY InitIdentity DEF GraphInv
<1>2. GraphInv /\ [Next]_vars => GraphInv'
  BY StepSound, StepReached, StepIdentity DEF GraphInv
<1>3. Init => Graph!Init
  <2>1. ASSUME Init PROVE Structure /\ Soundness /\ Numbered /\ gc_idle
    BY <2>1, InitIdentity DEF Sound, Identity, Init, GcInit, gc_idle
  <2> QED BY <2>1, ViewHolds, InitGraph
<1>4. GraphInv /\ GraphInv' /\ [Next]_vars => [Graph!Next]_Graph!vars
  BY StepGraph
<1> QED BY <1>1, <1>2, <1>3, <1>4, PTL DEF Spec, ImplementsObjectGraph, Graph!Spec

-------------------------------------------------------------------------------
(* Programs with LDA_C.  The address of a captured variable lies inside a    *)
(* closure, and the collector would take it for the contents of an object:   *)
(* what follows is for runs in which none is left, in a root or in a field,  *)
(* whenever a collection starts.                                             *)

NoneAcrossCollections == pc = "alloc" /\ ~has_room(req.size) => NoDanglingPointers

\* Behind the code offset of a closure and before its end.
inside(p) == \E a \in DOMAIN mem : /\ mem[a].type = "CLOSURE"
                                   /\ get_object_content_ptr(a) < p /\ p < next_obj(a)
held == references(DOMAIN mem) \cup {p \in Nat : inside(p)}

\* The words of a closure are the code offset and the captured ones.
closures_filled(m) == \A a \in DOMAIN m : m[a].type = "CLOSURE" => Len(m[a].words) = m[a].len

\* While the program runs, words are references or captured addresses; while the
\* collector runs, there are references only.
Holding == /\ Typed /\ Marked = {}
           /\ roots_in(held) /\ fields_in(DOMAIN mem, held)
HoldingInv ==
  /\ Structure /\ Callers /\ closures_filled(mem)
  /\ gc_idle => Holding
  /\ ~gc_idle => Soundness

LEMMA HeldWords ==
  /\ held \in SUBSET Nat /\ references(DOMAIN mem) \subseteq held
  /\ references({}) \subseteq held
BY PlainReferences DEF held, references

LEMMA SoundIsHolding ==
  ASSUME Soundness, gc_idle PROVE Holding
<1>1. /\ Typed /\ Marked = {} /\ roots_in(references(DOMAIN mem))
      /\ fields_in(DOMAIN mem, references(DOMAIN mem))
  BY DEF Soundness, Clean
<1>2. references(DOMAIN mem) \subseteq held
  BY HeldWords
<1>3. stack \in Seq(held) /\ statics \in Seq(held)
  BY <1>1, <1>2, SeqGrows DEF roots_in
<1>4. cells_in(DOMAIN extra, held) /\ fields_in(DOMAIN mem, held)
  BY <1>1, <1>2 DEF roots_in, cells_in, fields_in
<1> QED BY <1>1, <1>3, <1>4 DEF Holding, roots_in

\* What lies inside an object lies there while no header changes.
LEMMA HeldStays ==
  ASSUME heap' = heap, same_headers(mem, mem') PROVE held' = held
<1>1. DOMAIN mem' = DOMAIN mem /\ \A a \in DOMAIN mem : next_obj(a)' = next_obj(a)
  BY DEF same_headers, next_obj, size_of
<1>2. \A p : inside(p)' = inside(p)
  BY <1>1 DEF inside, same_headers
<1> QED BY <1>1, <1>2 DEF held, references, outside

LEMMA SameHeadersRefl == ASSUME NEW m PROVE same_headers(m, m)
BY DEF same_headers

\* A step of the program that leaves the headers alone.
LEMMA HoldingStep ==
  ASSUME Holding, closures_filled(mem), gc_idle, gc_idle', heap' = heap, gc' = gc,
         objects(mem'), same_headers(mem, mem'), members_in(mem', held),
         stack' \in Seq(held), statics' \in Seq(held), locals' \in [DOMAIN locals' -> held],
         extra' \in Seq({"local"} \X DOMAIN locals'), Len(extra') <= MAX_EXTRA_ROOTS_NUMBER,
         \A i, j \in DOMAIN extra' : extra'[i] = extra'[j] => i = j,
         req' \in [op: {req'.op}, type: lama_type, len: Nat, size: Nat], cur_id' \in Nat
  PROVE  Holding' /\ closures_filled(mem')
<1>1. held' = held /\ held \subseteq Nat
  BY HeldStays, HeldWords
<1>2. TypedRoots'
  <2>1. stack' \in Seq(Nat) /\ statics' \in Seq(Nat) /\ locals' \in [DOMAIN locals' -> Nat]
    BY <1>1, SeqGrows
  <2>2. {"local"} \X DOMAIN locals' \subseteq Cell'
    BY DEF Cell
  <2>3. extra' \in Seq(Cell')
    BY <2>2, SeqGrows
  <2> QED BY <2>1, <2>3 DEF TypedRoots
<1>3. Typed' /\ Marked' = {}
  BY <1>2, ProgramTyped DEF Holding, same_headers
<1>4. cells_in(DOMAIN extra, held)'
  <2>1. ASSUME NEW i \in DOMAIN extra' PROVE cell_word(extra[i])' \in held
    <3>1. extra'[i] \in {"local"} \X DOMAIN locals'
      OBVIOUS
    <3>2. extra'[i][1] = "local" /\ extra'[i][2] \in DOMAIN locals'
      BY <3>1
    <3>3. cell_word(extra[i])' = locals'[extra'[i][2]]
      BY <3>2 DEF cell_word
    <3> QED BY <3>2, <3>3
  <2> QED BY <1>1, <2>1 DEF cells_in
<1>5. roots_in(held)'
  BY <1>1, <1>4 DEF roots_in
<1>6. fields_in(DOMAIN mem, held)'
  BY <1>1 DEF members_in, fields_in
<1>7. closures_filled(mem')
  BY DEF closures_filled, same_headers
<1> QED BY <1>3, <1>5, <1>6, <1>7 DEF Holding

\* What holds of the words whenever the program runs.
LEMMA HoldingRuns ==
  ASSUME HoldingInv, pc = "run"
  PROVE  /\ Holding /\ closures_filled(mem) /\ gc_idle
         /\ stack \in Seq(held) /\ statics \in Seq(held) /\ Len(stack) >= NG /\ Len(stack) \in Nat
         /\ objects(mem) /\ members_in(mem, held) /\ fields_in(DOMAIN mem, held)
         /\ extra = << >> /\ locals = << >>
         /\ req \in [op: {req.op}, type: lama_type, len: Nat, size: Nat] /\ cur_id \in Nat
         /\ DOMAIN mem \subseteq Nat
         /\ \A a \in DOMAIN mem : mem[a].type = "STRING" => Len(mem[a].words) = mem[a].len
<1>1. gc_idle
  BY DEF gc_idle
<1>2. Holding /\ closures_filled(mem) /\ Typed /\ ClientTypeOK /\ Callers
  BY <1>1 DEF HoldingInv, Holding, Typed
<1>3. stack \in Seq(held) /\ statics \in Seq(held) /\ fields_in(DOMAIN mem, held)
  BY <1>2 DEF Holding, roots_in
<1>4. members_in(mem, held)
  BY <1>3 DEF fields_in, members_in
<1>5. Len(stack) \in Nat
  BY <1>3
<1> QED BY <1>1, <1>2, <1>3, <1>4, <1>5 DEF Typed, ClientTypeOK, objects, Callers

\* A step that leaves the objects alone and pushes, pops or replaces words.
LEMMA StackHolding ==
  ASSUME HoldingInv, pc = "run", pc' \in {"run", "failed"},
         UNCHANGED <<heap, mem, statics, locals, extra, req, gc, cur_id>>,
         stack' \in Seq(held), Len(stack') >= NG
  PROVE  Holding' /\ closures_filled(mem') /\ Callers'
<1>1. /\ Holding /\ closures_filled(mem) /\ gc_idle /\ gc_idle' /\ objects(mem) /\ members_in(mem, held)
      /\ statics \in Seq(held) /\ extra = << >> /\ locals = << >>
      /\ req \in [op: {req.op}, type: lama_type, len: Nat, size: Nat] /\ cur_id \in Nat
  BY HoldingRuns DEF gc_idle
<1>2. same_headers(mem, mem')
  BY SameHeadersRefl
<1>3. /\ locals' \in [DOMAIN locals' -> held] /\ extra' \in Seq({"local"} \X DOMAIN locals')
      /\ Len(extra') <= MAX_EXTRA_ROOTS_NUMBER
      /\ \A i, j \in DOMAIN extra' : extra'[i] = extra'[j] => i = j
  BY <1>1, PoolAssumption
<1>4. Holding' /\ closures_filled(mem')
  BY <1>1, <1>2, <1>3, HoldingStep DEF objects, members_in
<1>5. Callers'
  BY DEF HoldingInv, Callers
<1> QED BY <1>4, <1>5

LEMMA ClosureWords ==
  ASSUME NEW n \in Nat PROVE obj_words("CLOSURE", n) = n + 2
<1>1. obj_bytes("CLOSURE", n) = 4 * n + 8
  BY DEF obj_bytes, DATA_HEADER_SZ, MEMBER_SIZE
<1>2. ASSUME NEW b \in Nat, b = 4 * n + 8 PROVE (b - 1) \div 4 = n + 1
  BY <1>2
<1> QED BY <1>1, <1>2 DEF obj_words, BYTES_TO_WORDS, WORD_BYTES

\* The address that LDA_C pushes lies inside the closure it is taken from.
LEMMA CapturedAddress ==
  ASSUME objects(mem), closures_filled(mem), NEW c \in Nat, is_closure(c), NEW i \in captured(object_at(c))
  PROVE  captured_addr(c, i) \in held
<1> PICK a : a = c - 8 OBVIOUS
<1> PICK n : n = mem[a].len OBVIOUS
<1>1. a \in DOMAIN mem /\ mem[a].type = "CLOSURE" /\ i \in fields(mem[a])
  BY DEF is_closure, is_object, object_at, captured, TO_DATA, DATA_HEADER_SZ
<1>2. /\ n \in Nat /\ Len(mem[a].words) = n /\ i \in 2 .. n
  <2>1. mem[a] \in Object
    BY <1>1 DEF objects
  <2>2. n \in Nat /\ Len(mem[a].words) = n
    BY <1>1, <2>1 DEF Object, closures_filled
  <2> QED BY <1>1, <2>2 DEF fields, first_field
<1>3. next_obj(a) = a + 4 * (n + 2)
  <2>1. size_of(mem[a]) = n + 2
    BY <1>1, <1>2, ClosureWords DEF size_of
  <2> QED BY <1>2, <2>1 DEF next_obj, WORDS_TO_BYTES, WORD_BYTES
<1>4. captured_addr(c, i) = c + 4 * (i - 1)
  BY DEF captured_addr, MEMBER_SIZE
<1>5. get_object_content_ptr(a) = c
  BY DEF get_object_content_ptr, DATA_HEADER_SZ
<1>6. /\ c + 4 * (i - 1) \in Nat /\ c < c + 4 * (i - 1) /\ c + 4 * (i - 1) < a + 4 * (n + 2)
  <2>1. n \in Nat /\ i \in Nat /\ i >= 2 /\ i <= n
    BY <1>2
  <2>2. a + 4 * (n + 2) = c + 4 * n
    BY <2>1
  <2> QED BY <2>1, <2>2
<1>7. inside(c + 4 * (i - 1))
  BY <1>1, <1>3, <1>5, <1>6 DEF inside
<1> QED BY <1>4, <1>6, <1>7 DEF held

LEMMA AddressPushed ==
  ASSUME HoldingInv, LDA_C
  PROVE  pc = "run" /\ stack_only /\ stack' \in Seq(held) /\ Len(stack') >= NG
<1>1. pc = "run" /\ stack_only
  BY DEF LDA_C, runs
<1>2. stack \in Seq(held) /\ Len(stack) \in Nat /\ Len(stack) >= NG /\ objects(mem) /\ closures_filled(mem)
  BY <1>1, HoldingRuns
<1> PICK j \in DOMAIN stack : /\ is_closure(stack[j])
                              /\ \E i \in captured(object_at(stack[j])) :
                                   stack' = push(stack, captured_addr(stack[j], i))
  BY DEF LDA_C
<1> PICK i \in captured(object_at(stack[j])) : stack' = push(stack, captured_addr(stack[j], i))
  OBVIOUS
<1>3. stack[j] \in Nat
  <2>1. stack[j] \in held
    BY <1>2
  <2> QED BY <2>1, HeldWords
<1>4. captured_addr(stack[j], i) \in held
  BY <1>2, <1>3, CapturedAddress
<1>5. stack' \in Seq(held) /\ Len(stack') = Len(stack) + 1
  BY <1>2, <1>4, Pushing
<1>6. NG \in Nat
  BY ProgramAssumption
<1> QED BY <1>1, <1>2, <1>5, <1>6

\* The instructions that move words, LDA_C and those that fail.
LEMMA MovesHolding ==
  ASSUME HoldingInv,
         MovesWords \/ LDA_C \/ ELEM_fail \/ STA_fail \/ LLENGTH_fail \/ PATT_str_fail
  PROVE  Holding' /\ closures_filled(mem') /\ Callers'
<1>1. CASE MovesWords
  <2>1. pc = "run"
    BY <1>1 DEF MovesWords, CONST, DROP, DUP, LD, ST, LDA, STA_ref, LWRITE, LD_C, ELEM, LLENGTH,
       BINOP, LREAD, TAG, ARRAY, PATT, PATT_str, runs
  <2> PICK O : O = DOMAIN mem OBVIOUS
  <2> PICK R : R = held OBVIOUS
  <2>2. /\ objects(mem) /\ O \in SUBSET DOMAIN mem /\ R \in SUBSET Nat /\ references({}) \subseteq R
        /\ fields_in(O, R) /\ stack \in Seq(R) /\ Len(stack) >= NG
        /\ \A p \in R : is_object(p) => TO_DATA(p) \in O
    BY <2>1, HoldingRuns, HeldWords DEF is_object
  <2>3. stack_only /\ stack' \in Seq(held) /\ Len(stack') >= NG
    BY <1>1, <2>2, MovedWords
  <2> QED BY <2>1, <2>3, StackHolding DEF stack_only
<1>2. CASE LDA_C
  BY <1>2, AddressPushed, StackHolding DEF stack_only
<1>3. CASE ELEM_fail \/ STA_fail \/ LLENGTH_fail \/ PATT_str_fail
  <2>1. pc = "run" /\ failure
    BY <1>3 DEF ELEM_fail, STA_fail, LLENGTH_fail, PATT_str_fail, runs
  <2>2. stack \in Seq(held) /\ Len(stack) >= NG
    BY <2>1, HoldingRuns
  <2> QED BY <2>1, <2>2, StackHolding DEF failure
<1> QED BY <1>1, <1>2, <1>3

\* Those that store a word.
LEMMA StoresHolding ==
  ASSUME HoldingInv, StoresWord PROVE Holding' /\ closures_filled(mem') /\ Callers'
<1> PICK R : R = held OBVIOUS
<1>1. pc = "run"
  BY DEF StoresWord, ST_C, STA, STA_captured, runs
<1>2. /\ Holding /\ closures_filled(mem) /\ gc_idle /\ objects(mem) /\ fields_in(DOMAIN mem, R)
      /\ R \in SUBSET Nat /\ stack \in Seq(R) /\ statics \in Seq(R) /\ Len(stack) >= NG
      /\ extra = << >> /\ locals = << >>
      /\ req \in [op: {req.op}, type: lama_type, len: Nat, size: Nat] /\ cur_id \in Nat
      /\ \A a \in DOMAIN mem : mem[a].type = "STRING" => Len(mem[a].words) = mem[a].len
  BY <1>1, HoldingRuns, HeldWords
<1>3. /\ UNCHANGED <<heap, statics, locals, extra, pc, req, gc, cur_id>>
      /\ stack' \in Seq(R) /\ Len(stack') >= NG /\ stored(R)
  BY <1>2, StoredWord
<1> PICK a \in DOMAIN mem : \E i \in DOMAIN mem[a].words : \E v \in Nat :
      /\ mem' = [mem EXCEPT ![a].words[i] = v]
      /\ mem[a].type # "STRING" => v \in R
  BY <1>3 DEF stored
<1> PICK i \in DOMAIN mem[a].words, v \in Nat :
      /\ mem' = [mem EXCEPT ![a].words[i] = v]
      /\ mem[a].type # "STRING" => v \in R
  OBVIOUS
<1>4. objects(mem') /\ same_headers(mem, mem') /\ members_in(mem', R)
  BY <1>2, StoredFields
<1>5. /\ gc_idle' /\ locals' \in [DOMAIN locals' -> held] /\ extra' \in Seq({"local"} \X DOMAIN locals')
      /\ Len(extra') <= MAX_EXTRA_ROOTS_NUMBER
      /\ \A k, j \in DOMAIN extra' : extra'[k] = extra'[j] => k = j
  BY <1>1, <1>2, <1>3, PoolAssumption DEF gc_idle
<1>6. Holding' /\ closures_filled(mem')
  BY <1>2, <1>3, <1>4, <1>5, HoldingStep
<1> QED BY <1>1, <1>3, <1>6 DEF HoldingInv, Callers

\* Those that allocate, up to the call of alloc.
LEMMA RequestsHolding ==
  ASSUME HoldingInv, Requests PROVE Holding' /\ closures_filled(mem') /\ Callers'
<1> PICK R : R = held OBVIOUS
<1>1. pc = "run"
  BY DEF Requests, BARRAY, BSEXP, BCLOSURE, BSTRING, LSTRING, requests, request
<1>2. /\ Holding /\ closures_filled(mem) /\ gc_idle /\ objects(mem) /\ members_in(mem, R) /\ Callers
      /\ R \in SUBSET Nat /\ references({}) \subseteq R /\ stack \in Seq(R) /\ statics \in Seq(R)
      /\ cur_id \in Nat
  BY <1>1, HoldingRuns, HeldWords DEF HoldingInv
<1>3. requested(R) /\ Callers'
  BY <1>2, RequestedWords
<1> PICK op : \E t \in lama_type, n \in Nat : request(op, t, n)
  BY <1>3 DEF requested
<1> PICK t \in lama_type, n \in Nat : request(op, t, n)
  OBVIOUS
<1>4. /\ gc_idle' /\ mem' = mem /\ heap' = heap /\ gc' = gc /\ cur_id' = cur_id + 1
      /\ req' = [op |-> op, type |-> t, len |-> n, size |-> obj_words(t, n)]
  BY DEF request, gc_idle
<1>5. obj_words(t, n) \in Nat
  <2>1. obj_bytes(t, n) \in Nat /\ obj_bytes(t, n) >= 8
    BY DEF obj_bytes, DATA_HEADER_SZ, MEMBER_SIZE, lama_type
  <2> QED BY <2>1 DEF obj_words, BYTES_TO_WORDS, WORD_BYTES
<1>6. req' \in [op: {req'.op}, type: lama_type, len: Nat, size: Nat] /\ cur_id' \in Nat
  BY <1>2, <1>4, <1>5
<1>7. objects(mem') /\ same_headers(mem, mem') /\ members_in(mem', R)
  BY <1>2, <1>4, SameHeadersRefl DEF objects, members_in
<1>8. /\ statics' \in Seq(held) /\ stack' \in Seq(held) /\ locals' \in [DOMAIN locals' -> held]
      /\ extra' \in Seq({"local"} \X DOMAIN locals') /\ Len(extra') <= MAX_EXTRA_ROOTS_NUMBER
      /\ \A i, j \in DOMAIN extra' : extra'[i] = extra'[j] => i = j
  BY <1>2, <1>3 DEF requested
<1>9. Holding' /\ closures_filled(mem')
  BY <1>2, <1>4, <1>6, <1>7, <1>8, HoldingStep
<1> QED BY <1>3, <1>9

\* What lies inside an object still does when there is one more.
LEMMA HeldGrows ==
  ASSUME heap'.begin = heap.begin, heap.current \notin DOMAIN mem,
         DOMAIN mem' = DOMAIN mem \cup {heap.current}, \A a \in DOMAIN mem : mem'[a] = mem[a]
  PROVE  held \subseteq held' /\ references(DOMAIN mem \cup {heap.current}) \subseteq held'
<1>1. \A a \in DOMAIN mem : next_obj(a)' = next_obj(a)
  BY DEF next_obj
<1>2. \A p : inside(p) => inside(p)'
  BY <1>1 DEF inside
<1>3. references(DOMAIN mem \cup {heap.current}) \subseteq held'
  BY DEF held, references, outside
<1>4. references(DOMAIN mem) \subseteq references(DOMAIN mem \cup {heap.current})
  BY ReferencesGrow
<1> QED BY <1>2, <1>3, <1>4 DEF held

\* The words of the new object are operands, and as many as a closure needs.
LEMMA ReturnHolding ==
  ASSUME Structure, Holding, Callers, closures_filled(mem), gc_idle, Return
  PROVE  Holding' /\ closures_filled(mem') /\ Callers'
<1> PICK R : R = held OBVIOUS
<1> PICK P : P = held' OBVIOUS
<1> PICK at : at = heap.current OBVIOUS
<1>1. /\ Typed /\ Marked = {} /\ ClientTypeOK /\ Places
      /\ stack \in Seq(R) /\ statics \in Seq(R) /\ fields_in(DOMAIN mem, R)
  BY PlacesOf DEF Holding, roots_in, Typed
<1>2. R \in SUBSET Nat
  BY HeldWords
<1>3. returned(R)
  BY <1>1, <1>2, ReturnedWords
<1> PICK op : \E contents \in Seq(Nat), n \in Nat :
      /\ return(op, contents, n) /\ n <= Len(stack) - NG
      /\ req.type \in {"STRING", "CLOSURE"} => Len(contents) = req.len
      /\ \A i \in first_field(req.type, req.len) .. Len(contents) : contents[i] \in R
  BY <1>3 DEF returned
<1> PICK contents \in Seq(Nat), n \in Nat :
      /\ return(op, contents, n) /\ n <= Len(stack) - NG
      /\ req.type \in {"STRING", "CLOSURE"} => Len(contents) = req.len
      /\ \A i \in first_field(req.type, req.len) .. Len(contents) : contents[i] \in R
  OBVIOUS
<1> PICK o : o = new_object(contents) OBVIOUS
<1>4. /\ place_object(o) /\ heap'.begin = heap.begin /\ at \in Nat /\ at \notin DOMAIN mem
      /\ DOMAIN mem' = DOMAIN mem \cup {at} /\ mem'[at] = o
      /\ \A a \in DOMAIN mem : mem'[a] = mem[a]
  <2>1. place_object(o)
    BY DEF return, allocated
  <2>2. at \in Nat /\ at \notin DOMAIN mem
    BY <1>1 DEF Places
  <2>3. mem' = [a \in DOMAIN mem \cup {at} |-> IF a = at THEN o ELSE mem[a]]
    BY <2>1 DEF place_object
  <2>4. heap'.begin = heap.begin
    BY <1>1, <2>1 DEF place_object, ClientTypeOK
  <2> QED BY <2>1, <2>2, <2>3, <2>4
<1>5. R \subseteq P /\ new_address \in P /\ P \subseteq Nat
  <2>1. P \subseteq Nat
    BY DEF held, references
  <2>2. R \subseteq P /\ references(DOMAIN mem \cup {at}) \subseteq P
    BY <1>4, HeldGrows
  <2> QED BY <1>4, <2>1, <2>2, NewAddress
<1>6. /\ pc' = "run" /\ stack' \in Seq(P) /\ Len(stack') >= NG /\ statics' \in Seq(P)
      /\ locals' = << >> /\ extra' = << >> /\ req' = req /\ cur_id' = cur_id
  BY <1>1, <1>5, ReturnedStack
<1>7. /\ o \in Object /\ o.type = req.type /\ o.len = req.len /\ o.words = contents
      /\ ~o.marked /\ ~o.enqueued
  BY <1>1 DEF new_object, Object, ClientTypeOK, Word
<1>8. Typed' /\ Marked' = {}
  <2>1. stack' \in Seq(Nat) /\ statics' \in Seq(Nat)
    BY <1>5, <1>6, SeqGrows
  <2>2. TypedRoots'
    BY <1>6, <2>1, PoolAssumption DEF TypedRoots
  <2> QED BY <1>1, <1>4, <1>6, <1>7, <2>2, PlacedTyped
<1>9. roots_in(held)'
  BY <1>6 DEF roots_in, cells_in
<1>10. fields_in(DOMAIN mem, held)'
  <2>1. ASSUME NEW a \in DOMAIN mem' PROVE \A i \in fields(mem'[a]) : mem'[a].words[i] \in P
    <3>1. CASE a = at
      <4>1. \A i \in fields(o) : o.words[i] \in P
        BY <1>5, <1>7 DEF fields
      <4> QED BY <1>4, <3>1, <4>1
    <3>2. CASE a # at
      BY <1>1, <1>4, <1>5, <3>2 DEF fields_in
    <3> QED BY <3>1, <3>2
  <2> QED BY <2>1 DEF fields_in, fields
<1>11. closures_filled(mem')
  BY <1>4, <1>7 DEF closures_filled
<1> QED BY <1>6, <1>8, <1>9, <1>10, <1>11 DEF Holding, Callers

-------------------------------------------------------------------------------
(* Programs with LDA_C: the collector *)

\* A captured address is inside the heap and outside of any header: where
\* nothing dangles there is none, so the collector starts from references.
LEMMA NoneCapturedNow ==
  ASSUME Structure, Holding, gc_idle, NoDanglingPointers PROVE Soundness
<1>1. Typed /\ Marked = {} /\ Places /\ ClientTypeOK /\ heap.begin \in Bases
      /\ stack \in Seq(Nat) /\ statics \in Seq(Nat) /\ extra \in Seq(Cell)
  BY PlacesOf DEF Holding, Typed, ClientTypeOK, Word
<1>2. ASSUME NEW p \in held, sound(p) PROVE p \in references(DOMAIN mem)
  <2>1. CASE p \in references(DOMAIN mem)
    BY <2>1
  <2>2. CASE p \in Nat /\ inside(p)
    <3> PICK a \in DOMAIN mem : get_object_content_ptr(a) < p /\ p < next_obj(a)
      BY <2>2 DEF inside
    <3>1. heap.begin <= p /\ p <= heap.current
      BY <1>1, <2>2 DEF Places, get_object_content_ptr, DATA_HEADER_SZ
    <3>2. UNBOXED(p) \/ is_object(p)
      BY <1>2, <3>1 DEF sound, is_valid_heap_pointer
    <3> QED BY <2>2, <3>2 DEF references, outside, is_object
  <2> QED BY <1>2, <2>1, <2>2 DEF held
<1>3. roots_in(references(DOMAIN mem))
  <2>1. \A i \in 1 .. root_count : root(i) \in held /\ sound(root(i))
    BY <1>1, RootsIn DEF Holding, NoDanglingPointers
  <2>2. \A i \in 1 .. root_count : root(i) \in references(DOMAIN mem)
    BY <1>2, <2>1
  <2> PICK R : R = references(DOMAIN mem) OBVIOUS
  <2>3. roots_in(R)
    BY <1>1, <2>2, RootsAreAll
  <2> QED BY <2>3
<1>4. fields_in(DOMAIN mem, references(DOMAIN mem))
  BY <1>2 DEF Holding, NoDanglingPointers, fields_in
<1>5. Clean
  BY <1>1, <1>3, <1>4 DEF Clean
<1> QED BY <1>1, <1>5 DEF gc_idle, Soundness, MarkingRoots, Queue, Traced, Closed, Moved,
        UpdatingObjects, FixingRoots, Relocated

\* Every object has the header of an old one and as many words.
LEMMA FilledFrom ==
  ASSUME closures_filled(mem),
         \A b \in DOMAIN mem' : \E a \in DOMAIN mem :
           /\ mem'[b].type = mem[a].type /\ mem'[b].len = mem[a].len
           /\ Len(mem'[b].words) = Len(mem[a].words)
  PROVE  closures_filled(mem')
BY DEF closures_filled

\* The collector leaves every closure the words it has.
LEMMA CollectorFills ==
  ASSUME Structure, Soundness, CollectStep, closures_filled(mem) PROVE closures_filled(mem')
<1>1. objects(mem) /\ objects(mem')
  <2>1. Soundness'
    BY CollectorSound
  <2> QED BY <2>1 DEF Soundness, Typed, ClientTypeOK, objects
<1>2. CASE mem' = mem
  BY <1>2
<1>3. CASE gc_alloc_dump
  BY <1>2, <1>3 DEF gc_alloc_dump, gc_alloc
<1>4. CASE (Mark \/ compute_location) /\ UNCHANGED <<cur_id, dump>>
  <2>1. same_words(mem, mem')
    BY <1>4, MarkView
  <2> QED BY <2>1, FilledFrom DEF same_words
<1>5. CASE mremap
  <2> PICK d \in Int : \A y \in DOMAIN mem' : y - d \in DOMAIN mem /\ mem'[y] = mem[y - d]
    BY <1>5, MremapShift
  <2>1. ASSUME NEW y \in DOMAIN mem'
        PROVE  \E a \in DOMAIN mem : /\ mem'[y].type = mem[a].type /\ mem'[y].len = mem[a].len
                                     /\ Len(mem'[y].words) = Len(mem[a].words)
    <3> PICK a : a = y - d OBVIOUS
    <3>1. a \in DOMAIN mem /\ mem'[y] = mem[a]
      OBVIOUS
    <3> QED BY <3>1
  <2> QED BY <2>1, FilledFrom
<1>6. CASE update_object
  <2> PICK it : it = gc.it OBVIOUS
  <2>1. /\ pc = "update_references" /\ it < heap.current
    BY <1>6 DEF update_object
  <2>2. it \in DOMAIN mem
    BY <2>1, PlacesOf DEF Soundness, UpdatingObjects, boundary, Places
  <2>3. /\ DOMAIN mem' = DOMAIN mem
        /\ \A a \in DOMAIN mem : /\ mem'[a].type = mem[a].type /\ mem'[a].len = mem[a].len
                                 /\ a # it \/ ~mem[it].marked => mem'[a] = mem[a]
        /\ mem[it].marked => DOMAIN mem'[it].words = DOMAIN mem[it].words
    BY <1>1, <1>6, <2>2, UpdatedObject
  <2>4. ASSUME mem[it].marked PROVE Len(mem'[it].words) = Len(mem[it].words)
    <3>1. mem[it].words \in Seq(Nat) /\ mem'[it].words \in Seq(Nat)
      BY <1>1, <2>2, <2>3 DEF objects, Object, Word
    <3> QED BY <2>3, <2>4, <3>1, SameLength
  <2> QED BY <2>2, <2>3, <2>4, FilledFrom
<1>7. CASE fix_stack \/ fix_extra_root \/ fix_statics
  BY <1>2, <1>7 DEF fix_stack, fix_extra_root, fix_statics
<1>8. CASE relocate_object
  <2> PICK it : it = gc.it OBVIOUS
  <2>1. CASE ~mem[it].marked
    BY <1>2, <1>8, <2>1 DEF relocate_object
  <2>2. CASE mem[it].marked
    <3> PICK f, g : slides(it, f, g)
      BY <1>8, <2>2, RelocateMoves
    <3>1. /\ it \in DOMAIN mem /\ mem'[f] = relocated(mem[it])
          /\ \A a \in DOMAIN mem' : a = f \/ (a \in DOMAIN mem /\ mem'[a] = mem[a])
      BY DEF slides, to_move
    <3>2. /\ mem'[f].type = mem[it].type /\ mem'[f].len = mem[it].len
          /\ mem'[f].words = mem[it].words
      BY <1>1, <3>1, Relocatee DEF objects
    <3> QED BY <3>1, <3>2, FilledFrom
  <2> QED BY <2>1, <2>2
<1>9. CASE compact_phase_done
  <2>1. DOMAIN mem' \subseteq DOMAIN mem /\ \A a \in DOMAIN mem' : mem'[a] = mem[a]
    BY <1>9 DEF compact_phase_done
  <2> QED BY <2>1, FilledFrom
<1> QED BY <1>3, <1>4, <1>5, <1>6, <1>7, <1>8, <1>9 DEF CollectStep, Compact

LEMMA SoundHoldsWords == Soundness /\ gc_idle => Holding
BY SoundIsHolding

LEMMA SoundHoldsWordsNext == (Soundness /\ gc_idle => Holding)'
BY SoundHoldsWords, PTL

\* Outside of a collection the only step of the collector is its start.
LEMMA CollectorStarts ==
  ASSUME CollectStep, gc_idle PROVE gc_alloc_dump
<1>1. ~marking /\ ~compacting
  BY DEF gc_idle, marking, compacting
<1>2. ASSUME Mark PROVE marking
  BY <1>2 DEF Mark, mark_skip, mark_start, mark_dequeue, mark_field, mark_fields_done,
     mark_done, mark_phase_done, marking
<1>3. ASSUME Compact PROVE compacting
  <2>0. CASE mremap
    BY <2>0 DEF mremap, compacting
  <2>1. CASE compute_location \/ update_object
    BY <2>1 DEF compute_location, update_object, compacting
  <2>2. CASE fix_stack \/ fix_extra_root \/ fix_statics
    BY <2>2 DEF fix_stack, fix_extra_root, fix_statics, compacting
  <2>3. CASE relocate_object \/ compact_phase_done
    BY <2>3 DEF relocate_object, compact_phase_done, compacting
  <2> QED BY <1>3, <2>0, <2>1, <2>2, <2>3 DEF Compact
<1> QED BY <1>1, <1>2, <1>3 DEF CollectStep

\* Wherever the collector takes a step, nothing dangles.
LEMMA CollectsReferences ==
  ASSUME HoldingInv, NoneAcrossCollections, CollectStep PROVE Structure /\ Soundness
<1>1. CASE gc_idle
  <2>1. pc = "alloc" /\ ~has_room(req.size)
    BY <1>1, CollectorStarts DEF gc_alloc_dump, gc_alloc
  <2>2. NoDanglingPointers
    BY <2>1 DEF NoneAcrossCollections
  <2> QED BY <1>1, <2>2, NoneCapturedNow DEF HoldingInv
<1> QED BY <1>1 DEF HoldingInv

LEMMA CollectorHolding ==
  ASSUME HoldingInv, NoneAcrossCollections, CollectStep PROVE HoldingInv'
<1>1. Structure /\ Callers /\ closures_filled(mem) /\ Structure' /\ Soundness
  BY CollectorStep, CollectsReferences DEF HoldingInv
<1>2. Soundness' /\ Callers' /\ closures_filled(mem')
  BY <1>1, CollectorSound, CollectorCallers, CollectorFills
<1> QED BY <1>1, <1>2, SoundHoldsWordsNext DEF HoldingInv

LEMMA CollectorReaches ==
  ASSUME HoldingInv, NoneAcrossCollections, Reached, [Next]_vars PROVE Reached'
<1>1. CASE CollectStep
  BY <1>1, CollectsReferences, CollectReached
<1>2. CASE UNCHANGED vars
  <2>1. CASE gc_idle
    <3>1. gc_idle'
      BY <1>2, <2>1 DEF vars, clientVars, gcVars, gc_idle
    <3> QED BY <3>1 DEF gc_idle, Reached, marking
  <2> QED BY <1>2, <2>1, StutteringReached DEF HoldingInv, vars
<1> QED BY <1>1, <1>2, ProgramReached DEF Next, Exited

-------------------------------------------------------------------------------
(* Programs with LDA_C: the invariant and what it implies *)

LEMMA InitHolding == ASSUME Init PROVE HoldingInv
<1>1. Structure /\ Soundness /\ Callers
  BY InitSound DEF Sound
<1>2. gc_idle /\ closures_filled(mem)
  BY DEF Init, GcInit, gc_idle, closures_filled
<1> QED BY <1>1, <1>2, SoundIsHolding DEF HoldingInv

LEMMA StutteringHolding ==
  ASSUME Holding, UNCHANGED gcVars, UNCHANGED cur_id PROVE Holding'
<1>1. UNCHANGED <<heap, mem, stack, statics, locals, extra, pc, req, gc>>
  BY DEF gcVars
<1>2. Typed' /\ Marked' = {}
  BY <1>1 DEF Holding, Typed, ClientTypeOK, Cell, gc_idle, marking, compacting, Enqueued, Marked
<1>3. held' = held
  BY <1>1, SameHeadersRefl, HeldStays
<1>4. roots_in(held)' /\ fields_in(DOMAIN mem, held)'
  BY <1>1, <1>3 DEF Holding, roots_in, cells_in, cell_word, fields_in
<1> QED BY <1>2, <1>4 DEF Holding

LEMMA StepHolding ==
  ASSUME HoldingInv, NoneAcrossCollections, [Next]_vars PROVE HoldingInv'
<1>1. Structure /\ Callers /\ closures_filled(mem) /\ Structure'
  BY StepStructure DEF HoldingInv
<1>2. CASE Instruction
  <2>1. pc = "run" /\ gc_idle'
    BY <1>2, InstructionRuns DEF gc_idle
  <2>2. \/ MovesWords \/ LDA_C \/ StoresWord \/ Requests
        \/ ELEM_fail \/ STA_fail \/ LLENGTH_fail \/ PATT_str_fail
    BY <1>2 DEF Instruction, MovesWords, StoresWord, Requests
  <2>3. Holding' /\ closures_filled(mem') /\ Callers'
    BY <2>2, MovesHolding, StoresHolding, RequestsHolding
  <2> QED BY <1>1, <2>1, <2>3 DEF HoldingInv
<1>3. CASE Return
  <2>1. gc_idle /\ pc' = "run"
    BY <1>3 DEF Return, BARRAY_return, BSEXP_return, BCLOSURE_return, BSTRING_return,
                LSTRING_return, return, allocated, place_object, gc_idle
  <2>2. Holding' /\ closures_filled(mem') /\ Callers'
    BY <1>1, <1>3, <2>1, ReturnHolding DEF HoldingInv
  <2> QED BY <1>1, <2>1, <2>2 DEF HoldingInv, gc_idle
<1>4. CASE CollectStep
  BY <1>4, CollectorHolding
<1>5. CASE UNCHANGED vars
  <2>1. UNCHANGED gcVars /\ UNCHANGED cur_id
    BY <1>5 DEF vars, clientVars
  <2>2. Soundness => Soundness'
    BY <2>1, StutteringSound
  <2>3. Callers' /\ closures_filled(mem') /\ gc_idle' = gc_idle
    BY <1>1, <2>1 DEF gcVars, Callers, gc_idle
  <2>4. Holding => Holding'
    BY <2>1, StutteringHolding
  <2> QED BY <1>1, <2>2, <2>3, <2>4 DEF HoldingInv
<1> QED BY <1>2, <1>3, <1>4, <1>5 DEF Next, Exited

\* The invariant holds as long as no captured address is left in a root or in a
\* field when a collection starts, which is so in a program without LDA_C.
THEOREM HoldingHolds == Spec /\ []NoneAcrossCollections => []HoldingInv
<1>1. Init => HoldingInv
  BY InitHolding
<1>2. HoldingInv /\ NoneAcrossCollections /\ [Next]_vars => HoldingInv'
  BY StepHolding
<1> QED BY <1>1, <1>2, PTL DEF Spec

\* A word of the stack that looks like a heap pointer, and is not the contents
\* of an object, is the address of a captured variable: it lies behind the code
\* offset of a closure and before its end, wherever collections have moved
\* closures before it was pushed.
THEOREM CapturedAddressesInsideHolds ==
  Spec /\ []NoneAcrossCollections => []CapturedAddressesInside
<1>1. HoldingInv => CapturedAddressesInside
  <2> SUFFICES ASSUME HoldingInv, pc = "run", NEW i \in DOMAIN stack,
                      is_valid_heap_pointer(stack[i]), ~is_object(stack[i])
               PROVE  inside(stack[i])
    BY DEF CapturedAddressesInside, inside
  <2>1. stack \in Seq(held) /\ Typed
    BY HoldingRuns DEF Holding
  <2>2. stack[i] \in held
    BY <2>1
  <2>3. stack[i] \notin references(DOMAIN mem)
    <3>1. heap.begin \in Bases /\ heap.begin \in Nat
      BY <2>1, BasesAssumption DEF Typed
    <3> QED BY <3>1 DEF references, outside, is_valid_heap_pointer, is_object
  <2> QED BY <2>2, <2>3 DEF held
<1> QED BY <1>1, HoldingHolds, PTL

\* Such a collection marks exactly what the roots reach.
THEOREM CapturedMarkedAreReachable ==
  Spec /\ []NoneAcrossCollections => []MarkedAreReachable
<1>1. Init => HoldingInv /\ Reached
  BY InitHolding DEF Init, GcInit, Reached, marking
<1>2. HoldingInv /\ Reached => MarkedAreReachable
  <2>1. CASE gc_idle
    BY <2>1 DEF gc_idle, MarkedAreReachable
  <2> QED BY <2>1, MarkedIsLive DEF HoldingInv
<1>3. HoldingInv /\ Reached /\ NoneAcrossCollections /\ [Next]_vars => (HoldingInv /\ Reached)'
  BY StepHolding, CollectorReaches
<1> QED BY <1>1, <1>2, <1>3, PTL DEF Spec

\* Captured addresses that are gone before every collection do it no harm: the
\* variables keep their types, the queue of mark() is what its comments say, and
\* the program never sees a bit of a forward_address set.
THEOREM CapturedCollectionsSafe ==
  Spec /\ []NoneAcrossCollections => [](TypeOK /\ QueueInvariant /\ BitsClearOutsideCollection)
<1>1. HoldingInv => TypeOK /\ QueueInvariant /\ BitsClearOutsideCollection
  <2> SUFFICES ASSUME HoldingInv PROVE TypeOK /\ QueueInvariant /\ BitsClearOutsideCollection
    OBVIOUS
  <2>1. Callers
    BY DEF HoldingInv
  <2>2. CASE gc_idle
    <3>1. Typed /\ ClientTypeOK /\ Marked = {}
      BY <2>2 DEF HoldingInv, Holding, Typed
    <3>2. QueueInvariant
      BY <2>2 DEF gc_idle, QueueInvariant
    <3>3. BitsClearOutsideCollection
      BY <2>2, <3>1 DEF BitsClearOutsideCollection, Typed, Marked, Enqueued, gc_idle
    <3> QED BY <2>1, <3>1, <3>2, <3>3 DEF TypeOK, Callers
  <2>3. CASE ~gc_idle
    BY <2>1, <2>3, SoundnessImplies DEF HoldingInv, TypeOK, Callers
  <2> QED BY <2>2, <2>3
<1> QED BY <1>1, HoldingHolds, PTL
===============================================================================
