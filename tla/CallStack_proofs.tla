--------------------------- MODULE CallStack_proofs ---------------------------
(***************************************************************************)
(* The invariants of the two stacks of iterinter.c, for all programs that  *)
(* pop operands of their own frames only, whatever the sizes of the stacks *)
(* and the functions of the program are.                                   *)
(***************************************************************************)
EXTENDS CallStackProperties, Integers, SequenceTheorems, TLAPS

(***************************************************************************)
(* The inductive invariant.  Frames are compared with all frames above     *)
(* them, not with the next one only, and what BEGIN will find is stated    *)
(* while a call is under way: the return address on top of the call stack, *)
(* the arguments on top of the operands, and a called closure under them.  *)
(***************************************************************************)

Whole == Len(call_stack) = 5 * depth - 1 \/ Len(call_stack) = 5 * depth
Registers ==
  \A j \in 1 .. depth : /\ fp_of(j) \in Nat /\ n_args_of(j) \in Nat /\ n_locals_of(j) \in Nat
                        /\ closure_flag(j) \in {0, 1}
ReturnAddresses == \A j \in 2 .. depth + 1 : block(j) <= Len(call_stack) => return_address(j) \in Label

Ordered == /\ \A j \in 1 .. depth : NG < bottom_of(j)
           /\ \A i, j \in 1 .. depth : i < j => fp_of(i) + n_locals_of(i) <= bottom_of(j)
           /\ depth > 0 => fp + n_locals <= sp

is_closure_of(v, args, locals) == v \in Closure /\ v.closure_of = [args |-> args, locals |-> locals]
ClosuresUnder ==
  \A j \in 1 .. depth : closure_flag(j) = 1 =>
    is_closure_of(stack[bottom_of(j)], n_args_of(j), n_locals_of(j))

the_flag == IF is_closure THEN 1 ELSE 0
Called == status = "begin" =>
  /\ callee.args + the_flag <= IF depth = 0 THEN 0 ELSE operands
  /\ is_closure => is_closure_of(stack[sp - callee.args - 1], callee.args, callee.locals)

CInv == /\ TypeOK /\ CallStackBalanced /\ Whole
        /\ Registers /\ ReturnAddresses
        /\ Ordered /\ ClosuresUnder /\ Called

-------------------------------------------------------------------------------
(* Sequences *)

\* The first n words of a stack.
LEMMA Prefix ==
  ASSUME NEW S, NEW s \in Seq(S), NEW n \in 0 .. Len(s)
  PROVE  /\ SubSeq(s, 1, n) \in Seq(S) /\ Len(SubSeq(s, 1, n)) = n
         /\ \A i \in 1 .. n : SubSeq(s, 1, n)[i] = s[i]
<1>1. Len(s) \in Nat /\ n \in Int /\ 1 \in Int /\ n - 1 + 1 = n
  BY LenProperties
<1>2. \A i \in 1 .. n : s[i] \in S
  BY <1>1, ElementOfSeq
<1>3. /\ SubSeq(s, 1, n) \in Seq(S)
      /\ Len(SubSeq(s, 1, n)) = IF 1 <= n THEN n - 1 + 1 ELSE 0
      /\ \A i \in 1 .. n - 1 + 1 : SubSeq(s, 1, n)[i] = s[1 + i - 1]
  BY ONLY <1>1, <1>2, SubSeqProperties
<1>4. Len(SubSeq(s, 1, n)) = n
  BY <1>1, <1>3
<1>5. ASSUME NEW i \in 1 .. n PROVE SubSeq(s, 1, n)[i] = s[i]
  <2>1. i \in 1 .. n - 1 + 1 /\ 1 + i - 1 = i
    BY <1>1
  <2> QED BY <1>3, <2>1
<1> QED BY <1>3, <1>4, <1>5

-------------------------------------------------------------------------------
(* Facts about states *)

\* What the lengths of the two stacks are in terms of the depth.
LEMMA Depths ==
  ASSUME CInv
  PROVE  /\ depth \in Nat /\ Len(call_stack) \in Nat /\ Len(stack) \in Nat
         /\ status = "run" => depth >= 1 /\ Len(call_stack) = 5 * depth - 1
         /\ status = "begin" => Len(call_stack) = 5 * depth
         /\ NG \in Nat /\ fp \in Nat /\ n_args \in Nat /\ n_locals \in Nat
<1>1. Len(call_stack) \in Nat /\ Len(stack) \in Nat
  BY DEF CInv, TypeOK
<1>2. depth \in Nat
  BY <1>1 DEF depth
<1>3. status = "run" => depth >= 1 /\ Len(call_stack) = 5 * depth - 1
  BY <1>1, <1>2 DEF CInv, CallStackBalanced, Whole
<1>4. status = "begin" => Len(call_stack) = 5 * depth
  BY <1>1, <1>2 DEF CInv, CallStackBalanced, Whole
<1> QED BY <1>1, <1>2, <1>3, <1>4, ProgramAssumption DEF CInv, TypeOK

\* The registers of frame j, its own or saved, are naturals, and it lies above
\* the globals and under the frames above it.
LEMMA Frame ==
  ASSUME CInv, NEW j \in 1 .. depth
  PROVE  /\ fp_of(j) \in Nat /\ n_args_of(j) \in Nat /\ n_locals_of(j) \in Nat
         /\ closure_flag(j) \in {0, 1} /\ bottom_of(j) \in Nat /\ NG < bottom_of(j)
         /\ bottom_of(j) = fp_of(j) - n_args_of(j) - closure_flag(j)
         /\ \A k \in 1 .. depth : j < k => fp_of(j) + n_locals_of(j) <= bottom_of(k)
<1>1. /\ fp_of(j) \in Nat /\ n_args_of(j) \in Nat /\ n_locals_of(j) \in Nat
      /\ closure_flag(j) \in {0, 1} /\ NG < bottom_of(j)
      /\ \A k \in 1 .. depth : j < k => fp_of(j) + n_locals_of(j) <= bottom_of(k)
  BY DEF CInv, Registers, Ordered
<1>2. bottom_of(j) = fp_of(j) - n_args_of(j) - closure_flag(j)
  BY DEF bottom_of
<1>3. closure_flag(j) \in Nat
  BY <1>1
<1>4. bottom_of(j) \in Int
  BY <1>1, <1>2, <1>3
<1> QED BY <1>1, <1>2, <1>4, ProgramAssumption

\* The running frame, whose registers are those of the interpreter.
LEMMA TopFrame ==
  ASSUME CInv, depth >= 1
  PROVE  /\ depth \in 1 .. depth
         /\ fp_of(depth) = fp /\ n_args_of(depth) = n_args /\ n_locals_of(depth) = n_locals
         /\ closure_flag(depth) \in {0, 1}
         /\ bottom_of(depth) = fp - n_args - closure_flag(depth)
         /\ NG < bottom_of(depth) /\ bottom_of(depth) \in Nat
         /\ fp + n_locals <= sp
<1>1. depth \in 1 .. depth
  BY Depths
<1>2. fp_of(depth) = fp /\ n_args_of(depth) = n_args /\ n_locals_of(depth) = n_locals
  BY DEF fp_of, n_args_of, n_locals_of
<1>3. fp + n_locals <= sp
  BY Depths DEF CInv, Ordered
<1> QED BY <1>1, <1>2, <1>3, Frame

LEMMA CInvImplies ==
  CInv => TypeOK /\ CallStackBalanced /\ FrameChain /\ ClosureUnderArguments
<1> SUFFICES ASSUME CInv PROVE FrameChain /\ ClosureUnderArguments
  BY DEF CInv
<1>1. ASSUME NEW j \in 1 .. depth
      PROVE  NG < bottom_of(j) /\ fp_of(j) + n_locals_of(j) <= top_of(j)
  <2>1. CASE j = depth
    BY <1>1, <2>1 DEF CInv, Ordered, top_of, fp_of, n_locals_of
  <2>2. CASE j # depth
    <3>1. j + 1 \in 1 .. depth /\ j < j + 1
      BY <1>1, <2>2, Depths
    <3> QED BY <1>1, <2>2, <3>1 DEF CInv, Ordered, top_of
  <2> QED BY <2>1, <2>2
<1>2. FrameChain
  BY <1>1 DEF CInv, Called, FrameChain, the_flag
<1>3. ClosureUnderArguments
  BY DEF CInv, ClosuresUnder, ClosureUnderArguments, is_closure_of, word
<1> QED BY <1>2, <1>3

\* A called closure lies under its arguments: below the locals of the running
\* frame, and below the bottom of each frame above its own.
LEMMA BelowTop ==
  ASSUME CInv, NEW j \in 1 .. depth, closure_flag(j) = 1
  PROVE  /\ bottom_of(j) \in 1 .. Len(stack) /\ NG < bottom_of(j)
         /\ bottom_of(j) < fp - n_args /\ bottom_of(j) < fp
         /\ j # depth => bottom_of(j) < bottom_of(depth)
<1>1. depth \in Nat /\ depth >= 1 /\ Len(stack) \in Nat /\ sp = Len(stack) + 1
  BY Depths DEF sp
<1>2. bottom_of(j) = fp_of(j) - n_args_of(j) - 1 /\ bottom_of(j) < fp_of(j) /\ bottom_of(j) \in Nat
  BY Frame
<1>3. /\ bottom_of(depth) = fp - n_args - closure_flag(depth) /\ closure_flag(depth) \in {0, 1}
      /\ fp \in Nat /\ n_args \in Nat /\ n_locals \in Nat /\ fp + n_locals <= sp
  BY <1>1, Depths, TopFrame
<1>4. CASE j = depth
  <2>1. bottom_of(j) = fp - n_args - 1 /\ NG < bottom_of(j)
    BY <1>3, <1>4, Frame
  <2>2. bottom_of(j) >= 1 /\ bottom_of(j) <= Len(stack)
    BY <1>1, <1>2, <1>3, <2>1, ProgramAssumption
  <2>3. bottom_of(j) < fp - n_args /\ bottom_of(j) < fp
    BY <1>2, <1>3, <2>1
  <2> QED BY <1>1, <1>2, <1>4, <2>1, <2>2, <2>3
<1>5. CASE j # depth
  <2>1. fp_of(j) + n_locals_of(j) <= bottom_of(depth) /\ fp_of(j) \in Nat /\ n_locals_of(j) \in Nat
    BY <1>1, <1>5, Frame
  <2>2. bottom_of(j) < bottom_of(depth) /\ bottom_of(depth) \in Nat
    BY <1>1, <1>2, <2>1, TopFrame
  <2>3. bottom_of(depth) <= fp - n_args /\ bottom_of(depth) <= fp
    BY <1>3
  <2>4. bottom_of(j) < fp - n_args /\ bottom_of(j) < fp
    BY <1>2, <1>3, <2>2, <2>3
  <2>5. bottom_of(j) <= Len(stack)
    BY <1>1, <1>2, <1>3, <2>4
  <2>6. bottom_of(j) >= 1 /\ NG < bottom_of(j)
    BY <1>2, Frame, ProgramAssumption
  <2> QED BY <1>1, <1>2, <2>2, <2>4, <2>5, <2>6
<1> QED BY <1>4, <1>5

-------------------------------------------------------------------------------
(* Steps inside a frame *)

\* An instruction that only changes words of the operand stack, other than the
\* called closures, keeps the invariant as long as the frame keeps its locals.
LEMMA InsideFrame ==
  ASSUME CInv, status = "run", goes_on,
         stack' \in Seq(Value), Len(stack') < STACK_WORDS - 1,
         fp + n_locals <= Len(stack') + 1,
         \A j \in 1 .. depth : closure_flag(j) = 1 => stack'[bottom_of(j)] = stack[bottom_of(j)]
  PROVE  CInv'
<1> USE DEF goes_on, regs
<1>1. /\ depth' = depth
      /\ \A j : /\ fp_of(j)' = fp_of(j) /\ n_args_of(j)' = n_args_of(j)
                /\ n_locals_of(j)' = n_locals_of(j) /\ closure_flag(j)' = closure_flag(j)
                /\ bottom_of(j)' = bottom_of(j) /\ return_address(j)' = return_address(j)
  BY DEF depth, fp_of, n_args_of, n_locals_of, closure_flag, bottom_of, return_address, block,
         saved_fp, saved_n_args, saved_n_locals
<1>2. depth >= 1 /\ depth \in 1 .. depth /\ Len(stack') \in Nat
  BY Depths
<1>3. TypeOK'
  <2>1. Len(stack') >= NG
    BY SMTT(20), <1>2, Depths, TopFrame
  <2> QED BY <1>1, <2>1 DEF CInv, TypeOK
<1>4. CallStackBalanced' /\ Whole' /\ Registers' /\ ReturnAddresses'
  BY <1>1 DEF CInv, CallStackBalanced, Whole, Registers, ReturnAddresses, block
<1>5. Ordered' /\ ClosuresUnder' /\ Called'
  BY <1>1 DEF CInv, Ordered, ClosuresUnder, Called, sp
<1> QED BY <1>3, <1>4, <1>5 DEF CInv

\* A word that is pushed lies above all frames; the stack is not full.
LEMMA Push ==
  ASSUME CInv, status = "run", NEW v \in Value, push(v), status' # "failed"
  PROVE  CInv'
<1>1. stack' = Append(stack, v) /\ goes_on /\ ops_fit(1)
  BY DEF push, fail
<1>2. stack \in Seq(Value) /\ depth >= 1
  BY Depths DEF CInv, TypeOK
<1>3. stack' \in Seq(Value) /\ Len(stack') = Len(stack) + 1
      /\ \A i \in 1 .. Len(stack) : stack'[i] = stack[i]
  BY <1>1, <1>2, AppendProperties
<1>4. Len(stack') < STACK_WORDS - 1 /\ fp + n_locals <= Len(stack') + 1
  BY SMTT(20), <1>1, <1>2, <1>3, Depths, TopFrame DEF ops_fit, sp
<1>5. ASSUME NEW j \in 1 .. depth, closure_flag(j) = 1
      PROVE  bottom_of(j) \in 1 .. Len(stack)
  BY <1>2, <1>5, BelowTop
<1>6. \A j \in 1 .. depth : closure_flag(j) = 1 => stack'[bottom_of(j)] = stack[bottom_of(j)]
  BY <1>3, <1>5
<1> QED BY <1>1, <1>3, <1>4, <1>6, InsideFrame

\* A variable of the running frame, or a global, is a word of the stack and no
\* called closure.
LEMMA PlaceIsNoClosure ==
  ASSUME CInv, depth >= 1, NEW p \in places
  PROVE  /\ p \in 1 .. Len(stack)
         /\ \A j \in 1 .. depth : closure_flag(j) = 1 => p # bottom_of(j)
<1>1. /\ bottom_of(depth) = fp - n_args - closure_flag(depth) /\ closure_flag(depth) \in {0, 1}
      /\ fp \in Nat /\ n_args \in Nat /\ n_locals \in Nat /\ fp + n_locals <= sp
      /\ NG < bottom_of(depth) /\ bottom_of(depth) \in Nat
      /\ Len(stack) \in Nat /\ sp = Len(stack) + 1 /\ NG \in Nat /\ NG <= Len(stack)
  BY Depths, TopFrame DEF sp, CInv, TypeOK
<1>2. closure_flag(depth) \in Nat /\ fp - n_args >= bottom_of(depth) /\ fp - n_args \in Nat
  BY <1>1
<1>3. CASE \E i \in 0 .. NG - 1 : p = NG - i
  BY <1>1, <1>3, BelowTop
<1>4. CASE \E i \in 0 .. n_locals - 1 : p = fp + i
  BY <1>1, <1>2, <1>4, BelowTop
<1>5. CASE \E i \in 0 .. n_args - 1 : p = fp - n_args + i
  BY <1>1, <1>2, <1>5, BelowTop
<1> QED BY <1>3, <1>4, <1>5 DEF places, G, L, A

\* ld copies a word of the stack to its top.
LEMMA LdStep == ASSUME CInv, LD, status' # "failed" PROVE CInv'
<1>1. PICK p \in places : push(word(p))
  BY DEF LD
<1>2. status = "run" /\ depth >= 1
  BY Depths DEF LD
<1>3. word(p) \in Value
  BY <1>2, PlaceIsNoClosure, ElementOfSeq DEF word, CInv, TypeOK
<1> QED BY <1>1, <1>2, <1>3, Push

\* Constants and new closures.
LEMMA PushStep == ASSUME CInv, CONST \/ BCLOSURE, status' # "failed" PROVE CInv'
<1>1. CASE CONST
  <2>1. PICK n \in Consts : push([int |-> n])
    BY <1>1 DEF CONST
  <2>2. [int |-> n] \in Value
    BY DEF Value, Integer
  <2> QED BY <1>1, <2>1, <2>2, Push DEF CONST
<1>2. CASE BCLOSURE
  <2>1. PICK f \in Closures : push([closure_of |-> f])
    BY <1>2 DEF BCLOSURE
  <2>2. [closure_of |-> f] \in Value
    BY DEF Value, Closure
  <2> QED BY <1>2, <2>1, <2>2, Push DEF BCLOSURE
<1> QED BY <1>1, <1>2

\* An operand of the running frame is dropped.
LEMMA DropStep == ASSUME Verified, CInv, DROP, status' # "failed" PROVE CInv'
<1>1. status = "run" /\ goes_on /\ stack' = popped(1) /\ operands >= 1
  BY DEF DROP, fail, has_operands
<1>2. stack \in Seq(Value) /\ depth >= 1 /\ Len(stack) \in Nat /\ Len(stack) < STACK_WORDS - 1
  BY <1>1, Depths DEF CInv, TypeOK
<1>3. /\ fp \in Nat /\ n_locals \in Nat /\ fp + n_locals <= Len(stack) /\ n_args \in Nat
  BY <1>1, <1>2, Depths DEF operands
<1>4. Len(stack) >= 1
  BY <1>2, TopFrame, Depths, <1>3
<1>5. /\ stack' \in Seq(Value) /\ Len(stack') = Len(stack) - 1
      /\ \A i \in 1 .. Len(stack) - 1 : stack'[i] = stack[i]
  <2>1. Len(stack) - 1 \in 0 .. Len(stack)
    BY <1>2, <1>4
  <2>2. stack' = SubSeq(stack, 1, Len(stack) - 1)
    BY <1>1 DEF popped
  <2> QED BY <1>2, <2>1, <2>2, Prefix
<1>6. \A j \in 1 .. depth : closure_flag(j) = 1 => bottom_of(j) \in 1 .. Len(stack) - 1
  BY <1>2, <1>3, BelowTop
<1>7. Len(stack') < STACK_WORDS - 1 /\ fp + n_locals <= Len(stack') + 1
  BY <1>2, <1>3, <1>5, ProgramAssumption
<1> QED BY <1>1, <1>5, <1>6, <1>7, InsideFrame

\* st and sta overwrite a variable, never a called closure.
LEMMA StStep == ASSUME CInv, ST PROVE CInv'
<1>1. PICK p \in places : stack' = [stack EXCEPT ![p] = word(sp - 1)]
  BY DEF ST
<1>2. status = "run" /\ goes_on /\ depth >= 1 /\ operands >= 1
  BY Depths DEF ST
<1>3. stack \in Seq(Value) /\ Len(stack) \in Nat /\ Len(stack) < STACK_WORDS - 1
  BY <1>2, Depths DEF CInv, TypeOK
<1>4. p \in 1 .. Len(stack) /\ \A j \in 1 .. depth : closure_flag(j) = 1 => p # bottom_of(j)
  BY <1>2, PlaceIsNoClosure
<1>5. word(sp - 1) \in Value
  BY <1>3, <1>4, ElementOfSeq DEF word, sp
<1>6. /\ stack' \in Seq(Value) /\ Len(stack') = Len(stack)
      /\ \A i \in 1 .. Len(stack) : i # p => stack'[i] = stack[i]
  BY <1>1, <1>3, <1>4, <1>5, ExceptSeq
<1>7. \A j \in 1 .. depth : closure_flag(j) = 1 => stack'[bottom_of(j)] = stack[bottom_of(j)]
  BY <1>4, <1>6, BelowTop
<1>8. fp + n_locals <= Len(stack') + 1
  BY <1>2, <1>6, TopFrame DEF sp
<1> QED BY <1>2, <1>3, <1>6, <1>7, <1>8, InsideFrame

LEMMA JmpStep == ASSUME CInv, JMP PROVE CInv'
<1>1. status = "run" /\ goes_on /\ stack' = stack /\ depth >= 1
  BY Depths DEF JMP
<1>2. stack \in Seq(Value) /\ Len(stack) < STACK_WORDS - 1 /\ fp + n_locals <= Len(stack) + 1
  BY <1>1, TopFrame DEF CInv, TypeOK, sp
<1> QED BY <1>1, <1>2, InsideFrame

\* A failed assertion stops the program and changes nothing else.
LEMMA FailStep == ASSUME CInv, fail PROVE CInv'
<1> USE DEF fail, regs
<1>1. /\ depth' = depth
      /\ \A j : /\ fp_of(j)' = fp_of(j) /\ n_args_of(j)' = n_args_of(j)
                /\ n_locals_of(j)' = n_locals_of(j) /\ closure_flag(j)' = closure_flag(j)
                /\ bottom_of(j)' = bottom_of(j) /\ return_address(j)' = return_address(j)
  BY DEF depth, fp_of, n_args_of, n_locals_of, closure_flag, bottom_of, return_address, block,
         saved_fp, saved_n_args, saved_n_locals
<1>2. TypeOK'
  BY <1>1 DEF CInv, TypeOK
<1>3. CallStackBalanced' /\ Whole' /\ Registers' /\ ReturnAddresses'
  BY <1>1 DEF CInv, CallStackBalanced, Whole, Registers, ReturnAddresses, block
<1>4. Ordered' /\ ClosuresUnder' /\ Called'
  BY <1>1 DEF CInv, Ordered, ClosuresUnder, Called, sp
<1> QED BY <1>2, <1>3, <1>4 DEF CInv

-------------------------------------------------------------------------------
(* Calls and returns *)

\* The blocks of the first d frames are the first 5 * d - 1 words of the call
\* stack; a return address lies under each but the first.
LEMMA Blocks ==
  ASSUME NEW d \in Nat, NEW j \in 1 .. d
  PROVE  /\ block(j) + 1 \in 1 .. 5 * d - 1 /\ block(j) + 2 \in 1 .. 5 * d - 1
         /\ block(j) + 3 \in 1 .. 5 * d - 1 /\ block(j) + 4 \in 1 .. 5 * d - 1
         /\ j # 1 => block(j) \in 1 .. 5 * d - 1
BY DEF block

LEMMA DepthOfLength ==
  ASSUME NEW d \in Nat
  PROVE  (5 * d + 1) \div 5 = d /\ (5 * d + 5) \div 5 = d + 1
OBVIOUS

\* A call pushes its return address and leaves the frames as they are; the
\* arguments, and the closure under them, are operands of the caller.
LEMMA CallFrames ==
  ASSUME CInv, status = "run", call_stack' = Append(call_stack, ip), calls_fit(1),
         UNCHANGED <<stack, fp, n_args, n_locals>>,
         callee' \in Functions, status' = "begin", ip' \in Label, is_closure' \in BOOLEAN,
         callee'.args + (IF is_closure' THEN 1 ELSE 0) <= operands,
         is_closure' => is_closure_of(stack[sp - callee'.args - 1], callee'.args, callee'.locals)
  PROVE  CInv'
<1>1. /\ depth \in Nat /\ depth >= 1 /\ Len(call_stack) = 5 * depth - 1
      /\ call_stack \in Seq(Nat) /\ ip \in Nat /\ ip \in Label
  BY Depths, ProgramAssumption DEF CInv, TypeOK
<1>2. /\ call_stack' \in Seq(Nat) /\ Len(call_stack') = 5 * depth
      /\ \A i \in 1 .. 5 * depth - 1 : call_stack'[i] = call_stack[i]
      /\ call_stack'[5 * depth] = ip
  <2>1. /\ call_stack' \in Seq(Nat) /\ Len(call_stack') = Len(call_stack) + 1
        /\ \A i \in 1 .. Len(call_stack) : call_stack'[i] = call_stack[i]
        /\ call_stack'[Len(call_stack) + 1] = ip
    <3>1. call_stack \in Seq(Nat) /\ ip \in Nat
      BY <1>1
    <3>2. /\ Append(call_stack, ip) \in Seq(Nat) /\ Len(Append(call_stack, ip)) = Len(call_stack) + 1
          /\ \A i \in 1 .. Len(call_stack) : Append(call_stack, ip)[i] = call_stack[i]
          /\ Append(call_stack, ip)[Len(call_stack) + 1] = ip
      BY ONLY <3>1, AppendProperties
    <3> QED BY <3>2
  <2>2. Len(call_stack) + 1 = 5 * depth
    BY <1>1
  <2> QED BY <1>1, <2>1, <2>2
<1>3. depth' = depth
  BY <1>1, <1>2, DepthOfLength DEF depth
<1>4. ASSUME NEW j \in 1 .. depth
      PROVE  /\ fp_of(j)' = fp_of(j) /\ n_args_of(j)' = n_args_of(j)
             /\ n_locals_of(j)' = n_locals_of(j) /\ closure_flag(j)' = closure_flag(j)
  <2>1. closure_flag(j)' = closure_flag(j)
    BY <1>1, <1>2, Blocks DEF closure_flag, block
  <2>2. CASE j = depth
    BY <1>3, <2>1, <2>2 DEF fp_of, n_args_of, n_locals_of
  <2>3. CASE j # depth
    <3>1. j + 1 \in 1 .. depth
      BY <1>1, <2>3
    <3>2. /\ saved_fp(j + 1)' = saved_fp(j + 1) /\ saved_n_args(j + 1)' = saved_n_args(j + 1)
          /\ saved_n_locals(j + 1)' = saved_n_locals(j + 1)
      BY <1>1, <1>2, <3>1, Blocks DEF saved_fp, saved_n_args, saved_n_locals, block
    <3> QED BY <1>3, <2>1, <2>3, <3>2 DEF fp_of, n_args_of, n_locals_of
  <2> QED BY <2>2, <2>3
<1>5. \A j \in 1 .. depth : bottom_of(j)' = bottom_of(j)
  BY <1>4 DEF bottom_of
<1>6. ASSUME NEW j \in 2 .. depth + 1
      PROVE  return_address(j)' \in Label
  <2>1. CASE j = depth + 1
    BY <1>1, <1>2, <2>1 DEF return_address, block
  <2>2. CASE j # depth + 1
    <3>1. j \in 1 .. depth /\ j # 1
      BY <1>1, <2>2
    <3>2. block(j) \in 1 .. 5 * depth - 1
      BY <1>1, <3>1, Blocks
    <3>3. return_address(j) \in Label
      BY <1>1, <3>1, <3>2 DEF CInv, ReturnAddresses
    <3> QED BY <1>2, <3>2, <3>3 DEF return_address, block
  <2> QED BY <2>1, <2>2
<1>7. TypeOK'
  <2>1. Len(call_stack') < CALL_WORDS - 1
    BY <1>1, <1>2 DEF calls_fit
  <2>2. \A j \in 1 .. depth : closure_flag(j)' \in {0, 1}
    BY <1>4 DEF CInv, Registers
  <2>3. \A j \in 2 .. depth : return_address(j)' \in Label
    BY <1>1, <1>6
  <2> QED BY <1>2, <1>3, <2>1, <2>2, <2>3 DEF CInv, TypeOK
<1>8. CallStackBalanced' /\ Whole'
  BY <1>1, <1>2, <1>3 DEF CallStackBalanced, Whole
<1>9. Registers' /\ ReturnAddresses'
  <2>1. Registers'
    BY <1>3, <1>4 DEF CInv, Registers
  <2>2. ReturnAddresses'
    BY <1>3, <1>6 DEF ReturnAddresses
  <2> QED BY <2>1, <2>2
<1>10. Ordered'
  BY <1>3, <1>4, <1>5 DEF CInv, Ordered, sp
<1>11. ClosuresUnder'
  BY <1>3, <1>4, <1>5 DEF CInv, ClosuresUnder
<1>12. Called'
  BY <1>1, <1>3 DEF Called, the_flag, operands, sp
<1> QED BY <1>7, <1>8, <1>9, <1>10, <1>11, <1>12 DEF CInv

LEMMA CallStep == ASSUME CInv, CALL, status' # "failed" PROVE CInv'
<1>1. PICK f \in Functions :
        /\ operands >= f.args /\ calls_fit(1) /\ resets_flag
        /\ call_stack' = Append(call_stack, ip)
        /\ callee' = f /\ status' = "begin" /\ ip' \in Label
        /\ UNCHANGED <<stack, fp, n_args, n_locals>>
  BY DEF CALL, fail
<1>2. f.args \in Nat /\ operands \in Int
  BY Depths, ProgramAssumption DEF operands
<1>3. f.args + (IF is_closure' THEN 1 ELSE 0) <= operands
  BY <1>1, <1>2 DEF resets_flag
<1>4. status = "run" /\ is_closure' = FALSE
  BY <1>1 DEF CALL, resets_flag
<1> QED BY <1>1, <1>3, <1>4, CallFrames

LEMMA CallcStep == ASSUME CInv, CALLC, status' # "failed" PROVE CInv'
<1>1. PICK n \in {f.args : f \in Functions} :
        /\ operands >= n + 1
        /\ LET c == called(n) IN
             /\ c \in Closure /\ calls_fit(1) /\ c.closure_of.args = n
             /\ is_closure' = TRUE
             /\ call_stack' = Append(call_stack, ip)
             /\ callee' = c.closure_of /\ status' = "begin" /\ ip' \in Label
             /\ UNCHANGED <<stack, fp, n_args, n_locals>>
  BY DEF CALLC, fail
<1>2. called(n).closure_of \in Closures /\ called(n).closure_of \in [args: Nat, locals: Nat]
  BY <1>1, ProgramAssumption DEF Closure
<1>3. callee' = [args |-> callee'.args, locals |-> callee'.locals] /\ callee'.args = n
  BY <1>1, <1>2
<1>4. is_closure_of(stack[sp - callee'.args - 1], callee'.args, callee'.locals)
  BY <1>1, <1>3 DEF is_closure_of, called, word
<1>5. callee'.args + (IF is_closure' THEN 1 ELSE 0) <= operands
  BY <1>1, <1>3
<1>6. status = "run" /\ callee' \in Functions /\ is_closure' \in BOOLEAN
  BY <1>1, <1>2, ProgramAssumption DEF CALLC
<1> QED BY <1>1, <1>4, <1>5, <1>6, CallFrames

\* BEGIN saves the registers in a new block; the blocks under it, and with
\* them the frames, stay.
LEMMA BeginFrames ==
  ASSUME CInv, BEGIN, status' # "failed", NEW d, d = depth
  PROVE  /\ d \in Nat /\ Len(call_stack) = 5 * d /\ depth' = d + 1
         /\ call_stack' \in Seq(Nat) /\ Len(call_stack') = 5 * d + 4
         /\ \A i \in 1 .. 5 * d : call_stack'[i] = call_stack[i]
         /\ stack' \in Seq(Value) /\ Len(stack') = Len(stack) + callee.locals
         /\ \A i \in 1 .. Len(stack) : stack'[i] = stack[i]
         /\ callee.args \in Nat /\ callee.locals \in Nat /\ the_flag \in {0, 1}
         /\ \A j \in 1 .. d :
              /\ fp_of(j)' = fp_of(j) /\ n_args_of(j)' = n_args_of(j)
              /\ n_locals_of(j)' = n_locals_of(j) /\ closure_flag(j)' = closure_flag(j)
              /\ bottom_of(j)' = bottom_of(j)
         /\ fp_of(d + 1)' = sp /\ n_args_of(d + 1)' = callee.args
         /\ n_locals_of(d + 1)' = callee.locals /\ closure_flag(d + 1)' = the_flag
         /\ bottom_of(d + 1)' = sp - callee.args - the_flag
<1>1. /\ status = "begin" /\ calls_fit(4) /\ ops_fit(callee.locals)
      /\ call_stack' = call_stack \o saved
      /\ fp' = sp /\ n_args' = callee.args /\ n_locals' = callee.locals
      /\ stack' = stack \o [i \in 1 .. callee.locals |-> empty]
      /\ status' = "run" /\ ip' \in Label /\ is_closure' = is_closure /\ callee' = callee
  BY DEF BEGIN, fail, new_fp
<1>2. /\ d = depth /\ d \in Nat /\ Len(call_stack) = 5 * d /\ call_stack \in Seq(Nat)
      /\ stack \in Seq(Value) /\ Len(stack) \in Nat /\ NG \in Nat /\ NG <= Len(stack)
      /\ sp = Len(stack) + 1 /\ sp \in Nat
      /\ fp \in Nat /\ n_args \in Nat /\ n_locals \in Nat /\ is_closure \in BOOLEAN
  BY <1>1, Depths DEF CInv, TypeOK, sp
<1>3. callee \in Functions /\ callee.args \in Nat /\ callee.locals \in Nat /\ the_flag \in {0, 1}
  BY <1>2, ProgramAssumption DEF CInv, TypeOK, the_flag
<1>4. saved \in Seq(Nat) /\ Len(saved) = 4 /\ saved = <<fp, n_args, n_locals, the_flag>>
  BY <1>2, <1>3 DEF saved, the_flag
<1>5. /\ call_stack' \in Seq(Nat) /\ Len(call_stack') = 5 * d + 4
      /\ \A i \in 1 .. 5 * d : call_stack'[i] = call_stack[i]
      /\ call_stack'[5 * d + 1] = fp /\ call_stack'[5 * d + 2] = n_args
      /\ call_stack'[5 * d + 3] = n_locals /\ call_stack'[5 * d + 4] = the_flag
  <2>1. call_stack' \in Seq(Nat) /\ Len(call_stack') = Len(call_stack) + Len(saved)
        /\ \A i \in 1 .. Len(call_stack) + Len(saved) :
             call_stack'[i] = IF i <= Len(call_stack) THEN call_stack[i] ELSE saved[i - Len(call_stack)]
    <3>1. /\ call_stack \o saved \in Seq(Nat) /\ Len(call_stack \o saved) = Len(call_stack) + Len(saved)
          /\ \A i \in 1 .. Len(call_stack) + Len(saved) : (call_stack \o saved)[i] =
               IF i <= Len(call_stack) THEN call_stack[i] ELSE saved[i - Len(call_stack)]
      <4>1. call_stack \in Seq(Nat) /\ saved \in Seq(Nat)
        BY <1>2, <1>4
      <4> QED BY ONLY <4>1, ConcatProperties
    <3> QED BY <1>1, <3>1
  <2>2. ASSUME NEW k \in 1 .. 4 PROVE call_stack'[5 * d + k] = saved[k]
    <3>1. /\ Len(call_stack) + k \in 1 .. Len(call_stack) + Len(saved)
          /\ ~(Len(call_stack) + k <= Len(call_stack)) /\ Len(call_stack) + k - Len(call_stack) = k
      BY <1>2, <1>4
    <3>2. call_stack'[Len(call_stack) + k] = saved[k]
      BY <2>1, <3>1
    <3> QED BY <1>2, <3>2
  <2>3. \A i \in 1 .. 5 * d : call_stack'[i] = call_stack[i]
    BY <1>2, <1>4, <2>1
  <2> QED BY <1>2, <1>4, <2>1, <2>2, <2>3
<1>6. /\ stack' \in Seq(Value) /\ Len(stack') = Len(stack) + callee.locals
      /\ \A i \in 1 .. Len(stack) : stack'[i] = stack[i]
  <2> DEFINE new == [i \in 1 .. callee.locals |-> empty]
  <2>1. empty \in Value
    BY DEF empty, Value, Integer
  <2>2. new \in Seq(Value) /\ Len(new) = callee.locals
    BY <1>3, <2>1
  <2> HIDE DEF new
  <2>3. stack' = stack \o new
    BY <1>1 DEF new
  <2>4. stack' \in Seq(Value) /\ Len(stack') = Len(stack) + Len(new)
        /\ \A i \in 1 .. Len(stack) + Len(new) :
             stack'[i] = IF i <= Len(stack) THEN stack[i] ELSE new[i - Len(stack)]
    <3>1. /\ stack \o new \in Seq(Value) /\ Len(stack \o new) = Len(stack) + Len(new)
          /\ \A i \in 1 .. Len(stack) + Len(new) : (stack \o new)[i] =
               IF i <= Len(stack) THEN stack[i] ELSE new[i - Len(stack)]
      <4>1. stack \in Seq(Value) /\ new \in Seq(Value)
        BY <1>2, <2>2
      <4> QED BY ONLY <4>1, ConcatProperties
    <3> QED BY <2>3, <3>1
  <2>5. stack' \in Seq(Value) /\ Len(stack') = Len(stack) + callee.locals
    BY <2>2, <2>4
  <2>6. ASSUME NEW i \in 1 .. Len(stack) PROVE stack'[i] = stack[i]
    <3>1. i \in 1 .. Len(stack) + Len(new) /\ i <= Len(stack)
      BY <1>2, <1>3, <2>2
    <3> QED BY <2>4, <3>1
  <2> QED BY <2>5, <2>6
<1>7. depth' = d + 1
  BY SMTT(20), <1>2, <1>5, DepthOfLength DEF depth
<1>8. /\ closure_flag(d + 1)' = the_flag /\ saved_fp(d + 1)' = fp
      /\ saved_n_args(d + 1)' = n_args /\ saved_n_locals(d + 1)' = n_locals
  <2>1. 5 * (d + 1 - 1) = 5 * d
    BY <1>2
  <2>2. block(d + 1) = 5 * d
    BY <1>2 DEF block
  <2> QED BY <1>5, <2>2 DEF closure_flag, saved_fp, saved_n_args, saved_n_locals
<1>9. ASSUME NEW j \in 1 .. d
      PROVE  /\ fp_of(j)' = fp_of(j) /\ n_args_of(j)' = n_args_of(j)
             /\ n_locals_of(j)' = n_locals_of(j) /\ closure_flag(j)' = closure_flag(j)
             /\ bottom_of(j)' = bottom_of(j)
  <2>1. closure_flag(j)' = closure_flag(j)
    BY <1>2, <1>5, Blocks DEF closure_flag, block
  <2>2. /\ fp_of(j)' = saved_fp(j + 1)' /\ n_args_of(j)' = saved_n_args(j + 1)'
        /\ n_locals_of(j)' = saved_n_locals(j + 1)'
    BY <1>2, <1>7 DEF fp_of, n_args_of, n_locals_of
  <2>3. /\ fp_of(j)' = fp_of(j) /\ n_args_of(j)' = n_args_of(j) /\ n_locals_of(j)' = n_locals_of(j)
    <3>1. CASE j = d
      BY <1>8, <2>2, <3>1 DEF fp_of, n_args_of, n_locals_of
    <3>2. CASE j # d
      <4>1. j + 1 \in 1 .. d
        BY <1>2, <3>2
      <4>2. /\ saved_fp(j + 1)' = saved_fp(j + 1) /\ saved_n_args(j + 1)' = saved_n_args(j + 1)
            /\ saved_n_locals(j + 1)' = saved_n_locals(j + 1)
        <5>a. d \in Nat
          BY <1>2
        <5>b. /\ block(j + 1) + 1 \in 1 .. 5 * d - 1 /\ block(j + 1) + 2 \in 1 .. 5 * d - 1
              /\ block(j + 1) + 3 \in 1 .. 5 * d - 1 /\ block(j + 1) + 4 \in 1 .. 5 * d - 1
          BY ONLY <5>a, <4>1, Blocks
        <5>1. /\ block(j + 1) + 1 \in 1 .. 5 * d /\ block(j + 1) + 2 \in 1 .. 5 * d
              /\ block(j + 1) + 3 \in 1 .. 5 * d /\ block(j + 1) + 4 \in 1 .. 5 * d
          BY ONLY <5>a, <5>b
        <5>2. block(j + 1)' = block(j + 1)
          BY DEF block
        <5> QED BY <1>5, <5>1, <5>2 DEF saved_fp, saved_n_args, saved_n_locals
      <4> QED BY <2>2, <3>2, <4>2 DEF fp_of, n_args_of, n_locals_of
    <3> QED BY <3>1, <3>2
  <2> QED BY <2>1, <2>3 DEF bottom_of
<1>10. /\ fp_of(d + 1)' = sp /\ n_args_of(d + 1)' = callee.args
       /\ n_locals_of(d + 1)' = callee.locals /\ closure_flag(d + 1)' = the_flag
       /\ bottom_of(d + 1)' = sp - callee.args - the_flag
  BY <1>1, <1>7, <1>8 DEF fp_of, n_args_of, n_locals_of, bottom_of
<1> QED BY <1>2, <1>3, <1>5, <1>6, <1>7, <1>9, <1>10

\* BEGIN opens a frame: the words above it are its arguments, and the closure
\* it was called through.
LEMMA BeginStep == ASSUME CInv, BEGIN, status' # "failed" PROVE CInv'
<1> PICK d : d = depth
  OBVIOUS
<1>1. /\ status = "begin" /\ calls_fit(4) /\ ops_fit(callee.locals)
      /\ call_stack' = call_stack \o saved
      /\ fp' = sp /\ n_args' = callee.args /\ n_locals' = callee.locals
      /\ stack' = stack \o [i \in 1 .. callee.locals |-> empty]
      /\ status' = "run" /\ ip' \in Label /\ is_closure' = is_closure /\ callee' = callee
  BY DEF BEGIN, fail, new_fp
<1>2. /\ d = depth /\ d \in Nat /\ Len(call_stack) = 5 * d /\ call_stack \in Seq(Nat)
      /\ stack \in Seq(Value) /\ Len(stack) \in Nat /\ NG \in Nat /\ NG <= Len(stack)
      /\ sp = Len(stack) + 1 /\ sp \in Nat
      /\ fp \in Nat /\ n_args \in Nat /\ n_locals \in Nat /\ is_closure \in BOOLEAN
  BY <1>1, Depths DEF CInv, TypeOK, sp
<1>3. callee \in Functions /\ callee.args \in Nat /\ callee.locals \in Nat /\ the_flag \in {0, 1}
  BY <1>2, ProgramAssumption DEF CInv, TypeOK, the_flag
<1>5. /\ call_stack' \in Seq(Nat) /\ Len(call_stack') = 5 * d + 4
      /\ \A i \in 1 .. 5 * d : call_stack'[i] = call_stack[i]
  BY <1>2, BeginFrames
<1>6. /\ stack' \in Seq(Value) /\ Len(stack') = Len(stack) + callee.locals
      /\ \A i \in 1 .. Len(stack) : stack'[i] = stack[i]
  BY <1>2, BeginFrames
<1>7. depth' = d + 1
  BY <1>2, BeginFrames
<1>9. ASSUME NEW j \in 1 .. d
      PROVE  /\ fp_of(j)' = fp_of(j) /\ n_args_of(j)' = n_args_of(j)
             /\ n_locals_of(j)' = n_locals_of(j) /\ closure_flag(j)' = closure_flag(j)
             /\ bottom_of(j)' = bottom_of(j)
  BY <1>2, BeginFrames
<1>10. /\ fp_of(d + 1)' = sp /\ n_args_of(d + 1)' = callee.args
       /\ n_locals_of(d + 1)' = callee.locals /\ closure_flag(d + 1)' = the_flag
       /\ bottom_of(d + 1)' = sp - callee.args - the_flag
  BY <1>2, BeginFrames
<1>11. NG < sp - callee.args - the_flag /\ sp - callee.args - the_flag <= sp
       /\ \A j \in 1 .. d : fp_of(j) + n_locals_of(j) <= sp - callee.args - the_flag
  <2>1. callee.args + the_flag <= IF d = 0 THEN 0 ELSE operands
    BY <1>1 DEF CInv, Called
  <2>2. CASE d = 0
    BY <1>2, <1>3, <2>1, <2>2
  <2>3. CASE d # 0
    <3>1. fp + n_locals <= sp - callee.args - the_flag
      BY SMTT(20), <1>2, <1>3, <2>1, <2>3 DEF operands
    <3>2. d \in 1 .. d /\ NG < bottom_of(d) /\ bottom_of(d) <= fp
          /\ bottom_of(d) \in Nat /\ fp_of(d) = fp /\ n_locals_of(d) = n_locals
      BY SMTT(20), <1>2, <2>3, TopFrame
    <3>3. NG < sp - callee.args - the_flag
      <4>1. NG < fp /\ fp <= fp + n_locals
        BY <1>2, <3>2
      <4>2. sp - callee.args - the_flag \in Int /\ fp \in Int /\ fp + n_locals \in Int /\ NG \in Int
        BY <1>2, <1>3
      <4> QED BY ONLY <3>1, <4>1, <4>2
    <3>4. ASSUME NEW j \in 1 .. d
          PROVE  fp_of(j) + n_locals_of(j) <= sp - callee.args - the_flag
      <4>1. CASE j = d
        BY <3>1, <3>2, <4>1
      <4>2. CASE j # d
        <5>1. j < d
          BY <1>2, <4>2
        <5>2. fp_of(j) + n_locals_of(j) <= bottom_of(d) /\ fp_of(j) + n_locals_of(j) \in Nat
          <6>1. j \in 1 .. depth /\ d \in 1 .. depth
            BY <1>2, <3>2
          <6>2. fp_of(j) + n_locals_of(j) <= bottom_of(d) /\ fp_of(j) \in Nat /\ n_locals_of(j) \in Nat
            BY <5>1, <6>1, Frame
          <6> QED BY <6>2
        <5>3. fp <= fp + n_locals
          BY <1>2
        <5>4. sp - callee.args - the_flag \in Int
          BY <1>2, <1>3
        <5> QED BY <1>2, <3>1, <3>2, <5>2, <5>3, <5>4
      <4> QED BY <4>1, <4>2
    <3> QED BY <1>2, <1>3, <3>3, <3>4
  <2> QED BY <2>2, <2>3
<1>12. ASSUME NEW j \in 1 .. d + 1, j # d + 1 PROVE j \in 1 .. d
  BY <1>2, <1>12
<1>13. Registers'
  BY <1>2, <1>3, <1>7, <1>9, <1>10, <1>12 DEF CInv, Registers
<1>14. ReturnAddresses' /\ \A j \in 2 .. d + 1 : return_address(j)' \in Label
  <2>1. ASSUME NEW j \in 2 .. d + 1 PROVE return_address(j)' \in Label
    <3>1. block(j) \in 1 .. 5 * d /\ block(j) <= Len(call_stack)
      BY <1>2 DEF block
    <3>2. return_address(j) \in Label
      BY <1>2, <3>1 DEF CInv, ReturnAddresses
    <3> QED BY <1>5, <3>1, <3>2 DEF return_address, block
  <2>2. ASSUME NEW j \in 2 .. d + 2, block(j) <= 5 * d + 4 PROVE j \in 2 .. d + 1
    BY <1>2, <2>2 DEF block
  <2>3. d + 1 + 1 = d + 2
    BY <1>2
  <2> QED BY <1>5, <1>7, <2>1, <2>2, <2>3 DEF ReturnAddresses, block
<1>15. TypeOK'
  <2>1. Len(call_stack') < CALL_WORDS - 1
    BY <1>1, <1>2, <1>5 DEF calls_fit
  <2>3. Len(stack') < STACK_WORDS - 1
    BY <1>1, <1>6 DEF ops_fit
  <2>4. NG <= Len(stack')
    BY <1>2, <1>3, <1>6
  <2>2. \A j \in 1 .. d + 1 : closure_flag(j)' \in {0, 1}
    BY <1>7, <1>13 DEF Registers
  <2> QED BY <1>1, <1>2, <1>3, <1>5, <1>6, <1>7, <1>14, <2>1, <2>2, <2>3, <2>4 DEF TypeOK
<1>16. CallStackBalanced' /\ Whole' /\ Called'
  BY <1>1, <1>2, <1>5, <1>7 DEF CallStackBalanced, Whole, Called
<1>17. Ordered'
  <2>1. \A j \in 1 .. d + 1 : NG < bottom_of(j)'
    BY <1>9, <1>10, <1>11, <1>12 DEF CInv, Ordered
  <2>2. ASSUME NEW i \in 1 .. d + 1, NEW j \in 1 .. d + 1, i < j
        PROVE  fp_of(i)' + n_locals_of(i)' <= bottom_of(j)'
    <3>1. i \in 1 .. d
      BY <1>2, <2>2
    <3>2. CASE j = d + 1
      BY <1>9, <1>10, <1>11, <3>1, <3>2
    <3>3. CASE j # d + 1
      BY <1>9, <1>12, <2>2, <3>1, <3>3 DEF CInv, Ordered
    <3> QED BY <3>2, <3>3
  <2>3. fp' + n_locals' <= sp'
    BY <1>1, <1>2, <1>3, <1>6 DEF sp
  <2> QED BY <1>7, <2>1, <2>2, <2>3 DEF Ordered
<1>18. ClosuresUnder'
  <2>1. ASSUME NEW j \in 1 .. d + 1, closure_flag(j)' = 1
        PROVE  is_closure_of(stack'[bottom_of(j)'], n_args_of(j)', n_locals_of(j)')
    <3>1. CASE j = d + 1
      <4>1. is_closure /\ the_flag = 1
        BY <1>10, <2>1, <3>1 DEF the_flag
      <4>2. is_closure_of(stack[sp - callee.args - 1], callee.args, callee.locals)
        BY <1>1, <4>1 DEF CInv, Called
      <4>3. sp - callee.args - 1 \in 1 .. Len(stack)
        BY <1>2, <1>3, <1>11, <4>1
      <4> QED BY <1>6, <1>10, <3>1, <4>1, <4>2, <4>3
    <3>2. CASE j # d + 1
      <4>1. j \in 1 .. d /\ closure_flag(j) = 1
        BY <1>9, <1>12, <2>1, <3>2
      <4>2. bottom_of(j) \in 1 .. Len(stack)
        BY <4>1, BelowTop
      <4>3. is_closure_of(stack[bottom_of(j)], n_args_of(j), n_locals_of(j))
        BY <4>1 DEF CInv, ClosuresUnder
      <4> QED BY <1>6, <1>9, <4>1, <4>2, <4>3
    <3> QED BY <3>1, <3>2
  <2> QED BY <1>7, <2>1 DEF ClosuresUnder
<1> QED BY <1>13, <1>14, <1>15, <1>16, <1>17, <1>18 DEF CInv

\* END takes the words of the running frame and its block away, puts the result
\* in their place and restores the registers; the frames under it stay.
LEMMA EndFrames ==
  ASSUME CInv, END, NEW d, d = depth
  PROVE  /\ d \in Nat /\ d >= 1 /\ Len(call_stack) = 5 * d - 1 /\ depth' = d - 1
         /\ n_locals' = saved_n_locals(d) /\ n_args' = saved_n_args(d) /\ fp' = saved_fp(d)
         /\ stack' \in Seq(Value) /\ Len(stack') = bottom_of(d)
         /\ \A i \in 1 .. bottom_of(d) - 1 : stack'[i] = stack[i]
         /\ stack'[bottom_of(d)] = word(sp - 1) /\ word(sp - 1) \in Value
         /\ call_stack' \in Seq(Nat)
         /\ \A i \in 1 .. 5 * (d - 1) - 1 : call_stack'[i] = call_stack[i]
         /\ d = 1 => status' = "stopped" /\ call_stack' = << >> /\ ip' \in Label
         /\ d # 1 => /\ status' = "run" /\ Len(call_stack') = 5 * (d - 1) - 1
                     /\ ip' = return_address(d)
         /\ \A j \in 1 .. d - 1 :
              /\ fp_of(j)' = fp_of(j) /\ n_args_of(j)' = n_args_of(j)
              /\ n_locals_of(j)' = n_locals_of(j) /\ closure_flag(j)' = closure_flag(j)
              /\ bottom_of(j)' = bottom_of(j)
<1>1. /\ status = "run" /\ operands = 1
      /\ d = depth /\ d \in Nat /\ d >= 1 /\ Len(call_stack) = 5 * d - 1 /\ call_stack \in Seq(Nat)
      /\ stack \in Seq(Value) /\ Len(stack) \in Nat /\ Len(stack) < STACK_WORDS - 1
      /\ fp \in Nat /\ n_args \in Nat /\ n_locals \in Nat /\ NG \in Nat
  BY Depths DEF END, CInv, TypeOK
<1> DEFINE cs == restored(call_stack)
<1>2. /\ cs \in Seq(Nat) /\ Len(cs) = 5 * d - 5
      /\ \A i \in 1 .. 5 * d - 5 : cs[i] = call_stack[i]
  <2>1. 5 * d - 1 - 4 = 5 * d - 5 /\ Len(call_stack) - 4 \in 0 .. Len(call_stack)
    BY <1>1
  <2>2. /\ SubSeq(call_stack, 1, Len(call_stack) - 4) \in Seq(Nat)
        /\ Len(SubSeq(call_stack, 1, Len(call_stack) - 4)) = Len(call_stack) - 4
        /\ \A i \in 1 .. Len(call_stack) - 4 :
             SubSeq(call_stack, 1, Len(call_stack) - 4)[i] = call_stack[i]
    <3>1. call_stack \in Seq(Nat)
      BY <1>1
    <3> QED BY ONLY <2>1, <3>1, Prefix
  <2> QED BY <1>1, <2>1, <2>2 DEF restored
<1>3. /\ n_locals' = saved_n_locals(d) /\ n_args' = saved_n_args(d) /\ fp' = saved_fp(d)
      /\ flag(call_stack) = closure_flag(d)
  <2>1. block(d) = 5 * d - 5
    BY <1>1 DEF block
  <2>2. /\ 5 * d - 1 - 1 = 5 * d - 5 + 3 /\ 5 * d - 1 - 2 = 5 * d - 5 + 2
        /\ 5 * d - 1 - 3 = 5 * d - 5 + 1 /\ 5 * d - 1 = 5 * d - 5 + 4
    BY <1>1
  <2> QED BY <1>1, <2>1, <2>2 DEF END, saved_fp, saved_n_args, saved_n_locals, flag, closure_flag
<1>4. /\ d \in 1 .. depth /\ closure_flag(d) \in {0, 1} /\ bottom_of(d) = fp - n_args - closure_flag(d)
      /\ NG < bottom_of(d) /\ bottom_of(d) \in Nat /\ bottom_of(d) <= fp
  BY SMTT(20), <1>1, TopFrame
<1>5. Len(stack) = fp + n_locals
  BY <1>1 DEF operands
<1>6. /\ stack' \in Seq(Value) /\ Len(stack') = bottom_of(d)
      /\ \A i \in 1 .. bottom_of(d) - 1 : stack'[i] = stack[i]
      /\ stack'[bottom_of(d)] = word(sp - 1) /\ word(sp - 1) \in Value
  <2> DEFINE below == SubSeq(stack, 1, bottom_of(d) - 1)
  <2>1. Len(stack) - (1 + drop_frame(call_stack)) = bottom_of(d) - 1
    BY SMTT(20), <1>1, <1>3, <1>4, <1>5 DEF drop_frame
  <2>2. stack' = Append(below, word(sp - 1))
    BY <2>1 DEF END, popped
  <2>3. bottom_of(d) - 1 \in 0 .. Len(stack)
    BY SMTT(20), <1>1, <1>4, <1>5
  <2>4. /\ below \in Seq(Value) /\ Len(below) = bottom_of(d) - 1
        /\ \A i \in 1 .. bottom_of(d) - 1 : below[i] = stack[i]
    <3>1. stack \in Seq(Value)
      BY <1>1
    <3> QED BY ONLY <2>3, <3>1, Prefix
  <2>5. word(sp - 1) \in Value
    <3>1. sp - 1 = Len(stack) /\ Len(stack) \in 1 .. Len(stack)
      BY <1>1, <1>4, <1>5 DEF sp
    <3> QED BY <1>1, <3>1, ElementOfSeq DEF word
  <2> HIDE DEF below
  <2>6. /\ Append(below, word(sp - 1)) \in Seq(Value)
        /\ Len(Append(below, word(sp - 1))) = Len(below) + 1
        /\ \A i \in 1 .. Len(below) : Append(below, word(sp - 1))[i] = below[i]
        /\ Append(below, word(sp - 1))[Len(below) + 1] = word(sp - 1)
    BY ONLY <2>4, <2>5, AppendProperties
  <2> QED BY <1>4, <2>2, <2>4, <2>5, <2>6
<1>7. /\ call_stack' \in Seq(Nat) /\ depth' = d - 1
      /\ \A i \in 1 .. 5 * (d - 1) - 1 : call_stack'[i] = call_stack[i]
      /\ d = 1 => status' = "stopped" /\ call_stack' = << >> /\ ip' \in Label
      /\ d # 1 => /\ status' = "run" /\ Len(call_stack') = 5 * (d - 1) - 1
                  /\ ip' = return_address(d)
  <2>1. CASE d = 1
    <3>1. cs = << >>
      BY <1>2, <2>1, EmptySeq
    <3>2. status' = "stopped" /\ call_stack' = << >> /\ ip' = ip
      BY <3>1 DEF END
    <3> QED BY <2>1, <3>2 DEF depth, CInv, TypeOK
  <2>2. CASE d # 1
    <3>1. cs # << >> /\ Len(cs) >= 5
      BY <1>1, <1>2, <2>2
    <3>2. status' = "run" /\ call_stack' = SubSeq(cs, 1, Len(cs) - 1) /\ ip' = cs[Len(cs)]
      BY <3>1 DEF END
    <3> HIDE DEF cs
    <3>3. Len(cs) - 1 \in 0 .. Len(cs)
      BY <1>2, <3>1
    <3>4. /\ SubSeq(cs, 1, Len(cs) - 1) \in Seq(Nat) /\ Len(SubSeq(cs, 1, Len(cs) - 1)) = Len(cs) - 1
          /\ \A i \in 1 .. Len(cs) - 1 : SubSeq(cs, 1, Len(cs) - 1)[i] = cs[i]
      <4>1. cs \in Seq(Nat)
        BY <1>2
      <4> QED BY ONLY <3>3, <4>1, Prefix
    <3>5. Len(cs) - 1 = 5 * (d - 1) - 1 /\ 5 * (d - 1) - 1 + 1 = 5 * (d - 1) /\ d - 1 \in Nat
      BY <1>1, <1>2
    <3>6. Len(call_stack') = 5 * (d - 1) - 1
      BY <3>2, <3>4, <3>5
    <3>7. depth' = d - 1
      <4>1. (5 * (d - 1) - 1 + 1) \div 5 = d - 1
        BY <3>5
      <4> QED BY <3>6, <4>1 DEF depth
    <3>8. \A i \in 1 .. 5 * (d - 1) - 1 : call_stack'[i] = call_stack[i]
      BY <1>1, <1>2, <3>2, <3>4, <3>5
    <3>9. ip' = return_address(d)
      <4>1. block(d) = 5 * d - 5 /\ 5 * d - 5 \in 1 .. 5 * d - 5
        BY <1>1, <2>2 DEF block
      <4> QED BY <1>2, <3>2, <4>1 DEF return_address
    <3> QED BY <2>2, <3>2, <3>4, <3>6, <3>7, <3>8, <3>9
  <2> QED BY <2>1, <2>2
<1>8. ASSUME NEW j \in 1 .. d - 1
      PROVE  /\ fp_of(j)' = fp_of(j) /\ n_args_of(j)' = n_args_of(j)
             /\ n_locals_of(j)' = n_locals_of(j) /\ closure_flag(j)' = closure_flag(j)
             /\ bottom_of(j)' = bottom_of(j)
  <2>1. d - 1 \in Nat
    BY <1>1
  <2>2. closure_flag(j)' = closure_flag(j)
    <3>1. block(j) + 4 \in 1 .. 5 * (d - 1) - 1
      BY <2>1, Blocks
    <3> QED BY <1>7, <3>1 DEF closure_flag, block
  <2>3. CASE j = d - 1
    <3>1. j + 1 = d /\ j # d
      BY <1>1, <2>3
    <3>2. /\ fp_of(j)' = fp' /\ n_args_of(j)' = n_args' /\ n_locals_of(j)' = n_locals'
      BY <1>7, <2>3 DEF fp_of, n_args_of, n_locals_of
    <3>3. /\ fp_of(j) = saved_fp(d) /\ n_args_of(j) = saved_n_args(d)
          /\ n_locals_of(j) = saved_n_locals(d)
      BY <1>1, <3>1 DEF fp_of, n_args_of, n_locals_of
    <3> QED BY <1>3, <2>2, <3>2, <3>3 DEF bottom_of
  <2>4. CASE j # d - 1
    <3>1. j + 1 \in 1 .. d - 1 /\ j # d
      BY <1>1, <2>4
    <3>2. /\ saved_fp(j + 1)' = saved_fp(j + 1) /\ saved_n_args(j + 1)' = saved_n_args(j + 1)
          /\ saved_n_locals(j + 1)' = saved_n_locals(j + 1)
      <4>1. /\ block(j + 1) + 1 \in 1 .. 5 * (d - 1) - 1 /\ block(j + 1) + 2 \in 1 .. 5 * (d - 1) - 1
            /\ block(j + 1) + 3 \in 1 .. 5 * (d - 1) - 1
        BY <2>1, <3>1, Blocks
      <4> QED BY <1>7, <4>1 DEF saved_fp, saved_n_args, saved_n_locals, block
    <3>3. /\ fp_of(j)' = fp_of(j) /\ n_args_of(j)' = n_args_of(j) /\ n_locals_of(j)' = n_locals_of(j)
      BY <1>1, <1>7, <2>4, <3>1, <3>2 DEF fp_of, n_args_of, n_locals_of
    <3> QED BY <2>2, <3>3 DEF bottom_of
  <2> QED BY <2>3, <2>4
<1> QED BY <1>1, <1>3, <1>6, <1>7, <1>8

\* END closes the running frame: the caller's registers, words and closures are
\* what they were, and the result takes the place of the frame.
LEMMA EndStep == ASSUME CInv, END PROVE CInv'
<1> PICK d : d = depth
  OBVIOUS
<1>1. /\ status = "run" /\ operands = 1
      /\ d = depth /\ d \in Nat /\ d >= 1 /\ Len(call_stack) = 5 * d - 1 /\ call_stack \in Seq(Nat)
      /\ stack \in Seq(Value) /\ Len(stack) \in Nat /\ Len(stack) < STACK_WORDS - 1
      /\ fp \in Nat /\ n_args \in Nat /\ n_locals \in Nat /\ NG \in Nat
  BY Depths DEF END, CInv, TypeOK
<1>3. n_locals' = saved_n_locals(d) /\ n_args' = saved_n_args(d) /\ fp' = saved_fp(d)
  BY <1>1, EndFrames
<1>4. /\ d \in 1 .. depth /\ closure_flag(d) \in {0, 1} /\ bottom_of(d) = fp - n_args - closure_flag(d)
      /\ NG < bottom_of(d) /\ bottom_of(d) \in Nat /\ bottom_of(d) <= fp
  BY SMTT(20), <1>1, TopFrame
<1>5. Len(stack) = fp + n_locals
  BY <1>1 DEF operands
<1>6. /\ stack' \in Seq(Value) /\ Len(stack') = bottom_of(d)
      /\ \A i \in 1 .. bottom_of(d) - 1 : stack'[i] = stack[i]
  BY <1>1, EndFrames
<1>7. /\ call_stack' \in Seq(Nat) /\ depth' = d - 1
      /\ \A i \in 1 .. 5 * (d - 1) - 1 : call_stack'[i] = call_stack[i]
      /\ d = 1 => status' = "stopped" /\ call_stack' = << >> /\ ip' \in Label
      /\ d # 1 => /\ status' = "run" /\ Len(call_stack') = 5 * (d - 1) - 1
                  /\ ip' = return_address(d)
  BY <1>1, EndFrames
<1>8. ASSUME NEW j \in 1 .. d - 1
      PROVE  /\ fp_of(j)' = fp_of(j) /\ n_args_of(j)' = n_args_of(j)
             /\ n_locals_of(j)' = n_locals_of(j) /\ closure_flag(j)' = closure_flag(j)
             /\ bottom_of(j)' = bottom_of(j)
  BY <1>1, EndFrames
<1>9. ASSUME NEW j \in 1 .. d - 1 PROVE j \in 1 .. depth /\ j < d
  BY <1>1, <1>9
<1>10. Registers'
  BY <1>7, <1>8, <1>9 DEF CInv, Registers
<1>11. ReturnAddresses' /\ (d # 1 => return_address(d) \in Label)
       /\ \A j \in 2 .. d - 1 : return_address(j)' \in Label
  <2>1. ASSUME NEW j \in 2 .. d - 1 PROVE return_address(j)' \in Label
    <3>1. block(j) \in 1 .. 5 * (d - 1) - 1 /\ block(j) <= Len(call_stack) /\ j \in 2 .. d + 1
      BY <1>1 DEF block
    <3>2. return_address(j) \in Label
      BY <1>1, <3>1 DEF CInv, ReturnAddresses
    <3> QED BY <1>7, <3>1, <3>2 DEF return_address, block
  <2>2. d # 1 => return_address(d) \in Label
    <3>1. d # 1 => d \in 2 .. d + 1 /\ block(d) <= Len(call_stack)
      BY <1>1 DEF block
    <3> QED BY <1>1, <3>1 DEF CInv, ReturnAddresses
  <2>3. ASSUME NEW j \in 2 .. d - 1 + 1, block(j) <= Len(call_stack')
        PROVE  j \in 2 .. d - 1
    <3>1. d # 1 /\ 5 * (j - 1) <= 5 * (d - 1) - 1
      BY <1>1, <1>7, <2>3 DEF block
    <3> QED BY <1>1, <3>1
  <2>4. ReturnAddresses'
    BY <1>7, <2>1, <2>3 DEF ReturnAddresses, block
  <2> QED BY <2>1, <2>2, <2>4
<1>12. CallStackBalanced' /\ Whole' /\ Called'
  <2>1. CASE d = 1
    <3>1. status' = "stopped" /\ call_stack' = << >> /\ depth' = 0 /\ Len(call_stack') = 0
      BY <1>7, <2>1
    <3> QED BY <3>1 DEF CallStackBalanced, Whole, Called
  <2>2. CASE d # 1
    <3>1. status' = "run" /\ depth' = d - 1 /\ Len(call_stack') = 5 * (d - 1) - 1
      BY <1>7, <2>2
    <3>2. Len(call_stack') % 5 = 4
      BY <1>1, <2>2, <3>1
    <3> QED BY <3>1, <3>2 DEF CallStackBalanced, Whole, Called
  <2> QED BY <2>1, <2>2
<1>13. TypeOK'
  <2>1. fp' \in Nat /\ n_args' \in Nat /\ n_locals' \in Nat
    <3>1. d \in 1 .. d
      BY <1>1
    <3>2. /\ block(d) + 1 \in 1 .. Len(call_stack) /\ block(d) + 2 \in 1 .. Len(call_stack)
          /\ block(d) + 3 \in 1 .. Len(call_stack)
      BY <1>1, <3>1, Blocks
    <3> QED BY <1>1, <1>3, <3>2, ElementOfSeq DEF saved_fp, saved_n_args, saved_n_locals
  <2>2. Len(stack') < STACK_WORDS - 1 /\ Len(stack') >= NG
    BY SMTT(20), <1>1, <1>4, <1>5, <1>6, ProgramAssumption
  <2>3. Len(call_stack') < CALL_WORDS - 1
    <3>1. Len(call_stack) < CALL_WORDS - 1
      BY DEF CInv, TypeOK
    <3>2. CASE d = 1
      BY <1>1, <1>7, <3>1, <3>2, ProgramAssumption
    <3>3. CASE d # 1
      BY <1>1, <1>7, <3>1, <3>3, ProgramAssumption
    <3> QED BY <3>2, <3>3
  <2>4. is_closure' \in BOOLEAN /\ callee' \in Functions
    BY DEF END, CInv, TypeOK
  <2>5. \A j \in 1 .. d - 1 : closure_flag(j)' \in {0, 1}
    BY <1>7, <1>10 DEF Registers
  <2>6. ip' \in Label /\ status' \in {"run", "begin", "stopped", "failed"}
    BY <1>7, <1>11
  <2> QED BY <1>6, <1>7, <1>11, <2>1, <2>2, <2>3, <2>4, <2>5, <2>6 DEF TypeOK
<1>14. Ordered'
  <2>1. \A j \in 1 .. d - 1 : NG < bottom_of(j)'
    BY <1>8, <1>9 DEF CInv, Ordered
  <2>2. \A i, j \in 1 .. d - 1 : i < j => fp_of(i)' + n_locals_of(i)' <= bottom_of(j)'
    BY <1>8, <1>9 DEF CInv, Ordered
  <2>3. d - 1 > 0 => fp' + n_locals' <= sp'
    <3> SUFFICES ASSUME d - 1 > 0 PROVE fp' + n_locals' <= sp'
      OBVIOUS
    <3>1. d - 1 \in 1 .. d - 1 /\ d - 1 \in 1 .. depth /\ d - 1 < d
      BY <1>1
    <3>2. fp' = fp_of(d - 1) /\ n_locals' = n_locals_of(d - 1)
      BY <1>1, <1>3 DEF fp_of, n_locals_of
    <3>3. fp_of(d - 1) + n_locals_of(d - 1) <= bottom_of(d)
          /\ fp_of(d - 1) \in Nat /\ n_locals_of(d - 1) \in Nat
      BY <1>4, <3>1, Frame
    <3> QED BY <1>4, <1>6, <3>2, <3>3 DEF sp
  <2> QED BY <1>7, <2>1, <2>2, <2>3 DEF Ordered
<1>15. ClosuresUnder'
  <2>1. ASSUME NEW j \in 1 .. d - 1, closure_flag(j)' = 1
        PROVE  is_closure_of(stack'[bottom_of(j)'], n_args_of(j)', n_locals_of(j)')
    <3>1. j \in 1 .. depth /\ closure_flag(j) = 1 /\ j # depth
      BY <1>1, <1>8, <1>9, <2>1
    <3>2. bottom_of(j) \in 1 .. Len(stack) /\ bottom_of(j) < bottom_of(d)
      BY <1>1, <3>1, BelowTop
    <3>3. bottom_of(j) \in 1 .. bottom_of(d) - 1
      BY <1>4, <3>2
    <3>4. is_closure_of(stack[bottom_of(j)], n_args_of(j), n_locals_of(j))
      BY <3>1 DEF CInv, ClosuresUnder
    <3> QED BY <1>6, <1>8, <3>3, <3>4
  <2> QED BY <1>7, <2>1 DEF ClosuresUnder
<1> QED BY <1>10, <1>11, <1>12, <1>13, <1>14, <1>15 DEF CInv

-------------------------------------------------------------------------------
(* All steps *)

\* main is entered with no frame and no argument.
LEMMA InitCInv == Init => CInv
<1> SUFFICES ASSUME Init PROVE CInv
  OBVIOUS
<1> USE ProgramAssumption DEF Init
<1>1. Len(call_stack) = 0 /\ depth = 0 /\ call_stack \in Seq(Nat)
  BY DEF depth
<1>2. stack \in Seq(Value) /\ Len(stack) = NG
  BY DEF empty, Value, Integer
<1>3. callee \in Functions /\ callee.args = 0 /\ the_flag = 0
  BY DEF the_flag
<1>4. TypeOK
  <2>1. Len(stack) >= NG /\ Len(stack) < STACK_WORDS - 1 /\ Len(call_stack) < CALL_WORDS - 1
    BY <1>1, <1>2
  <2>2. (\A j \in 1 .. depth : closure_flag(j) \in {0, 1})
        /\ \A j \in 2 .. depth : return_address(j) \in Label
    BY <1>1
  <2> QED BY <1>1, <1>2, <1>3, <2>1, <2>2 DEF TypeOK
<1>5. CallStackBalanced /\ Whole
  BY <1>1 DEF CallStackBalanced, Whole
<1>6. Registers /\ ReturnAddresses /\ Ordered /\ ClosuresUnder
  BY <1>1 DEF Registers, ReturnAddresses, Ordered, ClosuresUnder
<1>7. Called
  BY <1>1, <1>3 DEF Called
<1> QED BY <1>4, <1>5, <1>6, <1>7 DEF CInv

LEMMA StutterCInv == ASSUME CInv, UNCHANGED vars PROVE CInv'
<1> USE DEF vars, regs
<1>1. /\ depth' = depth
      /\ \A j : /\ fp_of(j)' = fp_of(j) /\ n_args_of(j)' = n_args_of(j)
                /\ n_locals_of(j)' = n_locals_of(j) /\ closure_flag(j)' = closure_flag(j)
                /\ bottom_of(j)' = bottom_of(j) /\ return_address(j)' = return_address(j)
  BY DEF depth, fp_of, n_args_of, n_locals_of, closure_flag, bottom_of, return_address, block,
         saved_fp, saved_n_args, saved_n_locals
<1>2. TypeOK' /\ CallStackBalanced' /\ Whole'
  BY <1>1 DEF CInv, TypeOK, CallStackBalanced, Whole
<1>3. Registers' /\ ReturnAddresses'
  BY <1>1 DEF CInv, Registers, ReturnAddresses, block
<1>4. Ordered' /\ ClosuresUnder' /\ Called'
  BY <1>1 DEF CInv, Ordered, ClosuresUnder, Called, sp, operands, the_flag
<1> QED BY <1>2, <1>3, <1>4 DEF CInv

\* A step that sets the status to "failed" changes nothing else.
LEMMA FailingStep == ASSUME Next, status' = "failed" PROVE fail \/ UNCHANGED vars
<1> USE DEF fail
<1>1. CASE JMP \/ CONST \/ BCLOSURE \/ LD
  <2>1. ASSUME goes_on PROVE status = "failed"
    BY <2>1 DEF goes_on
  <2> QED BY <1>1, <2>1 DEF JMP, CONST, BCLOSURE, LD, push
<1>2. CASE DROP \/ ST
  <2>1. ASSUME goes_on PROVE status = "failed"
    BY <2>1 DEF goes_on
  <2> QED BY <1>2, <2>1 DEF DROP, ST
<1>3. CASE CALL
  BY <1>3 DEF CALL
<1>4. CASE CALLC
  BY <1>4 DEF CALLC
<1>5. CASE BEGIN
  BY <1>5 DEF BEGIN
<1>6. CASE END
  BY <1>6 DEF END
<1>7. CASE Ended
  BY <1>7 DEF Ended
<1> QED BY <1>1, <1>2, <1>3, <1>4, <1>5, <1>6, <1>7 DEF Next

LEMMA StepCInv == ASSUME Verified, CInv, [Next]_vars PROVE CInv'
<1>1. CASE UNCHANGED vars
  BY <1>1, StutterCInv
<1>2. CASE Next /\ status' = "failed"
  BY <1>2, FailingStep, FailStep, StutterCInv
<1>3. CASE Next /\ status' # "failed"
  BY <1>3, JmpStep, PushStep, LdStep, DropStep, StStep, CallStep, CallcStep, BeginStep, EndStep,
     StutterCInv DEF Next, Ended
<1> QED BY <1>1, <1>2, <1>3

-------------------------------------------------------------------------------
(* Theorems *)

LEMMA Invariance == ASSUME Verified PROVE Spec => []CInv
<1>1. Init => CInv
  BY InitCInv
<1>2. CInv /\ [Next]_vars => CInv'
  BY StepCInv
<1> QED BY <1>1, <1>2, PTL DEF Spec

\* The registers and the blocks of the call stack are numbers, each return
\* address is a place in the bytecode, and neither stack leaves its memory.
THEOREM CallStackTypeOK == ASSUME Verified PROVE Spec => []TypeOK
BY Invariance, CInvImplies, PTL

\* The call stack is whole blocks at all times: an instruction that runs finds
\* four words for main and five for every other frame, and the program stops
\* with the call stack empty.
THEOREM CallStackAlwaysBalanced == ASSUME Verified PROVE Spec => []CallStackBalanced
BY Invariance, CInvImplies, PTL

\* No frame reaches into its caller's or into the global area, and a call
\* always finds its arguments, and the closure under them, in its caller's
\* operands, for every program that pops operands of its own frames only.
THEOREM FramesAreDisjoint == ASSUME Verified PROVE Spec => []FrameChain
BY Invariance, CInvImplies, PTL

\* Below the arguments of every frame that was entered through a closure lies
\* that closure, however deep the frame is in the chain of calls: no
\* instruction of the frames above overwrites it.
THEOREM ClosuresStayUnderArguments == ASSUME Verified PROVE Spec => []ClosureUnderArguments
BY Invariance, CInvImplies, PTL

-------------------------------------------------------------------------------
(***************************************************************************)
(* The refinement of the activation records.  First the parts of a stack:  *)
(* what SubSeq gives on a stack that agrees with another, that grew, and   *)
(* on a part of it.                                                        *)
(***************************************************************************)

\* The words of a stack from m to n.
LEMMA Part ==
  ASSUME NEW S, NEW s \in Seq(S), NEW m \in Nat, NEW n \in Int,
         1 <= m, m <= n + 1, n <= Len(s)
  PROVE  /\ SubSeq(s, m, n) \in Seq(S) /\ Len(SubSeq(s, m, n)) = n - m + 1
         /\ \A i \in 1 .. n - m + 1 : SubSeq(s, m, n)[i] = s[m + i - 1]
<1>1. Len(s) \in Nat /\ m \in Int /\ n \in Int
  BY LenProperties
<1>2. ASSUME NEW i \in m .. n PROVE s[i] \in S
  <2>1. i \in 1 .. Len(s)
    BY <1>1
  <2> QED BY <2>1, ElementOfSeq
<1>3. /\ SubSeq(s, m, n) \in Seq(S)
      /\ Len(SubSeq(s, m, n)) = IF m <= n THEN n - m + 1 ELSE 0
      /\ \A i \in 1 .. n - m + 1 : SubSeq(s, m, n)[i] = s[m + i - 1]
  BY ONLY <1>1, <1>2, SubSeqProperties
<1>4. Len(SubSeq(s, m, n)) = n - m + 1
  BY <1>1, <1>3
<1> QED BY <1>3, <1>4

\* Stacks that agree from m to n have the same words there.
LEMMA SamePart ==
  ASSUME NEW S, NEW s \in Seq(S), NEW t \in Seq(S), NEW m \in Nat, NEW n \in Int,
         1 <= m, m <= n + 1, n <= Len(s), n <= Len(t), \A i \in m .. n : s[i] = t[i]
  PROVE  SubSeq(s, m, n) = SubSeq(t, m, n)
<1>1. /\ SubSeq(s, m, n) \in Seq(S) /\ Len(SubSeq(s, m, n)) = n - m + 1
      /\ \A i \in 1 .. n - m + 1 : SubSeq(s, m, n)[i] = s[m + i - 1]
  BY Part
<1>2. /\ SubSeq(t, m, n) \in Seq(S) /\ Len(SubSeq(t, m, n)) = n - m + 1
      /\ \A i \in 1 .. n - m + 1 : SubSeq(t, m, n)[i] = t[m + i - 1]
  BY Part
<1>3. ASSUME NEW i \in 1 .. n - m + 1 PROVE SubSeq(s, m, n)[i] = SubSeq(t, m, n)[i]
  <2>1. m + i - 1 \in m .. n
    OBVIOUS
  <2> QED BY <1>1, <1>2, <2>1
<1> QED BY <1>1, <1>2, <1>3, SeqEqual

\* A part of a part of a stack.
LEMMA PartOfPart ==
  ASSUME NEW S, NEW s \in Seq(S), NEW m \in Nat, NEW n \in Int,
         1 <= m, m <= n + 1, n <= Len(s),
         NEW a \in Nat, NEW b \in Int, 1 <= a, a <= b + 1, b <= n - m + 1,
         NEW t, t = SubSeq(s, m, n), NEW x, x = m + a - 1, NEW y, y = m + b - 1
  PROVE  SubSeq(t, a, b) = SubSeq(s, x, y)
<1>1. /\ t \in Seq(S) /\ Len(t) = n - m + 1
      /\ \A i \in 1 .. n - m + 1 : t[i] = s[m + i - 1]
  BY Part
<1>2. /\ SubSeq(t, a, b) \in Seq(S) /\ Len(SubSeq(t, a, b)) = b - a + 1
      /\ \A i \in 1 .. b - a + 1 : SubSeq(t, a, b)[i] = t[a + i - 1]
  BY ZenonT(30), <1>1, Part
<1>3. /\ SubSeq(s, m + a - 1, m + b - 1) \in Seq(S)
      /\ Len(SubSeq(s, m + a - 1, m + b - 1)) = b - a + 1
      /\ \A i \in 1 .. b - a + 1 : SubSeq(s, m + a - 1, m + b - 1)[i] = s[m + a + i - 2]
  <2>1. /\ m + a - 1 \in Nat /\ m + b - 1 \in Int /\ 1 <= m + a - 1
        /\ m + a - 1 <= m + b - 1 + 1 /\ m + b - 1 <= Len(s)
        /\ m + b - 1 - (m + a - 1) + 1 = b - a + 1
    BY LenProperties
  <2>2. /\ SubSeq(s, m + a - 1, m + b - 1) \in Seq(S)
        /\ Len(SubSeq(s, m + a - 1, m + b - 1)) = m + b - 1 - (m + a - 1) + 1
        /\ \A i \in 1 .. m + b - 1 - (m + a - 1) + 1 :
             SubSeq(s, m + a - 1, m + b - 1)[i] = s[m + a - 1 + i - 1]
    BY ONLY <2>1, s \in Seq(S), Part
  <2>3. ASSUME NEW i \in 1 .. b - a + 1 PROVE m + a - 1 + i - 1 = m + a + i - 2
    OBVIOUS
  <2> QED BY <2>1, <2>2, <2>3
<1>4. ASSUME NEW i \in 1 .. b - a + 1
      PROVE  SubSeq(t, a, b)[i] = SubSeq(s, m + a - 1, m + b - 1)[i]
  <2>1. a + i - 1 \in 1 .. n - m + 1 /\ m + (a + i - 1) - 1 = m + a + i - 2
    OBVIOUS
  <2>2. t[a + i - 1] = s[m + (a + i - 1) - 1]
    BY <1>1, <2>1
  <2> QED BY <1>2, <1>3, <2>1, <2>2
<1>5. SubSeq(t, a, b) = SubSeq(s, m + a - 1, m + b - 1)
  BY <1>2, <1>3, <1>4, SeqEqual
<1> QED BY <1>5

\* A part up to the top grows with the stack.
LEMMA PartGrows ==
  ASSUME NEW S, NEW s \in Seq(S), NEW m \in Nat, NEW v \in S, 1 <= m, m <= Len(s) + 1
  PROVE  SubSeq(Append(s, v), m, Len(s) + 1) = Append(SubSeq(s, m, Len(s)), v)
<1> DEFINE t == SubSeq(s, m, Len(s))
           u == Append(s, v)
<1>0. Len(s) \in Nat
  BY LenProperties
<1>1. /\ t \in Seq(S) /\ Len(t) = Len(s) - m + 1
      /\ \A i \in 1 .. Len(s) - m + 1 : t[i] = s[m + i - 1]
  BY <1>0, Part
<1>2. /\ u \in Seq(S) /\ Len(u) = Len(s) + 1
      /\ \A i \in 1 .. Len(s) : u[i] = s[i]
      /\ u[Len(s) + 1] = v
  BY AppendProperties
<1> HIDE DEF t, u
<1>3. /\ Append(t, v) \in Seq(S) /\ Len(Append(t, v)) = Len(t) + 1
      /\ \A i \in 1 .. Len(t) : Append(t, v)[i] = t[i]
      /\ Append(t, v)[Len(t) + 1] = v
  BY <1>1, AppendProperties
<1>4. /\ SubSeq(u, m, Len(s) + 1) \in Seq(S) /\ Len(SubSeq(u, m, Len(s) + 1)) = Len(s) + 1 - m + 1
      /\ \A i \in 1 .. Len(s) + 1 - m + 1 : SubSeq(u, m, Len(s) + 1)[i] = u[m + i - 1]
  BY <1>0, <1>2, Part
<1>5. ASSUME NEW i \in 1 .. Len(s) + 1 - m + 1
      PROVE  SubSeq(u, m, Len(s) + 1)[i] = Append(t, v)[i]
  <2>1. CASE i <= Len(t)
    <3>1. i \in 1 .. Len(t) /\ m + i - 1 \in 1 .. Len(s)
      BY <1>0, <1>1, <2>1
    <3> QED BY <1>1, <1>2, <1>3, <1>4, <3>1
  <2>2. CASE ~(i <= Len(t))
    <3>1. i = Len(t) + 1 /\ m + i - 1 = Len(s) + 1
      BY <1>0, <1>1, <2>2
    <3> QED BY <1>2, <1>3, <1>4, <3>1
  <2> QED BY <2>1, <2>2
<1>6. Len(Append(t, v)) = Len(s) + 1 - m + 1
  BY <1>0, <1>1, <1>3
<1>7. SubSeq(u, m, Len(s) + 1) = Append(t, v)
  BY <1>3, <1>4, <1>5, <1>6, SeqEqual
<1> QED BY <1>7 DEF t, u

-------------------------------------------------------------------------------
(* The activation records that the two stacks stand for *)

frames_of  == [j \in 1 .. depth |-> frame(j)]
globals_of == part(1, NG)
place      == IF calling THEN call_stack[Len(call_stack)] ELSE ip

\* The steps of the records, in these terms.
LEMMA RecordSteps ==
  /\ Records!Init <=> globals_of \in Seq(Value) /\ frames_of = << >> /\ place \in Label
  /\ Records!vars' = Records!vars <=>
       globals_of' = globals_of /\ frames_of' = frames_of /\ place' = place
BY DEF Records!Init, Records!vars, frames_of, globals_of, place

LEMMA FramesOf ==
  ASSUME CInv
  PROVE  /\ Len(frames_of) = depth /\ DOMAIN frames_of = 1 .. depth
         /\ \A j \in 1 .. depth : frames_of[j] = frame(j)
<1>1. depth \in Nat
  BY Depths
<1> QED BY <1>1 DEF frames_of

\* The words of frame j: above the globals and under its top.
LEMMA Extent ==
  ASSUME CInv, NEW j \in 1 .. depth
  PROVE  /\ fp_of(j) \in Nat /\ n_args_of(j) \in Nat /\ n_locals_of(j) \in Nat
         /\ NG < bottom_of(j) /\ bottom_of(j) \in Nat /\ bottom_of(j) <= fp_of(j) - n_args_of(j)
         /\ fp_of(j) + n_locals_of(j) <= top_of(j) /\ top_of(j) \in Nat /\ top_of(j) <= sp
         /\ NG \in Nat /\ sp \in Nat
         /\ j # depth => top_of(j) <= bottom_of(depth)
<1>1. /\ fp_of(j) \in Nat /\ n_args_of(j) \in Nat /\ n_locals_of(j) \in Nat
      /\ NG < bottom_of(j) /\ bottom_of(j) \in Nat
      /\ bottom_of(j) = fp_of(j) - n_args_of(j) - closure_flag(j) /\ closure_flag(j) \in Nat
  BY Frame
<1>2. bottom_of(j) <= fp_of(j) - n_args_of(j)
  BY <1>1
<1>3. fp_of(j) + n_locals_of(j) <= top_of(j)
  BY CInvImplies DEF FrameChain
<1>4. depth \in Nat /\ depth >= 1 /\ Len(stack) \in Nat /\ NG \in Nat /\ sp \in Nat
  BY Depths DEF sp
<1>5. /\ bottom_of(depth) <= sp /\ bottom_of(depth) \in Nat
  <2>1. /\ bottom_of(depth) = fp - n_args - closure_flag(depth) /\ closure_flag(depth) \in Nat
        /\ bottom_of(depth) \in Nat /\ fp + n_locals <= sp
        /\ fp \in Nat /\ n_args \in Nat /\ n_locals \in Nat
    BY <1>4, TopFrame, Depths
  <2> QED BY <1>4, <2>1
<1>6. top_of(j) \in Nat /\ top_of(j) <= sp /\ (j # depth => top_of(j) <= bottom_of(depth))
  <2>1. CASE j = depth
    BY <1>4, <2>1 DEF top_of
  <2>2. CASE j # depth
    <3>1. j + 1 \in 1 .. depth /\ top_of(j) = bottom_of(j + 1)
      BY <1>4, <2>2 DEF top_of
    <3>2. bottom_of(j + 1) \in Nat
      BY <3>1, Frame
    <3>3. bottom_of(j + 1) <= bottom_of(depth)
      <4>1. CASE j + 1 = depth
        BY <1>5, <4>1
      <4>2. CASE j + 1 # depth
        <5>1. /\ fp_of(j + 1) + n_locals_of(j + 1) <= bottom_of(depth)
              /\ fp_of(j + 1) \in Nat /\ n_locals_of(j + 1) \in Nat /\ n_args_of(j + 1) \in Nat
              /\ closure_flag(j + 1) \in Nat
              /\ bottom_of(j + 1) = fp_of(j + 1) - n_args_of(j + 1) - closure_flag(j + 1)
          <6>1. depth \in 1 .. depth /\ j + 1 < depth
            BY <1>4, <3>1, <4>2
          <6> QED BY <3>1, <6>1, Frame
        <5> QED BY <1>5, <5>1
      <4> QED BY <4>1, <4>2
    <3> QED BY <1>4, <1>5, <2>2, <3>1, <3>2, <3>3
  <2> QED BY <2>1, <2>2
<1> QED BY <1>1, <1>2, <1>3, <1>4, <1>6

\* No frame ends above the top of the stack.
TopsInside == \A j \in 1 .. depth : top_of(j) <= sp
LEMMA TopsAreInside == CInv => TopsInside
BY Extent DEF TopsInside

\* A frame is the same record as long as its registers and its words are.
LEMMA KeptFrame ==
  ASSUME CInv, CInv', NEW j \in 1 .. depth, j \in 1 .. depth',
         fp_of(j)' = fp_of(j), n_args_of(j)' = n_args_of(j), n_locals_of(j)' = n_locals_of(j),
         top_of(j)' = top_of(j), j # 1 => return_address(j)' = return_address(j),
         \A p \in NG + 1 .. top_of(j) - 1 : stack'[p] = stack[p]
  PROVE  frame(j)' = frame(j)
<1>1. /\ stack \in Seq(Value) /\ Len(stack) \in Nat /\ stack' \in Seq(Value) /\ Len(stack') \in Nat
  BY Depths DEF CInv, TypeOK
<1>2. top_of(j) <= Len(stack) + 1 /\ top_of(j) <= Len(stack') + 1
  <2>1. top_of(j)' <= sp'
    <3>1. TopsInside'
      BY TopsAreInside, PTL
    <3> QED BY <3>1 DEF TopsInside
  <2> QED BY <2>1, Extent DEF sp
<1>3. ASSUME NEW m \in Nat, NEW n \in Int, NG < m, m <= n + 1, n <= top_of(j) - 1
      PROVE  part(m, n)' = part(m, n)
  <2> PICK top : top = top_of(j) OBVIOUS
  <2> PICK k : k = Len(stack) OBVIOUS
  <2> PICK l : l = Len(stack') OBVIOUS
  <2>1. /\ NG \in Nat /\ top \in Nat /\ k \in Nat /\ l \in Nat
        /\ top <= k + 1 /\ top <= l + 1 /\ n <= top - 1
    BY <1>1, <1>2, <1>3, Extent
  <2>2. /\ 1 <= m /\ n <= Len(stack) /\ n <= Len(stack')
        /\ \A p \in m .. n : p \in NG + 1 .. top_of(j) - 1
    <3>1. /\ 1 <= m /\ n <= k /\ n <= l
          /\ \A p \in m .. n : p \in NG + 1 .. top - 1
      BY ONLY <1>3, <2>1, m \in Nat, n \in Int
    <3> QED BY <3>1
  <2>3. \A p \in m .. n : stack'[p] = stack[p]
    BY <2>2
  <2>4. SubSeq(stack', m, n) = SubSeq(stack, m, n)
    BY <1>1, <1>3, <2>2, <2>3, SamePart
  <2> QED BY <2>4 DEF part
<1> QED BY <1>3, Extent DEF frame

\* The steps of the activation records, over frames_of, globals_of and place.
LEMMA RecordJump ==
  ASSUME Len(frames_of) > 0, frames_of' = frames_of, globals_of' = globals_of
  PROVE  Records!Jump
BY DEF Records!Jump, Records!depth, frames_of, globals_of

running_record == frames_of[Len(frames_of)]
running_becomes(f) == frames_of' = [frames_of EXCEPT ![Len(frames_of)] = f]

LEMMA RecordPush ==
  ASSUME Len(frames_of) > 0, globals_of' = globals_of, NEW v \in Value,
         running_becomes([running_record EXCEPT !.operands = Append(@, v)])
  PROVE  Records!Push
BY DEF Records!Push, Records!becomes, Records!running, Records!depth, running_becomes, running_record,
       frames_of, globals_of

LEMMA RecordPop ==
  ASSUME Len(frames_of) > 0, globals_of' = globals_of, running_record.operands # << >>,
         running_becomes([running_record EXCEPT !.operands = SubSeq(@, 1, Len(@) - 1)])
  PROVE  Records!Pop
BY DEF Records!Pop, Records!becomes, Records!running, Records!depth, running_becomes, running_record,
       frames_of, globals_of

top_operand_of == running_record.operands[Len(running_record.operands)]

LEMMA RecordAssign ==
  ASSUME Len(frames_of) > 0, running_record.operands # << >>,
         \/ /\ \E i \in DOMAIN globals_of : globals_of' = [globals_of EXCEPT ![i] = top_operand_of]
            /\ frames_of' = frames_of
         \/ /\ \E i \in DOMAIN running_record.args :
                 running_becomes([running_record EXCEPT !.args[i] = top_operand_of])
            /\ globals_of' = globals_of
         \/ /\ \E i \in DOMAIN running_record.locals :
                 running_becomes([running_record EXCEPT !.locals[i] = top_operand_of])
            /\ globals_of' = globals_of
  PROVE  Records!Assign
BY DEF Records!Assign, Records!becomes, Records!running, Records!depth, Records!top_operand,
       running_becomes, running_record, top_operand_of, frames_of, globals_of

LEMMA RecordCall ==
  ASSUME NEW d \in Nat, d = Len(frames_of), d > 0, Len(frames_of') = d + 1, globals_of' = globals_of,
         NEW n \in Nat, n = Len(frames_of'[d + 1].args), n <= Len(running_record.operands),
         frames_of'[d + 1].args = SubSeq(running_record.operands, Len(running_record.operands) - n + 1,
                                         Len(running_record.operands)),
         NEW taken \in {n, n + 1},
         frames_of' = Append([frames_of EXCEPT ![d] = [running_record EXCEPT !.operands =
                                 SubSeq(@, 1, Len(@) - taken)]], frames_of'[d + 1]),
         frames_of'[d + 1].operands = << >>, frames_of'[d + 1].ret = place
  PROVE  Records!Call
BY DEF Records!Call, Records!running, Records!depth, running_record, frames_of, globals_of, place

LEMMA RecordReturn ==
  ASSUME NEW d \in Nat, d = Len(frames_of), d > 1, globals_of' = globals_of,
         running_record.operands # << >>, place' = running_record.ret,
         frames_of' = [SubSeq(frames_of, 1, d - 1) EXCEPT ![d - 1].operands =
                          Append(frames_of[d - 1].operands, top_operand_of)]
  PROVE  Records!Return
BY DEF Records!Return, Records!running, Records!depth, Records!top_operand,
       running_record, top_operand_of, frames_of, globals_of, place

LEMMA RecordStart ==
  ASSUME frames_of = << >>, Len(frames_of') = 1, frames_of'[1].operands = << >>,
         frames_of'[1].args = << >>, globals_of' = globals_of
  PROVE  Records!Start
BY DEF Records!Start, frames_of, globals_of

LEMMA RecordStop ==
  ASSUME Len(frames_of) = 1, frames_of' = << >>, globals_of' = globals_of
  PROVE  Records!Stop
BY DEF Records!Stop, Records!depth, frames_of, globals_of

\* The running record: the words between its registers and sp.
LEMMA RunningRecord ==
  ASSUME CInv, depth >= 1
  PROVE  /\ Len(frames_of) = depth /\ running_record = frame(depth)
         /\ running_record = [args     |-> SubSeq(stack, fp - n_args, fp - 1),
                              locals   |-> SubSeq(stack, fp, fp + n_locals - 1),
                              operands |-> SubSeq(stack, fp + n_locals, Len(stack)),
                              ret      |-> running_record.ret]
         /\ running_record.ret = IF depth = 1 THEN no_label ELSE return_address(depth)
<1>1. depth \in Nat /\ depth \in 1 .. depth
  BY Depths
<1>2. Len(frames_of) = depth /\ running_record = frame(depth)
  BY <1>1, FramesOf DEF running_record
<1>3. /\ fp_of(depth) = fp /\ n_args_of(depth) = n_args /\ n_locals_of(depth) = n_locals
      /\ top_of(depth) - 1 = Len(stack)
  BY Depths DEF fp_of, n_args_of, n_locals_of, top_of, sp
<1> QED BY <1>2, <1>3 DEF frame, part

\* Its parts lie on the stack, above the globals and above the other records.
LEMMA RunningExtent ==
  ASSUME CInv, depth >= 1
  PROVE  /\ fp \in Nat /\ n_args \in Nat /\ n_locals \in Nat /\ NG \in Nat
         /\ stack \in Seq(Value) /\ Len(stack) \in Nat /\ NG <= Len(stack)
         /\ NG < bottom_of(depth) /\ bottom_of(depth) \in Nat /\ bottom_of(depth) <= fp - n_args
         /\ fp - n_args \in Nat /\ 1 <= fp - n_args /\ fp + n_locals <= Len(stack) + 1
         /\ bottom_of(depth) <= Len(stack) + 1
         /\ operands = Len(stack) - (fp + n_locals) + 1
<1>1. depth \in 1 .. depth
  BY Depths
<1>2. /\ fp \in Nat /\ n_args \in Nat /\ n_locals \in Nat /\ NG \in Nat
      /\ stack \in Seq(Value) /\ Len(stack) \in Nat /\ NG <= Len(stack) /\ sp = Len(stack) + 1
  BY Depths DEF CInv, TypeOK, sp
<1>3. /\ NG < bottom_of(depth) /\ bottom_of(depth) \in Nat /\ bottom_of(depth) <= fp - n_args
      /\ fp + n_locals <= sp
  <2>1. fp_of(depth) = fp /\ n_args_of(depth) = n_args
    BY DEF fp_of, n_args_of
  <2> QED BY <1>1, <2>1, Extent, TopFrame
<1> QED BY <1>2, <1>3 DEF operands

\* The operands of the running record are the words above its locals.
LEMMA RunningOperands ==
  ASSUME CInv, depth >= 1
  PROVE  /\ running_record.operands = SubSeq(stack, fp + n_locals, Len(stack))
         /\ running_record.operands \in Seq(Value) /\ Len(running_record.operands) = operands
         /\ operands \in Nat
         /\ operands >= 1 => /\ running_record.operands # << >>
                             /\ top_operand_of = word(sp - 1) /\ word(sp - 1) \in Value
<1>1. running_record.operands = SubSeq(stack, fp + n_locals, Len(stack))
  BY RunningRecord
<1>2. /\ fp + n_locals \in Nat /\ Len(stack) \in Int /\ 1 <= fp + n_locals
      /\ fp + n_locals <= Len(stack) + 1 /\ Len(stack) <= Len(stack) /\ stack \in Seq(Value)
  BY RunningExtent
<1>3. /\ running_record.operands \in Seq(Value)
      /\ Len(running_record.operands) = Len(stack) - (fp + n_locals) + 1
      /\ \A i \in 1 .. Len(stack) - (fp + n_locals) + 1 :
           running_record.operands[i] = stack[fp + n_locals + i - 1]
  BY <1>1, <1>2, Part
<1>4. operands = Len(stack) - (fp + n_locals) + 1 /\ operands \in Nat
  BY <1>2, RunningExtent
<1>5. ASSUME operands >= 1
      PROVE  /\ running_record.operands # << >>
             /\ top_operand_of = word(sp - 1) /\ word(sp - 1) \in Value
  <2>1. running_record.operands # << >>
    BY <1>3, <1>4, <1>5
  <2>2. operands \in 1 .. operands /\ fp + n_locals + operands - 1 = Len(stack)
        /\ sp - 1 = Len(stack) /\ Len(stack) \in 1 .. Len(stack)
    BY <1>2, <1>4, <1>5 DEF sp
  <2>3. top_operand_of = stack[Len(stack)]
    BY <1>3, <1>4, <2>2 DEF top_operand_of
  <2> QED BY <1>2, <2>1, <2>2, <2>3, ElementOfSeq DEF word
<1> QED BY <1>1, <1>3, <1>4, <1>5

\* An instruction of the running function changes its record only, when it
\* writes no word under the frame.
LEMMA InsideRecords ==
  ASSUME CInv, CInv', status = "run", goes_on,
         \A p \in NG + 1 .. bottom_of(depth) - 1 : stack'[p] = stack[p]
  PROVE  /\ Len(frames_of) > 0 /\ running_becomes(running_record')
<1> PICK d : d = depth
  OBVIOUS
<1>1. d = depth /\ d \in Nat /\ d >= 1 /\ d \in 1 .. d /\ depth' = d
  BY Depths DEF goes_on, depth
<1>2. Len(frames_of) = d /\ DOMAIN frames_of = 1 .. d /\ \A j \in 1 .. d : frames_of[j] = frame(j)
  BY <1>1, FramesOf
<1>3. frames_of' = [j \in 1 .. d |-> frame(j)']
  BY <1>1 DEF frames_of
<1>4. ASSUME NEW j \in 1 .. d, j # d PROVE frame(j)' = frame(j)
  <2>1. /\ fp_of(j)' = fp_of(j) /\ n_args_of(j)' = n_args_of(j) /\ n_locals_of(j)' = n_locals_of(j)
        /\ return_address(j)' = return_address(j)
    BY <1>1 DEF goes_on, regs, fp_of, n_args_of, n_locals_of, return_address, block,
                saved_fp, saved_n_args, saved_n_locals
  <2>2. top_of(j)' = top_of(j)
    BY <1>1, <1>4 DEF goes_on, regs, depth, top_of, bottom_of, fp_of, n_args_of, closure_flag, block,
                saved_fp, saved_n_args
  <2>3. top_of(j) <= bottom_of(d) /\ top_of(j) \in Nat /\ bottom_of(d) \in Nat /\ NG \in Nat
    BY <1>1, <1>4, Extent, RunningExtent
  <2>4. \A p \in NG + 1 .. top_of(j) - 1 : stack'[p] = stack[p]
    BY <1>1, <2>3
  <2> QED BY <1>1, <2>1, <2>2, <2>4, KeptFrame
<1>5. running_record' = frame(d)'
  <2>1. Len(frames_of') = d
    BY <1>1, <1>3
  <2> QED BY <1>1, <1>3, <2>1 DEF running_record
<1>6. frames_of' = [frames_of EXCEPT ![d] = running_record']
  BY <1>1, <1>2, <1>3, <1>4, <1>5
<1> QED BY <1>1, <1>2, <1>6 DEF running_becomes

\* The globals are the words below the first frame.
LEMMA KeptGlobals ==
  ASSUME CInv, CInv', \A p \in 1 .. NG : stack'[p] = stack[p]
  PROVE  globals_of' = globals_of
<1>1. /\ stack \in Seq(Value) /\ stack' \in Seq(Value) /\ NG \in Nat /\ 1 \in Nat /\ NG \in Int
      /\ NG <= Len(stack) /\ NG <= Len(stack') /\ 1 <= NG + 1 /\ 1 <= 1
  BY ProgramAssumption DEF CInv, TypeOK
<1>2. SubSeq(stack', 1, NG) = SubSeq(stack, 1, NG)
  BY <1>1, SamePart
<1> QED BY <1>2 DEF globals_of, part

\* The parts of the running record after an instruction that is not a call.
RunningShape == depth >= 1 =>
  /\ running_record = [args     |-> SubSeq(stack, fp - n_args, fp - 1),
                       locals   |-> SubSeq(stack, fp, fp + n_locals - 1),
                       operands |-> SubSeq(stack, fp + n_locals, Len(stack)),
                       ret      |-> running_record.ret]
  /\ running_record.ret = IF depth = 1 THEN no_label ELSE return_address(depth)

LEMMA RunningShaped == CInv => RunningShape
BY RunningRecord DEF RunningShape

LEMMA NextRecord ==
  ASSUME CInv, CInv', status = "run", goes_on
  PROVE  /\ depth >= 1
         /\ running_record' = [args     |-> SubSeq(stack', fp - n_args, fp - 1),
                               locals   |-> SubSeq(stack', fp, fp + n_locals - 1),
                               operands |-> SubSeq(stack', fp + n_locals, Len(stack')),
                               ret      |-> running_record.ret]
         /\ running_record = [args     |-> SubSeq(stack, fp - n_args, fp - 1),
                              locals   |-> SubSeq(stack, fp, fp + n_locals - 1),
                              operands |-> SubSeq(stack, fp + n_locals, Len(stack)),
                              ret      |-> running_record.ret]
<1>1. depth >= 1 /\ depth' = depth /\ return_address(depth)' = return_address(depth)
  BY Depths DEF goes_on, depth, return_address, block
<1>2. RunningShape /\ RunningShape'
  BY RunningShaped, PTL
<1>3. running_record'.ret = running_record.ret
  BY <1>1, <1>2 DEF RunningShape
<1> QED BY <1>1, <1>2, <1>3 DEF RunningShape, goes_on, regs

\* One field of a record.
LEMMA RecordWith ==
  ASSUME NEW r, NEW a, NEW b, NEW c, NEW d, NEW e,
         r = [args |-> a, locals |-> b, operands |-> c, ret |-> d]
  PROVE  /\ [r EXCEPT !.operands = e] = [args |-> a, locals |-> b, operands |-> e, ret |-> d]
         /\ [r EXCEPT !.args = e] = [args |-> e, locals |-> b, operands |-> c, ret |-> d]
         /\ [r EXCEPT !.locals = e] = [args |-> a, locals |-> e, operands |-> c, ret |-> d]
         /\ r.args = a /\ r.locals = b /\ r.operands = c /\ r.ret = d
OBVIOUS

\* A word above all frames: the operands of the running record grow.
LEMMA PushRecords ==
  ASSUME CInv, CInv', status = "run", NEW v \in Value, push(v), status' # "failed"
  PROVE  Records!Push
<1>1. stack' = Append(stack, v) /\ goes_on
  BY DEF push, fail
<1>2. depth >= 1 /\ stack \in Seq(Value) /\ Len(stack) \in Nat
  BY Depths DEF CInv, TypeOK
<1>3. /\ stack' \in Seq(Value) /\ Len(stack') = Len(stack) + 1
      /\ \A i \in 1 .. Len(stack) : stack'[i] = stack[i]
  BY <1>1, <1>2, AppendProperties
<1>4. /\ fp \in Nat /\ n_args \in Nat /\ n_locals \in Nat /\ NG \in Nat /\ NG <= Len(stack)
      /\ bottom_of(depth) \in Nat /\ bottom_of(depth) <= Len(stack) + 1
      /\ fp - n_args \in Nat /\ 1 <= fp - n_args /\ fp + n_locals <= Len(stack) + 1
  BY <1>2, RunningExtent
<1>5. /\ SubSeq(stack', fp - n_args, fp - 1) = SubSeq(stack, fp - n_args, fp - 1)
      /\ SubSeq(stack', fp, fp + n_locals - 1) = SubSeq(stack, fp, fp + n_locals - 1)
  <2>1. /\ fp - n_args <= fp - 1 + 1 /\ fp - 1 \in Int /\ fp - 1 <= Len(stack) /\ fp - 1 <= Len(stack')
        /\ \A i \in fp - n_args .. fp - 1 : stack'[i] = stack[i]
    BY <1>3, <1>4
  <2>2. /\ fp <= fp + n_locals - 1 + 1 /\ 1 <= fp /\ fp + n_locals - 1 \in Int
        /\ fp + n_locals - 1 <= Len(stack) /\ fp + n_locals - 1 <= Len(stack')
        /\ \A i \in fp .. fp + n_locals - 1 : stack'[i] = stack[i]
    BY <1>3, <1>4
  <2>3. SubSeq(stack', fp - n_args, fp - 1) = SubSeq(stack, fp - n_args, fp - 1)
    BY <1>2, <1>3, <1>4, <2>1, SamePart
  <2>4. SubSeq(stack', fp, fp + n_locals - 1) = SubSeq(stack, fp, fp + n_locals - 1)
    BY <1>2, <1>3, <1>4, <2>2, SamePart
  <2> QED BY <2>3, <2>4
<1>6. SubSeq(stack', fp + n_locals, Len(stack')) = Append(SubSeq(stack, fp + n_locals, Len(stack)), v)
  <2>1. fp + n_locals \in Nat /\ 1 <= fp + n_locals
    BY <1>4
  <2>2. SubSeq(Append(stack, v), fp + n_locals, Len(stack) + 1)
          = Append(SubSeq(stack, fp + n_locals, Len(stack)), v)
    BY <1>2, <1>4, <2>1, PartGrows
  <2> QED BY <1>1, <1>3, <2>2
<1>7. running_record' = [running_record EXCEPT !.operands = Append(@, v)]
  <2> DEFINE ops == SubSeq(stack, fp + n_locals, Len(stack))
             a == SubSeq(stack, fp - n_args, fp - 1)
             l == SubSeq(stack, fp, fp + n_locals - 1)
             e == Append(ops, v)
             r == running_record.ret
  <2>1. /\ running_record = [args |-> a, locals |-> l, operands |-> ops, ret |-> r]
        /\ running_record' = [args |-> a, locals |-> l, operands |-> e, ret |-> r]
    BY <1>1, <1>5, <1>6, NextRecord
  <2> HIDE DEF ops, a, l, r, e
  <2>2. /\ [running_record EXCEPT !.operands = e] = [args |-> a, locals |-> l, operands |-> e, ret |-> r]
        /\ running_record.operands = ops
    BY ONLY SMTT(20), <2>1, RecordWith
  <2> QED BY <2>1, <2>2 DEF e
<1>8. Len(frames_of) > 0 /\ running_becomes(running_record')
  <2>1. \A p \in NG + 1 .. bottom_of(depth) - 1 : stack'[p] = stack[p]
    <3>1. \A p \in NG + 1 .. bottom_of(depth) - 1 : p \in 1 .. Len(stack)
      BY <1>2, <1>4
    <3> QED BY <1>3, <3>1
  <2> QED BY <1>1, <2>1, InsideRecords
<1>9. globals_of' = globals_of
  <2>1. \A p \in 1 .. NG : stack'[p] = stack[p]
    BY <1>2, <1>3, <1>4
  <2> QED BY <2>1, KeptGlobals
<1> QED BY <1>7, <1>8, <1>9, RecordPush

LEMMA LoadRecords ==
  ASSUME CInv, CInv', CONST \/ BCLOSURE \/ LD, status' # "failed" PROVE Records!Push
<1>1. PICK v \in Value : status = "run" /\ push(v)
  <2>1. CASE CONST
    <3>1. PICK n \in Consts : status = "run" /\ push([int |-> n])
      BY <2>1 DEF CONST
    <3>2. [int |-> n] \in Value
      BY DEF Value, Integer
    <3> QED BY <3>1, <3>2
  <2>2. CASE BCLOSURE
    <3>1. PICK f \in Closures : status = "run" /\ push([closure_of |-> f])
      BY <2>2 DEF BCLOSURE
    <3>2. [closure_of |-> f] \in Value
      BY DEF Value, Closure
    <3> QED BY <3>1, <3>2
  <2>3. CASE LD
    <3>1. PICK p \in places : status = "run" /\ push(word(p))
      BY <2>3 DEF LD
    <3>2. depth >= 1 /\ stack \in Seq(Value)
      BY <3>1, Depths DEF CInv, TypeOK
    <3>3. word(p) \in Value
      BY <3>2, PlaceIsNoClosure, ElementOfSeq DEF word
    <3> QED BY <3>1, <3>3
  <2> QED BY <2>1, <2>2, <2>3
<1> QED BY <1>1, PushRecords

LEMMA JumpRecords == ASSUME CInv, CInv', JMP PROVE Records!Jump
<1>1. status = "run" /\ goes_on /\ stack' = stack
  BY DEF JMP
<1>2. running_record' = running_record /\ depth >= 1
  BY <1>1, NextRecord
<1>3. Len(frames_of) > 0 /\ running_becomes(running_record') /\ globals_of' = globals_of
  BY <1>1, InsideRecords, KeptGlobals
<1>4. frames_of' = frames_of
  BY <1>2, <1>3, FramesOf DEF running_becomes, running_record, frames_of
<1> QED BY <1>3, <1>4, RecordJump

\* The last operand goes.
LEMMA DropRecords ==
  ASSUME Verified, CInv, CInv', DROP, status' # "failed" PROVE Records!Pop
<1>1. status = "run" /\ goes_on /\ stack' = SubSeq(stack, 1, Len(stack) - 1) /\ operands >= 1
  BY DEF DROP, fail, has_operands, popped
<1>2. depth >= 1 /\ stack \in Seq(Value) /\ Len(stack) \in Nat
  BY <1>1, Depths DEF CInv, TypeOK
<1>3. /\ fp \in Nat /\ n_args \in Nat /\ n_locals \in Nat /\ NG \in Nat
      /\ NG < bottom_of(depth) /\ bottom_of(depth) \in Nat /\ bottom_of(depth) <= fp - n_args
      /\ fp - n_args \in Nat /\ 1 <= fp - n_args /\ fp + n_locals <= Len(stack) + 1
      /\ operands = Len(stack) - (fp + n_locals) + 1
  BY <1>2, RunningExtent
<1>4. fp + n_locals <= Len(stack) /\ Len(stack) - 1 \in 0 .. Len(stack) /\ Len(stack) >= 1
      /\ NG <= Len(stack) - 1
  BY <1>1, <1>2, <1>3
<1>5. /\ stack' \in Seq(Value) /\ Len(stack') = Len(stack) - 1
      /\ \A i \in 1 .. Len(stack) - 1 : stack'[i] = stack[i]
  BY <1>1, <1>2, <1>4, Prefix
<1>6. /\ SubSeq(stack', fp - n_args, fp - 1) = SubSeq(stack, fp - n_args, fp - 1)
      /\ SubSeq(stack', fp, fp + n_locals - 1) = SubSeq(stack, fp, fp + n_locals - 1)
  <2>1. /\ fp - n_args <= fp - 1 + 1 /\ fp - 1 \in Int /\ fp - 1 <= Len(stack) /\ fp - 1 <= Len(stack')
        /\ \A i \in fp - n_args .. fp - 1 : stack'[i] = stack[i]
    BY SMTT(20), <1>2, <1>3, <1>4, <1>5
  <2>2. /\ fp <= fp + n_locals - 1 + 1 /\ 1 <= fp /\ fp + n_locals - 1 \in Int
        /\ fp + n_locals - 1 <= Len(stack) /\ fp + n_locals - 1 <= Len(stack')
        /\ \A i \in fp .. fp + n_locals - 1 : stack'[i] = stack[i]
    <3>1. /\ fp <= fp + n_locals - 1 + 1 /\ 1 <= fp /\ fp + n_locals - 1 \in Int
          /\ fp + n_locals - 1 <= Len(stack) - 1
      BY <1>2, <1>3, <1>4
    <3>2. \A i \in fp .. fp + n_locals - 1 : i \in 1 .. Len(stack) - 1
      BY <1>2, <1>3, <3>1
    <3> QED BY <1>2, <1>3, <1>5, <3>1, <3>2
  <2>3. SubSeq(stack', fp - n_args, fp - 1) = SubSeq(stack, fp - n_args, fp - 1)
    BY <1>2, <1>3, <1>5, <2>1, SamePart
  <2>4. SubSeq(stack', fp, fp + n_locals - 1) = SubSeq(stack, fp, fp + n_locals - 1)
    BY <1>2, <1>3, <1>5, <2>2, SamePart
  <2> QED BY <2>3, <2>4
<1>7. SubSeq(stack', fp + n_locals, Len(stack'))
        = SubSeq(running_record.operands, 1, Len(running_record.operands) - 1)
  <2>1. /\ running_record.operands = SubSeq(stack, fp + n_locals, Len(stack))
        /\ Len(running_record.operands) = operands
    BY <1>2, RunningOperands
  <2>2. /\ fp + n_locals \in Nat /\ 1 <= fp + n_locals /\ operands - 1 \in Int
        /\ 1 <= operands - 1 + 1 /\ operands - 1 <= Len(stack) - (fp + n_locals) + 1
        /\ fp + n_locals + 1 - 1 = fp + n_locals /\ fp + n_locals + (operands - 1) - 1 = Len(stack) - 1
        /\ Len(stack) \in Int
    BY <1>1, <1>2, <1>3
  <2>3. SubSeq(running_record.operands, 1, operands - 1) = SubSeq(stack, fp + n_locals, Len(stack) - 1)
    <3> DEFINE m == fp + n_locals
               k == Len(stack)
               a == 1
               b == operands - 1
               x == fp + n_locals
               y == Len(stack) - 1
    <3>1. /\ stack \in Seq(Value) /\ m \in Nat /\ k \in Int /\ 1 <= m /\ m <= k + 1 /\ k <= Len(stack)
          /\ a \in Nat /\ b \in Int /\ 1 <= a /\ a <= b + 1 /\ b <= k - m + 1
          /\ running_record.operands = SubSeq(stack, m, k) /\ x = m + a - 1 /\ y = m + b - 1
      BY <1>2, <1>3, <2>1, <2>2
    <3> HIDE DEF m, k, a, b, x, y
    <3>2. SubSeq(running_record.operands, a, b) = SubSeq(stack, x, y)
      BY ONLY <3>1, PartOfPart
    <3> QED BY <3>2 DEF m, k, a, b, x, y
  <2>4. SubSeq(stack', fp + n_locals, Len(stack) - 1) = SubSeq(stack, fp + n_locals, Len(stack) - 1)
    <3>1. /\ fp + n_locals <= Len(stack) - 1 + 1 /\ Len(stack) - 1 \in Int
          /\ Len(stack) - 1 <= Len(stack) /\ Len(stack) - 1 <= Len(stack')
          /\ \A i \in fp + n_locals .. Len(stack) - 1 : stack'[i] = stack[i]
      BY <1>2, <1>3, <1>4, <1>5
    <3>2. stack \in Seq(Value) /\ stack' \in Seq(Value) /\ fp + n_locals \in Nat /\ 1 <= fp + n_locals
      BY <1>2, <1>5, <2>2
    <3> QED BY ONLY <3>1, <3>2, SamePart
  <2> QED BY <1>5, <2>1, <2>2, <2>3, <2>4
<1>8. running_record' = [running_record EXCEPT !.operands = SubSeq(@, 1, Len(@) - 1)]
  <2> DEFINE ops == SubSeq(stack, fp + n_locals, Len(stack))
             a == SubSeq(stack, fp - n_args, fp - 1)
             l == SubSeq(stack, fp, fp + n_locals - 1)
             e == SubSeq(running_record.operands, 1, Len(running_record.operands) - 1)
             r == running_record.ret
  <2>1. /\ running_record = [args |-> a, locals |-> l, operands |-> ops, ret |-> r]
        /\ running_record' = [args |-> a, locals |-> l, operands |-> e, ret |-> r]
    BY <1>1, <1>6, <1>7, NextRecord
  <2> HIDE DEF ops, a, l, r, e
  <2>2. [running_record EXCEPT !.operands = e] = [args |-> a, locals |-> l, operands |-> e, ret |-> r]
    BY ONLY SMTT(20), <2>1, RecordWith
  <2> QED BY <2>1, <2>2 DEF e
<1>9. Len(frames_of) > 0 /\ running_becomes(running_record')
  <2>1. ASSUME NEW p \in NG + 1 .. bottom_of(depth) - 1 PROVE stack'[p] = stack[p]
    <3>1. bottom_of(depth) <= fp + n_locals
      BY <1>3
    <3>2. p \in Int /\ 1 <= p /\ p <= Len(stack) - 1
      BY <1>2, <1>3, <1>4, <3>1
    <3> QED BY ONLY <1>2, <1>5, <3>2
  <2> QED BY <1>1, <2>1, InsideRecords
<1>10. globals_of' = globals_of
  <2>1. \A p \in 1 .. NG : stack'[p] = stack[p]
    BY SMTT(20), <1>2, <1>3, <1>4, <1>5
  <2> QED BY <2>1, KeptGlobals
<1>11. running_record.operands # << >>
  BY <1>1, <1>2, RunningOperands
<1> QED BY <1>8, <1>9, <1>10, <1>11, RecordPop

\* A variable in scope takes the last operand: a word of the globals, or of the
\* arguments or the locals of the running frame.
LEMMA AssignRecords == ASSUME CInv, CInv', ST PROVE Records!Assign
<1>1. PICK p \in places : stack' = [stack EXCEPT ![p] = word(sp - 1)]
  BY DEF ST
<1> DEFINE v == word(sp - 1)
<1>2. status = "run" /\ goes_on /\ depth >= 1 /\ operands >= 1
  BY Depths DEF ST
<1>3. /\ fp \in Nat /\ n_args \in Nat /\ n_locals \in Nat /\ NG \in Nat /\ NG <= Len(stack)
      /\ stack \in Seq(Value) /\ Len(stack) \in Nat
      /\ NG < bottom_of(depth) /\ bottom_of(depth) \in Nat /\ bottom_of(depth) <= fp - n_args
      /\ fp - n_args \in Nat /\ 1 <= fp - n_args /\ fp + n_locals <= Len(stack) + 1
  BY <1>2, RunningExtent
<1>4. p \in 1 .. Len(stack) /\ v \in Value /\ v = top_operand_of /\ running_record.operands # << >>
  BY <1>2, PlaceIsNoClosure, RunningOperands
<1> HIDE DEF v
<1>5. /\ stack' = [stack EXCEPT ![p] = v] /\ stack' \in Seq(Value) /\ Len(stack') = Len(stack)
      /\ \A i \in 1 .. Len(stack) : i # p => stack'[i] = stack[i]
  BY <1>1, <1>3, <1>4, ExceptSeq DEF v
<1> DEFINE a == SubSeq(stack, fp - n_args, fp - 1)
           l == SubSeq(stack, fp, fp + n_locals - 1)
           o == SubSeq(stack, fp + n_locals, Len(stack))
           r == running_record.ret
<1>6. /\ running_record = [args |-> a, locals |-> l, operands |-> o, ret |-> r]
      /\ running_record' = [args     |-> SubSeq(stack', fp - n_args, fp - 1),
                            locals   |-> SubSeq(stack', fp, fp + n_locals - 1),
                            operands |-> SubSeq(stack', fp + n_locals, Len(stack)), ret |-> r]
  BY <1>2, <1>5, NextRecord
<1>7. \* parts that do not hold p
      ASSUME NEW m \in Nat, NEW n \in Int, 1 <= m, m <= n + 1, n <= Len(stack), p \notin m .. n
      PROVE  SubSeq(stack', m, n) = SubSeq(stack, m, n)
  <2>1. /\ \A i \in m .. n : stack'[i] = stack[i]
        /\ stack \in Seq(Value) /\ stack' \in Seq(Value)
        /\ 1 <= m /\ m <= n + 1 /\ n <= Len(stack) /\ n <= Len(stack')
    BY <1>3, <1>5, <1>7
  <2> QED BY ONLY <2>1, SamePart
<1>14. \* the part that holds it
      ASSUME NEW m \in Nat, NEW n \in Int, 1 <= m, n <= Len(stack), p \in m .. n
      PROVE  /\ SubSeq(stack', m, n) = [SubSeq(stack, m, n) EXCEPT ![p - m + 1] = v]
             /\ p - m + 1 \in DOMAIN SubSeq(stack, m, n)
  <2>1. /\ stack \in Seq(Value) /\ v \in Value /\ m <= n + 1 /\ p - m + 1 \in 1 .. n - m + 1
        /\ m \in Nat /\ n \in Int /\ 1 <= m /\ n <= Len(stack) /\ p \in m .. n
    BY <1>3, <1>4, <1>14
  <2>2. /\ stack' \in Seq(Value) /\ Len(stack') = Len(stack) /\ stack'[p] = v
        /\ \A i \in 1 .. Len(stack) : i # p => stack'[i] = stack[i]
    BY <1>3, <1>4, <1>5
  <2> DEFINE t == SubSeq(stack, m, n)
             u == SubSeq(stack', m, n)
             q == p - m + 1
  <2>3. /\ t \in Seq(Value) /\ Len(t) = n - m + 1
        /\ \A i \in 1 .. n - m + 1 : t[i] = stack[m + i - 1]
    BY ONLY <2>1, Part
  <2>4. /\ u \in Seq(Value) /\ Len(u) = n - m + 1
        /\ \A i \in 1 .. n - m + 1 : u[i] = stack'[m + i - 1]
    <3>1. n <= Len(stack')
      BY <2>1, <2>2
    <3> QED BY ONLY <2>1, <2>2, <3>1, Part
  <2>5. q \in 1 .. n - m + 1 /\ m + q - 1 = p /\ n - m + 1 \in Nat
    BY <2>1
  <2> HIDE DEF t, u, q
  <2>6. /\ [t EXCEPT ![q] = v] \in Seq(Value) /\ Len([t EXCEPT ![q] = v]) = Len(t)
        /\ \A i \in 1 .. Len(t) : [t EXCEPT ![q] = v][i] = IF i = q THEN v ELSE t[i]
    BY <2>1, <2>3, <2>5, ExceptSeq
  <2>7. ASSUME NEW i \in 1 .. n - m + 1
        PROVE  u[i] = [t EXCEPT ![q] = v][i]
    <3>1. CASE i = q
      BY <2>2, <2>3, <2>4, <2>5, <2>6, <3>1
    <3>2. CASE i # q
      <4>1. m + i - 1 \in 1 .. Len(stack) /\ m + i - 1 # p
        BY <1>3, <2>1, <2>5, <3>2
      <4>2. stack'[m + i - 1] = stack[m + i - 1]
        BY <2>2, <4>1
      <4> QED BY <2>3, <2>4, <2>6, <3>2, <4>2
    <3> QED BY <3>1, <3>2
  <2>8. u = [t EXCEPT ![q] = v]
    BY <2>3, <2>4, <2>6, <2>7, SeqEqual
  <2>9. q \in DOMAIN t
    BY <2>3, <2>5
  <2> QED BY <2>8, <2>9 DEF t, u, q
<1>8. /\ fp - n_args <= fp - 1 + 1 /\ fp - 1 \in Int /\ fp - 1 <= Len(stack)
      /\ fp <= fp + n_locals - 1 + 1 /\ 1 <= fp /\ fp + n_locals - 1 \in Int
      /\ fp + n_locals - 1 <= Len(stack) /\ fp + n_locals \in Nat /\ 1 <= fp + n_locals
      /\ Len(stack) \in Int /\ Len(stack) <= Len(stack)
  BY <1>3
<1>9. p \in 1 .. NG \/ p \in fp .. fp + n_locals - 1 \/ p \in fp - n_args .. fp - 1
  BY <1>3 DEF places, G, L, A
<1>10. Len(frames_of) > 0 /\ (p \notin NG + 1 .. bottom_of(depth) - 1 => running_becomes(running_record'))
  <2>1. p \notin NG + 1 .. bottom_of(depth) - 1 =>
          \A q \in NG + 1 .. bottom_of(depth) - 1 : stack'[q] = stack[q]
    <3>1. \A q \in NG + 1 .. bottom_of(depth) - 1 : q \in 1 .. Len(stack)
      BY <1>3, <1>8
    <3> QED BY <1>5, <3>1
  <2>2. Len(frames_of) > 0
    BY <1>2, FramesOf
  <2> QED BY <1>2, <2>1, <2>2, InsideRecords
<1>11. CASE p \in 1 .. NG
  <2>1. p \notin fp .. fp + n_locals - 1 /\ p \notin fp - n_args .. fp - 1
        /\ p \notin fp + n_locals .. Len(stack) /\ p \notin NG + 1 .. bottom_of(depth) - 1
    BY <1>3, <1>11
  <2>2. running_record' = running_record
    BY <1>3, <1>6, <1>7, <1>8, <2>1
  <2>3. frames_of' = frames_of
    BY <1>2, <1>10, <2>1, <2>2, FramesOf DEF running_becomes, running_record, frames_of
  <2>4. globals_of' = [globals_of EXCEPT ![p] = v] /\ p \in DOMAIN globals_of
    <3>1. /\ 1 \in Nat /\ NG \in Int /\ 1 <= NG + 1 /\ p - 1 + 1 = p /\ NG - 1 + 1 = NG
          /\ p \in 1 .. NG
      BY <1>3, <1>11
    <3>2. /\ SubSeq(stack', 1, NG) = [SubSeq(stack, 1, NG) EXCEPT ![p - 1 + 1] = v]
          /\ p - 1 + 1 \in DOMAIN SubSeq(stack, 1, NG)
      BY <1>3, <1>14, <3>1
    <3> QED BY <3>1, <3>2 DEF globals_of, part
  <2> QED BY <1>4, <1>10, <2>3, <2>4, RecordAssign
<1>12. CASE p \in fp .. fp + n_locals - 1
  <2>1. /\ p \notin fp - n_args .. fp - 1 /\ p \notin fp + n_locals .. Len(stack)
        /\ p \notin NG + 1 .. bottom_of(depth) - 1 /\ p \notin 1 .. NG /\ p - fp + 1 \in 1 .. n_locals
        /\ fp + n_locals - 1 - fp + 1 = n_locals
    BY <1>3, <1>12
  <2> DEFINE w == [l EXCEPT ![p - fp + 1] = v]
  <2>2. SubSeq(stack', fp, fp + n_locals - 1) = w /\ p - fp + 1 \in DOMAIN l
    BY <1>3, <1>8, <1>12, <1>14
  <2>3. running_record' = [args |-> a, locals |-> w, operands |-> o, ret |-> r]
    BY <1>3, <1>6, <1>7, <1>8, <2>1, <2>2
  <2>4. running_record = [args |-> a, locals |-> l, operands |-> o, ret |-> r]
    BY <1>6
  <2> HIDE DEF a, l, o, r, w
  <2>5. /\ running_record.locals = l
        /\ [running_record EXCEPT !.locals = w]
             = [args |-> a, locals |-> w, operands |-> o, ret |-> r]
    BY ONLY <2>4, RecordWith
  <2>6. running_record' = [running_record EXCEPT !.locals[p - fp + 1] = v]
    BY <2>3, <2>5 DEF w
  <2>7. globals_of' = globals_of
    BY <1>3, <1>5, <2>1, KeptGlobals
  <2> QED BY <1>4, <1>10, <2>1, <2>2, <2>5, <2>6, <2>7, RecordAssign
<1>13. CASE p \in fp - n_args .. fp - 1
  <2>1. /\ p \notin fp .. fp + n_locals - 1 /\ p \notin fp + n_locals .. Len(stack)
        /\ p \notin NG + 1 .. bottom_of(depth) - 1 /\ p \notin 1 .. NG
        /\ p - (fp - n_args) + 1 \in 1 .. n_args /\ fp - 1 - (fp - n_args) + 1 = n_args
    BY <1>3, <1>13
  <2> DEFINE i == p - (fp - n_args) + 1
  <2> DEFINE w == [a EXCEPT ![i] = v]
  <2>2. SubSeq(stack', fp - n_args, fp - 1) = w /\ i \in DOMAIN a
    BY <1>3, <1>8, <1>13, <1>14
  <2>3. running_record' = [args |-> w, locals |-> l, operands |-> o, ret |-> r]
    BY <1>3, <1>6, <1>7, <1>8, <2>1, <2>2
  <2>4. running_record = [args |-> a, locals |-> l, operands |-> o, ret |-> r]
    BY <1>6
  <2> HIDE DEF a, l, o, r, i, w
  <2>5. /\ running_record.args = a
        /\ [running_record EXCEPT !.args = w]
             = [args |-> w, locals |-> l, operands |-> o, ret |-> r]
    BY ONLY <2>4, RecordWith
  <2>6. running_record' = [running_record EXCEPT !.args[i] = v]
    BY <2>3, <2>5 DEF w
  <2>7. globals_of' = globals_of
    BY <1>3, <1>5, <2>1, KeptGlobals
  <2> QED BY <1>4, <1>10, <2>1, <2>2, <2>5, <2>6, <2>7, RecordAssign
<1> QED BY <1>9, <1>11, <1>12, <1>13

\* A call that has not been entered yet is no step of the records: the
\* arguments are still operands, and the place is the one behind the call.
LEMMA CallRecords ==
  ASSUME CInv, CInv', status = "run", call_stack' = Append(call_stack, ip),
         status' = "begin", UNCHANGED <<stack, fp, n_args, n_locals>>
  PROVE  globals_of' = globals_of /\ frames_of' = frames_of /\ place' = place
<1>1. /\ depth \in Nat /\ depth >= 1 /\ Len(call_stack) = 5 * depth - 1 /\ call_stack \in Seq(Nat)
      /\ ip \in Nat
  BY Depths, ProgramAssumption DEF CInv, TypeOK
<1>2. /\ Len(call_stack') = Len(call_stack) + 1 /\ Len(call_stack) + 1 = 5 * depth
      /\ \A i \in 1 .. 5 * depth - 1 : call_stack'[i] = call_stack[i]
      /\ call_stack'[Len(call_stack) + 1] = ip
  <2>1. /\ Len(Append(call_stack, ip)) = Len(call_stack) + 1
        /\ \A i \in 1 .. Len(call_stack) : Append(call_stack, ip)[i] = call_stack[i]
        /\ Append(call_stack, ip)[Len(call_stack) + 1] = ip
    <3>1. call_stack \in Seq(Nat) /\ ip \in Nat
      BY <1>1
    <3> QED BY ONLY <3>1, AppendProperties
  <2> QED BY <1>1, <2>1
<1>3. depth' = depth
  BY <1>1, <1>2, DepthOfLength DEF depth
<1>4. place' = place
  <2>1. Len(call_stack) % 5 = 4 /\ Len(call_stack') % 5 = 0
    BY DEF CInv, CallStackBalanced
  <2>2. call_stack' # << >>
    BY <1>1, <1>2
  <2> QED BY <1>2, <2>1, <2>2 DEF place, calling
<1>5. globals_of' = globals_of
  BY DEF globals_of, part
<1>6. ASSUME NEW j \in 1 .. depth PROVE frame(j)' = frame(j)
  <2>1. ASSUME NEW k \in 1 .. depth
        PROVE  /\ fp_of(k)' = fp_of(k) /\ n_args_of(k)' = n_args_of(k)
               /\ n_locals_of(k)' = n_locals_of(k) /\ closure_flag(k)' = closure_flag(k)
               /\ bottom_of(k)' = bottom_of(k)
               /\ k # 1 => return_address(k)' = return_address(k)
    <3>1. /\ closure_flag(k)' = closure_flag(k)
          /\ k # 1 => return_address(k)' = return_address(k)
      BY <1>1, <1>2, Blocks DEF closure_flag, return_address, block
    <3>2. CASE k = depth
      BY <1>3, <3>1, <3>2 DEF fp_of, n_args_of, n_locals_of, bottom_of
    <3>3. CASE k # depth
      <4>1. k + 1 \in 1 .. depth
        BY <1>1, <3>3
      <4>2. /\ saved_fp(k + 1)' = saved_fp(k + 1) /\ saved_n_args(k + 1)' = saved_n_args(k + 1)
            /\ saved_n_locals(k + 1)' = saved_n_locals(k + 1)
        BY <1>1, <1>2, <4>1, Blocks DEF saved_fp, saved_n_args, saved_n_locals, block
      <4> QED BY <1>3, <3>1, <3>3, <4>2 DEF fp_of, n_args_of, n_locals_of, bottom_of
    <3> QED BY <3>2, <3>3
  <2>2. top_of(j)' = top_of(j)
    <3>1. CASE j = depth
      BY <1>3, <3>1 DEF top_of, sp
    <3>2. CASE j # depth
      <4>1. j + 1 \in 1 .. depth
        BY <1>1, <3>2
      <4> QED BY <1>3, <2>1, <3>2, <4>1 DEF top_of
    <3> QED BY <3>1, <3>2
  <2> QED BY <1>3, <2>1, <2>2, KeptFrame
<1>7. frames_of' = frames_of
  BY <1>3, <1>6 DEF frames_of
<1> QED BY <1>4, <1>5, <1>7

\* BEGIN enters main, or moves the arguments of a callee to a record of its own.
LEMMA BeginRecords ==
  ASSUME CInv, CInv', BEGIN, status' # "failed" PROVE Records!Start \/ Records!Call
<1> PICK d : d = depth
  OBVIOUS
<1>1. d = depth /\ d \in Nat /\ depth' = d + 1
  BY BeginFrames
<1>2. /\ stack \in Seq(Value) /\ Len(stack) \in Nat /\ NG \in Nat /\ NG <= Len(stack)
      /\ sp = Len(stack) + 1
  BY Depths DEF CInv, TypeOK, sp
<1> DEFINE n == callee.args
           x == callee.locals
           c == the_flag
<1>a. n \in Nat /\ x \in Nat /\ c \in Nat /\ c \in {0, 1}
  <2>1. callee.args \in Nat /\ callee.locals \in Nat /\ the_flag \in {0, 1}
    BY <1>1, BeginFrames
  <2> QED BY <2>1
<1>b. /\ stack' \in Seq(Value) /\ Len(stack') = Len(stack) + x
      /\ \A i \in 1 .. Len(stack) : stack'[i] = stack[i]
  BY <1>1, BeginFrames
<1>c. /\ Len(call_stack) = 5 * d /\ \A i \in 1 .. 5 * d : call_stack'[i] = call_stack[i]
  BY <1>1, BeginFrames
<1>d. \A j \in 1 .. d : /\ fp_of(j)' = fp_of(j) /\ n_args_of(j)' = n_args_of(j)
                        /\ n_locals_of(j)' = n_locals_of(j) /\ bottom_of(j)' = bottom_of(j)
  BY <1>1, BeginFrames
<1>e. /\ fp_of(d + 1)' = sp /\ n_args_of(d + 1)' = n /\ n_locals_of(d + 1)' = x
      /\ bottom_of(d + 1)' = sp - n - c
  BY <1>1, BeginFrames
<1>f. /\ d = 0 => n + c <= 0
      /\ d # 0 => n + c <= operands
  BY <1>1 DEF CInv, Called, BEGIN
<1> HIDE DEF n, x, c
<1>g. sp' = sp + x
  BY <1>2, <1>a, <1>b DEF sp
<1>3. globals_of' = globals_of
  <2>1. \A p \in 1 .. NG : stack'[p] = stack[p]
    <3>1. \A p \in 1 .. NG : p \in 1 .. Len(stack)
      BY <1>2
    <3> QED BY <1>b, <3>1
  <2> QED BY <2>1, KeptGlobals
<1>4. /\ Len(frames_of) = d /\ \A j \in 1 .. d : frames_of[j] = frame(j)
  BY <1>1, FramesOf
<1>5. frames_of' = [j \in 1 .. d + 1 |-> frame(j)']
  BY <1>1 DEF frames_of
<1>6. /\ Len(frames_of') = d + 1 /\ frames_of'[d + 1] = frame(d + 1)'
      /\ DOMAIN frames_of' = 1 .. d + 1 /\ \A j \in 1 .. d + 1 : frames_of'[j] = frame(j)'
  BY <1>1, <1>5
<1>7. frame(d + 1)' = [args |-> SubSeq(stack', sp - n, sp - 1), locals |-> frame(d + 1)'.locals,
                       operands |-> << >>,
                       ret |-> IF d = 0 THEN no_label ELSE call_stack[5 * d]]
  <2>1. top_of(d + 1)' = sp + x
    BY <1>1, <1>g DEF top_of
  <2>2. part(fp_of(d + 1) + n_locals_of(d + 1), top_of(d + 1) - 1)' = << >>
    <3>1. sp + x \in Int /\ sp + x - 1 \in Int /\ sp + x - 1 < sp + x
      BY <1>2, <1>a
    <3>2. SubSeq(stack', sp + x, sp + x - 1) = << >>
      BY ONLY <3>1, SubSeqEmpty
    <3>3. (fp_of(d + 1) + n_locals_of(d + 1))' = sp + x /\ (top_of(d + 1) - 1)' = sp + x - 1
      <4>1. fp_of(d + 1)' = sp /\ n_locals_of(d + 1)' = x /\ top_of(d + 1)' = sp + x
        BY <1>e, <2>1
      <4>2. sp \in Int /\ x \in Int
        BY <1>2, <1>a
      <4> QED BY <4>1, <4>2
    <3> QED BY <3>2, <3>3 DEF part
  <2>3. part(fp_of(d + 1) - n_args_of(d + 1), fp_of(d + 1) - 1)' = SubSeq(stack', sp - n, sp - 1)
    BY <1>e DEF part
  <2>4. d # 0 => return_address(d + 1)' = call_stack[5 * d]
    <3>1. block(d + 1) = 5 * d /\ (d # 0 => 5 * d \in 1 .. 5 * d)
      BY <1>1 DEF block
    <3> QED BY <1>c, <3>1 DEF return_address, block
  <2>5. d + 1 = 1 <=> d = 0
    BY <1>1
  <2> QED BY <2>2, <2>3, <2>4, <2>5 DEF frame
<1>8. CASE d = 0
  <2>1. SubSeq(stack', sp - n, sp - 1) = << >>
    <3>1. sp - n \in Int /\ sp - 1 \in Int /\ sp - 1 < sp - n
      BY <1>2, <1>8, <1>a, <1>f
    <3> QED BY ONLY <3>1, SubSeqEmpty
  <2>2. d + 1 = 1
    BY <1>8
  <2>3. frames_of'[1] = [args |-> << >>, locals |-> frame(d + 1)'.locals, operands |-> << >>,
                         ret |-> no_label]
    BY <1>6, <1>7, <1>8, <2>1, <2>2
  <2>4. frames_of'[1].operands = << >> /\ frames_of'[1].args = << >>
    BY ONLY <2>3, RecordWith
  <2>5. frames_of = << >>
    BY <1>1, <1>8 DEF frames_of
  <2> QED BY <1>3, <1>6, <1>8, <2>4, <2>5, RecordStart
<1>9. CASE d # 0
  <2> DEFINE ops   == SubSeq(stack, fp + n_locals, Len(stack))
             taken == n + c
  <2>1. /\ depth >= 1 /\ d >= 1 /\ d \in 1 .. d /\ n + c <= operands /\ d > 0
    BY <1>1, <1>9, <1>f
  <2>2. /\ running_record = frame(d)
        /\ running_record = [args     |-> SubSeq(stack, fp - n_args, fp - 1),
                             locals   |-> SubSeq(stack, fp, fp + n_locals - 1),
                             operands |-> ops, ret |-> running_record.ret]
        /\ running_record.ret = IF d = 1 THEN no_label ELSE return_address(d)
    BY <1>1, <2>1, RunningRecord
  <2>3. /\ fp \in Nat /\ n_args \in Nat /\ n_locals \in Nat
        /\ NG < bottom_of(d) /\ bottom_of(d) \in Nat /\ bottom_of(d) <= fp - n_args
        /\ fp - n_args \in Nat /\ 1 <= fp - n_args /\ fp + n_locals <= Len(stack) + 1
        /\ operands = Len(stack) - (fp + n_locals) + 1 /\ Len(ops) = operands /\ operands \in Nat
        /\ running_record.operands = ops
    BY <1>1, <2>1, RunningExtent, RunningOperands
  <2> HIDE DEF ops, taken
  <2>o. ops = SubSeq(stack, fp + n_locals, Len(stack))
    BY DEF ops
  <2>t. taken \in Nat /\ taken <= operands /\ n <= operands /\ taken \in {n, n + 1}
        /\ sp - n - c = sp - taken
    BY <1>2, <1>a, <2>1, <2>3 DEF taken
  <2>m. /\ fp + n_locals \in Nat /\ Len(stack) \in Int /\ 1 <= fp + n_locals
        /\ fp + n_locals <= Len(stack) + 1 /\ Len(stack) <= Len(stack) /\ stack \in Seq(Value)
    BY <1>2, <2>3
  <2>k. ASSUME NEW m \in Nat, NEW k \in Int, 1 <= m, m <= k + 1, k <= Len(stack)
        PROVE  SubSeq(stack', m, k) = SubSeq(stack, m, k)
    <3>1. \A i \in m .. k : i \in 1 .. Len(stack)
      BY <1>2, <2>k
    <3>2. \A i \in m .. k : stack'[i] = stack[i]
      BY <1>b, <3>1
    <3>3. /\ stack \in Seq(Value) /\ stack' \in Seq(Value)
          /\ m \in Nat /\ k \in Int /\ 1 <= m /\ m <= k + 1 /\ k <= Len(stack) /\ k <= Len(stack')
      BY <1>2, <1>a, <1>b, <2>k
    <3> QED BY ONLY <3>2, <3>3, SamePart
  <2>4. SubSeq(stack', sp - n, sp - 1) = SubSeq(ops, Len(ops) - n + 1, Len(ops))
    <3>1. /\ operands - n + 1 \in Nat /\ operands \in Int /\ 1 <= operands - n + 1
          /\ operands - n + 1 <= operands + 1 /\ operands <= Len(stack) - (fp + n_locals) + 1
      BY <1>2, <1>a, <2>3, <2>t
    <3>3. /\ sp - n = fp + n_locals + (operands - n + 1) - 1
          /\ sp - 1 = fp + n_locals + operands - 1
      BY <1>2, <1>a, <2>3
    <3>2. SubSeq(ops, operands - n + 1, operands) = SubSeq(stack, sp - n, sp - 1)
      <4> DEFINE m == fp + n_locals
                 k == Len(stack)
                 a == operands - n + 1
                 b == operands
                 from == sp - n
                 to == sp - 1
      <4>1. /\ stack \in Seq(Value) /\ m \in Nat /\ k \in Int /\ 1 <= m /\ m <= k + 1 /\ k <= Len(stack)
            /\ a \in Nat /\ b \in Int /\ 1 <= a /\ a <= b + 1 /\ b <= k - m + 1
            /\ ops = SubSeq(stack, m, k) /\ from = m + a - 1 /\ to = m + b - 1
        BY <2>o, <2>m, <3>1, <3>3
      <4> HIDE DEF m, k, a, b, from, to
      <4>2. SubSeq(ops, a, b) = SubSeq(stack, from, to)
        BY ONLY <4>1, PartOfPart
      <4> QED BY <4>2 DEF m, k, a, b, from, to
    <3>4. /\ sp - n \in Nat /\ sp - 1 \in Int /\ 1 <= sp - n /\ sp - n <= sp - 1 + 1
          /\ sp - 1 <= Len(stack)
      BY <1>2, <1>a, <2>3, <2>t
    <3> QED BY <2>3, <2>k, <3>2, <3>4
  <2>5. frame(d)' = [running_record EXCEPT !.operands = SubSeq(ops, 1, Len(ops) - taken)]
    <3> DEFINE a == SubSeq(stack, fp - n_args, fp - 1)
               l == SubSeq(stack, fp, fp + n_locals - 1)
               e == SubSeq(ops, 1, Len(ops) - taken)
               r == running_record.ret
    <3>1. top_of(d)' = sp - taken
      <4>1. top_of(d)' = bottom_of(d + 1)'
        BY <1>1 DEF top_of
      <4> QED BY <1>e, <2>t, <4>1
    <3>2. /\ fp_of(d)' = fp /\ n_args_of(d)' = n_args /\ n_locals_of(d)' = n_locals
      BY <1>1, <1>d, <2>1 DEF fp_of, n_args_of, n_locals_of
    <3>3. d # 1 => return_address(d)' = return_address(d)
      <4>1. d # 1 => block(d) \in 1 .. 5 * d
        BY <1>1, <2>1 DEF block
      <4> QED BY <1>c, <4>1 DEF return_address, block
    <3>4. /\ SubSeq(stack', fp - n_args, fp - 1) = a
          /\ SubSeq(stack', fp, fp + n_locals - 1) = l
          /\ SubSeq(stack', fp + n_locals, sp - taken - 1) = SubSeq(stack, fp + n_locals, sp - taken - 1)
      <4>1. /\ fp - n_args <= fp - 1 + 1 /\ fp - 1 \in Int /\ fp - 1 <= Len(stack)
            /\ fp <= fp + n_locals - 1 + 1 /\ 1 <= fp /\ fp + n_locals - 1 \in Int
            /\ fp + n_locals - 1 <= Len(stack)
        BY <1>2, <2>3
      <4>2. /\ sp - taken - 1 \in Int /\ fp + n_locals <= sp - taken - 1 + 1
            /\ sp - taken - 1 <= Len(stack)
        BY <1>2, <2>3, <2>t
      <4> QED BY <2>3, <2>m, <2>k, <4>1, <4>2
    <3>5. SubSeq(stack, fp + n_locals, sp - taken - 1) = e
      <4>1. /\ 1 \in Nat /\ operands - taken \in Int /\ 1 <= 1
            /\ 1 <= operands - taken + 1 /\ operands - taken <= Len(stack) - (fp + n_locals) + 1
        BY <1>2, <2>3, <2>t
      <4>2. /\ fp + n_locals = fp + n_locals + 1 - 1
            /\ sp - taken - 1 = fp + n_locals + (operands - taken) - 1
        BY <1>2, <2>3, <2>t
      <4>3. SubSeq(ops, 1, operands - taken) = SubSeq(stack, fp + n_locals, sp - taken - 1)
        <5> DEFINE m == fp + n_locals
                   k == Len(stack)
                   first == 1
                   b == operands - taken
                   from == fp + n_locals
                   to == sp - taken - 1
        <5>1. /\ stack \in Seq(Value) /\ m \in Nat /\ k \in Int /\ 1 <= m /\ m <= k + 1 /\ k <= Len(stack)
              /\ first \in Nat /\ b \in Int /\ 1 <= first /\ first <= b + 1 /\ b <= k - m + 1
              /\ ops = SubSeq(stack, m, k) /\ from = m + first - 1 /\ to = m + b - 1
          BY <2>o, <2>m, <4>1, <4>2
        <5> HIDE DEF m, k, first, b, from, to
        <5>2. SubSeq(ops, first, b) = SubSeq(stack, from, to)
          BY ONLY <5>1, PartOfPart
        <5> QED BY <5>2 DEF m, k, first, b, from, to
      <4> QED BY <2>3, <4>3
    <3>6. frame(d)' = [args |-> a, locals |-> l, operands |-> e, ret |-> r]
      <4>1. /\ part(fp_of(d) - n_args_of(d), fp_of(d) - 1)' = a
            /\ part(fp_of(d), fp_of(d) + n_locals_of(d) - 1)' = l
            /\ part(fp_of(d) + n_locals_of(d), top_of(d) - 1)' = e
        BY <3>1, <3>2, <3>4, <3>5 DEF part
      <4> HIDE DEF a, l, e
      <4> QED BY <2>2, <3>3, <4>1 DEF frame
    <3>7. running_record = [args |-> a, locals |-> l, operands |-> ops, ret |-> r]
      BY <2>2
    <3> HIDE DEF a, l, e, r
    <3>8. [running_record EXCEPT !.operands = e] = [args |-> a, locals |-> l, operands |-> e, ret |-> r]
      BY ONLY <3>7, RecordWith
    <3> QED BY <3>6, <3>8 DEF e
  <2>6. ASSUME NEW j \in 1 .. d, j # d PROVE frame(j)' = frame(j)
    <3>1. /\ j \in 1 .. depth /\ j \in 1 .. depth' /\ j + 1 \in 1 .. d /\ j # depth /\ j # d + 1
      BY <1>1, <2>6
    <3>2. top_of(j)' = top_of(j)
      BY <1>1, <1>d, <3>1 DEF top_of
    <3>3. j # 1 => return_address(j)' = return_address(j)
      <4>1. j # 1 => block(j) \in 1 .. 5 * d
        BY <1>1, <2>6 DEF block
      <4> QED BY <1>c, <4>1 DEF return_address, block
    <3>4. top_of(j) <= sp /\ top_of(j) \in Nat
      BY <3>1, Extent
    <3>5. \A p \in NG + 1 .. top_of(j) - 1 : stack'[p] = stack[p]
      <4>1. \A p \in NG + 1 .. top_of(j) - 1 : p \in 1 .. Len(stack)
        BY <1>2, <3>4
      <4> QED BY <1>b, <4>1
    <3> QED BY <1>d, <3>1, <3>2, <3>3, <3>5, KeptFrame
  <2> DEFINE outer == [running_record EXCEPT !.operands = SubSeq(@, 1, Len(@) - taken)]
  <2>7. frame(d)' = outer
    BY <2>3, <2>5
  <2> HIDE DEF outer
  <2>8. frames_of' = Append([frames_of EXCEPT ![d] = outer], frames_of'[d + 1])
    <3> DEFINE g == [frames_of EXCEPT ![d] = outer]
               S == {frame(j)' : j \in 1 .. d + 1}
    <3>1. /\ DOMAIN frames_of = 1 .. d /\ DOMAIN g = 1 .. d /\ \A j \in 1 .. d : g[j] = frame(j)'
          /\ g = [j \in 1 .. d |-> frame(j)']
      <4>1. DOMAIN frames_of = 1 .. d /\ g = [j \in 1 .. d |-> IF j = d THEN outer ELSE frames_of[j]]
        BY <1>1 DEF frames_of
      <4> QED BY <1>4, <2>6, <2>7, <4>1
    <3>2. g \in Seq(S) /\ Len(g) = d
      <4>1. \A j \in 1 .. d : frame(j)' \in S
        BY <1>1
      <4> HIDE DEF g, S
      <4> QED BY <1>1, <3>1, <4>1
    <3>3. frames_of' \in Seq(S) /\ frames_of'[d + 1] \in S
      <4>1. \A j \in 1 .. d + 1 : frame(j)' \in S
        OBVIOUS
      <4>2. d + 1 \in 1 .. d + 1 /\ d + 1 \in Nat
        BY <1>1
      <4> HIDE DEF S
      <4> QED BY <1>5, <1>6, <4>1, <4>2
    <3> HIDE DEF g, S
    <3>4. /\ Append(g, frames_of'[d + 1]) \in Seq(S) /\ Len(Append(g, frames_of'[d + 1])) = d + 1
          /\ \A j \in 1 .. d : Append(g, frames_of'[d + 1])[j] = g[j]
          /\ Append(g, frames_of'[d + 1])[d + 1] = frames_of'[d + 1]
      BY <3>2, <3>3, AppendProperties
    <3>5. ASSUME NEW j \in 1 .. d + 1 PROVE frames_of'[j] = Append(g, frames_of'[d + 1])[j]
      <4>1. CASE j = d + 1
        BY <3>4, <4>1
      <4>2. CASE j # d + 1
        <5>1. j \in 1 .. d
          BY <1>1, <4>2
        <5> QED BY <1>6, <3>1, <3>4, <5>1
      <4> QED BY <4>1, <4>2
    <3>6. frames_of' = Append(g, frames_of'[d + 1])
      BY <1>6, <3>3, <3>4, <3>5, SeqEqual
    <3> QED BY <3>6 DEF g
  <2>9. /\ frames_of'[d + 1].args = SubSeq(ops, Len(ops) - n + 1, Len(ops))
        /\ frames_of'[d + 1].operands = << >> /\ frames_of'[d + 1].ret = call_stack[5 * d]
    <3>1. frames_of'[d + 1] = [args |-> SubSeq(stack', sp - n, sp - 1), locals |-> frame(d + 1)'.locals,
                              operands |-> << >>, ret |-> call_stack[5 * d]]
      BY <1>6, <1>7, <1>9
    <3>2. /\ frames_of'[d + 1].args = SubSeq(stack', sp - n, sp - 1)
          /\ frames_of'[d + 1].operands = << >> /\ frames_of'[d + 1].ret = call_stack[5 * d]
      <4> DEFINE na == SubSeq(stack', sp - n, sp - 1)
                 nl == frame(d + 1)'.locals
                 nf == frames_of'[d + 1]
                 no == << >>
                 nr == call_stack[5 * d]
      <4>1. nf = [args |-> na, locals |-> nl, operands |-> no, ret |-> nr]
        BY <3>1
      <4> HIDE DEF na, nl, nf, no, nr
      <4>2. nf.args = na /\ nf.operands = no /\ nf.ret = nr
        BY ONLY <4>1, RecordWith
      <4> QED BY <4>2 DEF na, nf, no, nr
    <3> QED BY <2>4, <3>2
  <2>10. Len(frames_of'[d + 1].args) = n /\ n <= Len(ops)
    <3>1. /\ sp - n \in Nat /\ sp - 1 \in Int /\ 1 <= sp - n /\ sp - n <= sp - 1 + 1
          /\ sp - 1 <= Len(stack') /\ stack' \in Seq(Value) /\ sp - 1 - (sp - n) + 1 = n
      <4>1. 1 <= sp - n /\ sp - n \in Int
        BY <1>2, <1>a, <2>3, <2>t
      <4> QED BY <1>2, <1>a, <1>b, <4>1
    <3>2. Len(SubSeq(stack', sp - n, sp - 1)) = sp - 1 - (sp - n) + 1
      BY ONLY <3>1, Part
    <3> QED BY <2>3, <2>4, <2>9, <2>t, <3>1, <3>2
  <2>11. place = call_stack[5 * d]
    <3>1. Len(call_stack) % 5 = 0 /\ call_stack # << >>
      BY <1>c, <2>1 DEF BEGIN, CInv, CallStackBalanced
    <3> QED BY <1>c, <3>1 DEF place, calling
  <2>12. /\ d = Len(frames_of) /\ d \in Nat /\ d > 0 /\ Len(frames_of') = d + 1
         /\ globals_of' = globals_of /\ n \in Nat /\ n = Len(frames_of'[d + 1].args)
         /\ n <= Len(running_record.operands)
         /\ frames_of'[d + 1].args = SubSeq(running_record.operands, Len(running_record.operands) - n + 1,
                                            Len(running_record.operands))
         /\ taken \in {n, n + 1}
         /\ frames_of'[d + 1].operands = << >> /\ frames_of'[d + 1].ret = place
    BY <1>1, <1>3, <1>4, <1>6, <1>a, <2>1, <2>3, <2>9, <2>10, <2>11, <2>t
  <2>13. frames_of' = Append([frames_of EXCEPT ![d] = [running_record EXCEPT !.operands =
                                 SubSeq(@, 1, Len(@) - taken)]], frames_of'[d + 1])
    BY <2>8 DEF outer
  <2> QED BY ONLY <2>12, <2>13, RecordCall
<1> QED BY <1>8, <1>9

\* END gives the last operand to the caller's record, or ends main.
LEMMA EndRecords ==
  ASSUME CInv, CInv', END PROVE Records!Return \/ Records!Stop
<1> PICK d : d = depth
  OBVIOUS
<1>1. /\ d = depth /\ d \in Nat /\ d >= 1 /\ Len(call_stack) = 5 * d - 1 /\ depth' = d - 1
      /\ operands = 1 /\ status = "run" /\ depth >= 1 /\ d - 1 \in Nat /\ d \in 1 .. d
  <2>1. d \in Nat /\ d >= 1 /\ Len(call_stack) = 5 * d - 1 /\ depth' = d - 1
    BY EndFrames
  <2>2. operands = 1 /\ status = "run"
    BY DEF END
  <2> QED BY <2>1, <2>2
<1>2. /\ stack' \in Seq(Value) /\ Len(stack') = bottom_of(d)
      /\ \A i \in 1 .. bottom_of(d) - 1 : stack'[i] = stack[i]
      /\ stack'[bottom_of(d)] = word(sp - 1) /\ word(sp - 1) \in Value
  BY <1>1, EndFrames
<1>3. n_locals' = saved_n_locals(d) /\ n_args' = saved_n_args(d) /\ fp' = saved_fp(d)
  BY <1>1, EndFrames
<1>4. \A i \in 1 .. 5 * (d - 1) - 1 : call_stack'[i] = call_stack[i]
  BY <1>1, EndFrames
<1>5. \A j \in 1 .. d - 1 : /\ fp_of(j)' = fp_of(j) /\ n_args_of(j)' = n_args_of(j)
                            /\ n_locals_of(j)' = n_locals_of(j) /\ bottom_of(j)' = bottom_of(j)
  BY <1>1, EndFrames
<1>6. /\ stack \in Seq(Value) /\ Len(stack) \in Nat /\ NG \in Nat
      /\ NG < bottom_of(d) /\ bottom_of(d) \in Nat /\ bottom_of(d) <= Len(stack) + 1
  BY <1>1, RunningExtent
<1>7. globals_of' = globals_of
  <2>1. \A p \in 1 .. NG : p \in 1 .. bottom_of(d) - 1
    BY <1>6
  <2> QED BY <1>2, <2>1, KeptGlobals
<1>8. /\ Len(frames_of) = d /\ \A j \in 1 .. d : frames_of[j] = frame(j)
      /\ running_record.operands # << >> /\ top_operand_of = word(sp - 1)
  BY <1>1, FramesOf, RunningOperands
<1>9. frames_of' = [j \in 1 .. d - 1 |-> frame(j)']
  BY <1>1 DEF frames_of
<1>10. CASE d = 1
  <2>1. frames_of' = << >>
    BY <1>9, <1>10
  <2> QED BY <1>7, <1>8, <1>10, <2>1, RecordStop
<1>11. CASE d # 1
  <2>1. d > 1 /\ d - 1 >= 1 /\ d - 1 \in 1 .. d - 1 /\ d - 1 # depth /\ d - 1 \in 1 .. depth
    BY <1>1, <1>11
  <2>2. place' = running_record.ret
    <3>1. /\ ip' = return_address(d) /\ Len(call_stack') = 5 * (d - 1) - 1
      BY <1>1, <1>11, EndFrames
    <3>2. Len(call_stack') % 5 = 4
      <4>1. 5 * (d - 1) - 1 = 5 * (d - 2) + 4 /\ d - 2 \in Nat
        BY <1>1, <2>1
      <4> QED BY <3>1, <4>1
    <3>3. running_record.ret = return_address(d)
      BY <1>1, <1>11, RunningRecord
    <3> QED BY <3>1, <3>2, <3>3 DEF place, calling
  <2>3. ASSUME NEW j \in 1 .. d - 1
        PROVE  /\ j # 1 => return_address(j)' = return_address(j)
               /\ j \in 1 .. depth /\ j \in 1 .. depth'
    <3>1. j # 1 => block(j) \in 1 .. 5 * (d - 1) - 1
      BY <1>1 DEF block
    <3> QED BY <1>1, <1>4, <3>1 DEF return_address, block
  <2>4. ASSUME NEW j \in 1 .. d - 1, j # d - 1 PROVE frame(j)' = frame(j)
    <3>1. j # depth /\ j + 1 \in 1 .. d - 1 /\ j # depth'
      BY <1>1, <2>4
    <3>2. top_of(j)' = top_of(j)
      BY <1>1, <1>5, <3>1 DEF top_of
    <3>3. top_of(j) <= bottom_of(d) /\ top_of(j) \in Nat
      BY <1>1, <2>3, <3>1, Extent
    <3>4. \A p \in NG + 1 .. top_of(j) - 1 : stack'[p] = stack[p]
      <4>1. \A p \in NG + 1 .. top_of(j) - 1 : p \in 1 .. bottom_of(d) - 1
        BY <1>6, <3>3
      <4> QED BY <1>2, <4>1
    <3> QED BY <1>5, <2>3, <3>2, <3>4, KeptFrame
  <2> DEFINE r == frames_of[d - 1]
             m == fp_of(d - 1) + n_locals_of(d - 1)
             ops == SubSeq(stack, m, bottom_of(d) - 1)
             v == word(sp - 1)
  <2>5. /\ r = frame(d - 1) /\ top_of(d - 1) = bottom_of(d)
        /\ top_of(d - 1)' = bottom_of(d) + 1
    <3>1. top_of(d - 1) = bottom_of(d)
      <4>1. d - 1 + 1 = d
        BY <1>1
      <4> QED BY <1>1, <2>1, <4>1 DEF top_of
    <3>2. top_of(d - 1)' = sp' /\ sp' = bottom_of(d) + 1
      BY <1>1, <1>2 DEF top_of, sp
    <3> QED BY <1>8, <2>1, <3>1, <3>2
  <2>6. /\ fp_of(d - 1) \in Nat /\ n_args_of(d - 1) \in Nat /\ n_locals_of(d - 1) \in Nat
        /\ NG < fp_of(d - 1) - n_args_of(d - 1) /\ m <= bottom_of(d)
        /\ fp_of(d - 1) - n_args_of(d - 1) \in Int
    <3>1. /\ fp_of(d - 1) \in Nat /\ n_args_of(d - 1) \in Nat /\ n_locals_of(d - 1) \in Nat
          /\ NG < bottom_of(d - 1) /\ bottom_of(d - 1) \in Nat
          /\ bottom_of(d - 1) <= fp_of(d - 1) - n_args_of(d - 1)
          /\ fp_of(d - 1) + n_locals_of(d - 1) <= top_of(d - 1)
      BY <2>1, Extent
    <3> QED BY <1>6, <2>5, <3>1
  <2>7. ASSUME NEW a \in Nat, NEW b \in Int, 1 <= a, a <= b + 1, b <= bottom_of(d) - 1
        PROVE  SubSeq(stack', a, b) = SubSeq(stack, a, b)
    <3>1. \A i \in a .. b : i \in 1 .. bottom_of(d) - 1
      BY <1>6, <2>7
    <3>2. \A i \in a .. b : stack'[i] = stack[i]
      BY <1>2, <3>1
    <3>3. /\ stack \in Seq(Value) /\ stack' \in Seq(Value)
          /\ a \in Nat /\ b \in Int /\ 1 <= a /\ a <= b + 1 /\ b <= Len(stack) /\ b <= Len(stack')
      BY <1>2, <1>6, <2>7
    <3> QED BY ONLY <3>2, <3>3, SamePart
  <2>8. SubSeq(stack', m, bottom_of(d)) = Append(ops, v)
    <3> DEFINE s == SubSeq(stack', 1, bottom_of(d) - 1)
               h == bottom_of(d) - 1
    <3>1. /\ h \in Nat /\ h <= Len(stack) /\ h <= Len(stack') /\ h + 1 = bottom_of(d)
          /\ h \in 0 .. Len(stack')
          /\ m \in Nat /\ 1 <= m /\ m <= h + 1 /\ Len(stack') = h + 1
      BY <1>2, <1>6, <2>6
    <3>2. /\ s \in Seq(Value) /\ Len(s) = h /\ \A i \in 1 .. h : s[i] = stack'[i]
      BY <1>2, <3>1, Prefix
    <3>3. stack' = Append(s, v)
      <4> HIDE DEF s, h, v
      <4>1. v \in Value /\ stack'[h + 1] = v
        BY <1>2, <3>1 DEF v
      <4>2. /\ Append(s, v) \in Seq(Value) /\ Len(Append(s, v)) = h + 1
            /\ \A i \in 1 .. h : Append(s, v)[i] = s[i]
            /\ Append(s, v)[h + 1] = v
        BY <3>2, <4>1, AppendProperties
      <4>3. ASSUME NEW i \in 1 .. h + 1 PROVE stack'[i] = Append(s, v)[i]
        <5>1. CASE i = h + 1
          BY <4>1, <4>2, <5>1
        <5>2. CASE i # h + 1
          <6>1. i \in 1 .. h
            BY <3>1, <5>2
          <6> QED BY <3>2, <4>2, <6>1
        <5> QED BY <5>1, <5>2
      <4> QED BY <1>2, <3>1, <4>2, <4>3, SeqEqual
    <3>4. SubSeq(s, m, h) = ops
      <4>1. SubSeq(stack', m, h) = SubSeq(stack, m, h)
        <5>1. m \in Nat /\ h \in Int /\ 1 <= m /\ m <= h + 1 /\ h <= bottom_of(d) - 1
          BY <1>6, <3>1
        <5> HIDE DEF m, h
        <5> QED BY <2>7, <5>1
      <4> HIDE DEF m
      <4>2. SubSeq(s, m, h) = SubSeq(stack', m, h)
        <5>1. /\ \A i \in m .. h : i \in 1 .. h
              /\ m \in Nat /\ h \in Int /\ 1 <= m /\ m <= h + 1 /\ h <= Len(s) /\ h <= Len(stack')
              /\ s \in Seq(Value) /\ stack' \in Seq(Value)
          BY <1>2, <3>1, <3>2
        <5>2. \A i \in m .. h : s[i] = stack'[i]
          BY <3>2, <5>1
        <5> HIDE DEF s, h
        <5> QED BY ONLY <5>1, <5>2, SamePart
      <4> QED BY <4>1, <4>2
    <3>5. SubSeq(Append(s, v), m, h + 1) = Append(ops, v)
      <4>1. v \in Value
        BY <1>2
      <4> HIDE DEF s, h, m, v, ops
      <4>2. /\ s \in Seq(Value) /\ m \in Nat /\ v \in Value /\ 1 <= m /\ m <= Len(s) + 1 /\ Len(s) = h
        BY <3>1, <3>2, <4>1
      <4>3. SubSeq(Append(s, v), m, Len(s) + 1) = Append(SubSeq(s, m, Len(s)), v)
        BY ONLY <4>2, PartGrows
      <4> QED BY <3>4, <4>2, <4>3
    <3> HIDE DEF s, h, m, v, ops
    <3> QED BY <3>1, <3>3, <3>5
  <2>9. frame(d - 1)' = [r EXCEPT !.operands = Append(r.operands, v)]
    <3> DEFINE a == SubSeq(stack, fp_of(d - 1) - n_args_of(d - 1), fp_of(d - 1) - 1)
               l == SubSeq(stack, fp_of(d - 1), m - 1)
               e == Append(ops, v)
               t == r.ret
    <3>1. /\ SubSeq(stack', fp_of(d - 1) - n_args_of(d - 1), fp_of(d - 1) - 1) = a
          /\ SubSeq(stack', fp_of(d - 1), m - 1) = l
      <4>1. /\ fp_of(d - 1) - n_args_of(d - 1) \in Nat /\ 1 <= fp_of(d - 1) - n_args_of(d - 1)
            /\ fp_of(d - 1) - n_args_of(d - 1) <= fp_of(d - 1) - 1 + 1 /\ fp_of(d - 1) - 1 \in Int
            /\ fp_of(d - 1) - 1 <= bottom_of(d) - 1
            /\ 1 <= fp_of(d - 1) /\ m - 1 \in Int /\ fp_of(d - 1) <= m - 1 + 1
            /\ m - 1 <= bottom_of(d) - 1
        BY <1>6, <2>6
      <4> QED BY <2>6, <2>7, <4>1
    <3>2. /\ part(fp_of(d - 1) - n_args_of(d - 1), fp_of(d - 1) - 1)' = a
          /\ part(fp_of(d - 1), fp_of(d - 1) + n_locals_of(d - 1) - 1)' = l
      <4>1. /\ (fp_of(d - 1) - n_args_of(d - 1))' = fp_of(d - 1) - n_args_of(d - 1)
            /\ (fp_of(d - 1) - 1)' = fp_of(d - 1) - 1 /\ fp_of(d - 1)' = fp_of(d - 1)
            /\ (fp_of(d - 1) + n_locals_of(d - 1) - 1)' = m - 1
        <5>1. fp_of(d - 1)' = fp_of(d - 1) /\ n_args_of(d - 1)' = n_args_of(d - 1)
              /\ n_locals_of(d - 1)' = n_locals_of(d - 1)
          BY <1>5, <2>1
        <5> QED BY <2>6, <5>1
      <4> HIDE DEF a, l, m
      <4> QED BY <3>1, <4>1 DEF part
    <3>3. part(fp_of(d - 1) + n_locals_of(d - 1), top_of(d - 1) - 1)' = e
      <4>1. /\ (fp_of(d - 1) + n_locals_of(d - 1))' = m /\ (top_of(d - 1) - 1)' = bottom_of(d)
        BY <1>5, <1>6, <2>1, <2>5
      <4> HIDE DEF e, m
      <4> QED BY <2>8, <4>1 DEF part, e
    <3>4. (IF d - 1 = 1 THEN no_label ELSE return_address(d - 1))' = t
      <4>1. (d - 1 # 1) => return_address(d - 1)' = return_address(d - 1)
        BY <2>1, <2>3
      <4>2. r.ret = IF d - 1 = 1 THEN no_label ELSE return_address(d - 1)
        BY <2>5 DEF frame
      <4> HIDE DEF r
      <4> QED BY <4>1, <4>2
    <3>5. frame(d - 1)' = [args |-> a, locals |-> l, operands |-> e, ret |-> t]
      <4> HIDE DEF a, l, e, t
      <4> QED BY <3>2, <3>3, <3>4 DEF frame
    <3>6. r = [args |-> a, locals |-> l, operands |-> ops, ret |-> t]
      <4>1. frame(d - 1) = [args |-> a, locals |-> l, operands |-> ops, ret |-> frame(d - 1).ret]
        <5>1. /\ part(fp_of(d - 1) - n_args_of(d - 1), fp_of(d - 1) - 1) = a
              /\ part(fp_of(d - 1), fp_of(d - 1) + n_locals_of(d - 1) - 1) = l
              /\ part(fp_of(d - 1) + n_locals_of(d - 1), top_of(d - 1) - 1) = ops
          <6>1. top_of(d - 1) - 1 = bottom_of(d) - 1
            BY <2>5
          <6>2. part(fp_of(d - 1) + n_locals_of(d - 1), top_of(d - 1) - 1) = ops
            BY <6>1 DEF part
          <6>3. part(fp_of(d - 1), fp_of(d - 1) + n_locals_of(d - 1) - 1) = l
            <7>1. fp_of(d - 1) + n_locals_of(d - 1) - 1 = m - 1
              BY <2>6
            <7> HIDE DEF m
            <7> QED BY <7>1 DEF part
          <6>4. part(fp_of(d - 1) - n_args_of(d - 1), fp_of(d - 1) - 1) = a
            BY DEF part
          <6> QED BY <6>2, <6>3, <6>4
        <5> HIDE DEF a, l, ops
        <5> QED BY <5>1 DEF frame
      <4>2. r = frame(d - 1)
        BY <2>5
      <4> QED BY <4>1, <4>2
    <3> HIDE DEF a, l, e, t, r, ops
    <3>7. r.operands = ops
          /\ [r EXCEPT !.operands = e] = [args |-> a, locals |-> l, operands |-> e, ret |-> t]
      BY ONLY <3>6, RecordWith
    <3> QED BY <3>5, <3>7 DEF e
  <2>10. frames_of' = [SubSeq(frames_of, 1, d - 1) EXCEPT ![d - 1].operands = Append(r.operands, v)]
    <3> DEFINE S == {frame(j) : j \in 1 .. d}
               g == SubSeq(frames_of, 1, d - 1)
    <3>1. frames_of \in Seq(S)
      <4>1. \A j \in 1 .. d : frame(j) \in S
        OBVIOUS
      <4>2. frames_of = [j \in 1 .. d |-> frame(j)]
        BY <1>1 DEF frames_of
      <4> HIDE DEF S
      <4> QED BY <1>1, <4>1, <4>2
    <3>2. /\ g \in Seq(S) /\ Len(g) = d - 1 /\ \A j \in 1 .. d - 1 : g[j] = frames_of[j]
      <4>1. d - 1 \in 0 .. Len(frames_of)
        BY <1>1, <1>8
      <4> HIDE DEF S
      <4> QED BY ONLY <3>1, <4>1, Prefix
    <3> HIDE DEF g, S
    <3>3. g = [j \in 1 .. d - 1 |-> frames_of[j]]
      BY <2>1, <3>2
    <3>4. \A j \in 1 .. d - 1 : j # d - 1 => frames_of[j] = frame(j) /\ frame(j)' = frame(j)
      <4>1. \A j \in 1 .. d - 1 : j \in 1 .. d
        BY <1>1
      <4> QED BY <1>8, <2>4, <4>1
    <3> DEFINE new == [r EXCEPT !.operands = Append(r.operands, v)]
    <3>5. frame(d - 1)' = new
      BY <2>9
    <3> HIDE DEF new
    <3>6. frames_of' = [g EXCEPT ![d - 1] = new]
      BY <1>9, <2>1, <3>3, <3>4, <3>5
    <3>7. g[d - 1] = r
      BY <2>1, <3>2
    <3> HIDE DEF r
    <3>8. frames_of' = [g EXCEPT ![d - 1].operands = Append(r.operands, v)]
      BY <3>6, <3>7 DEF new
    <3> QED BY <3>8 DEF g
  <2>11. d = Len(frames_of) /\ d \in Nat
    BY <1>1, <1>8
  <2>12. frames_of' = [SubSeq(frames_of, 1, d - 1) EXCEPT ![d - 1].operands =
                          Append(frames_of[d - 1].operands, top_operand_of)]
    BY <1>8, <2>10
  <2> QED BY <1>7, <1>8, <2>1, <2>2, <2>11, <2>12, RecordReturn
<1> QED BY <1>10, <1>11

-------------------------------------------------------------------------------
(* The refinement *)

LEMMA InitRecords == Init => Records!Init
<1> SUFFICES ASSUME Init PROVE Records!Init
  OBVIOUS
<1>1. CInv
  BY InitCInv
<1>2. globals_of \in Seq(Value)
  <2>1. /\ stack \in Seq(Value) /\ 1 \in Nat /\ NG \in Int /\ 1 <= NG + 1 /\ 1 <= 1 /\ NG <= Len(stack)
    BY <1>1, Depths DEF CInv, TypeOK
  <2> QED BY <2>1, Part DEF globals_of, part
<1>3. frames_of = << >> /\ place \in Label
  <2>1. depth = 0 /\ ~calling /\ ip \in Label
    BY DEF Init, depth, calling
  <2> QED BY <2>1 DEF frames_of, place
<1> QED BY <1>2, <1>3, RecordSteps

LEMMA StutterRecords ==
  ASSUME fail \/ UNCHANGED vars
  PROVE  globals_of' = globals_of /\ frames_of' = frames_of /\ place' = place
<1> USE DEF fail, vars, regs
<1>1. /\ depth' = depth /\ sp' = sp
      /\ \A j : /\ fp_of(j)' = fp_of(j) /\ n_args_of(j)' = n_args_of(j)
                /\ n_locals_of(j)' = n_locals_of(j) /\ bottom_of(j)' = bottom_of(j)
                /\ return_address(j)' = return_address(j)
  BY DEF sp, depth, fp_of, n_args_of, n_locals_of, closure_flag, bottom_of, return_address, block,
         saved_fp, saved_n_args, saved_n_locals
<1>2. \A j : top_of(j)' = top_of(j)
  BY <1>1 DEF top_of
<1>3. \A j : frame(j)' = frame(j)
  BY <1>1, <1>2 DEF frame, part
<1>4. frames_of' = frames_of
  BY <1>1, <1>3 DEF frames_of
<1>5. globals_of' = globals_of /\ place' = place
  BY DEF globals_of, part, place, calling
<1> QED BY <1>4, <1>5

LEMMA CallingStep ==
  ASSUME CInv, CInv', CALL \/ CALLC, status' # "failed"
  PROVE  globals_of' = globals_of /\ frames_of' = frames_of /\ place' = place
<1>1. /\ status = "run" /\ call_stack' = Append(call_stack, ip) /\ status' = "begin"
      /\ UNCHANGED <<stack, fp, n_args, n_locals>>
  BY DEF CALL, CALLC, fail
<1> QED BY <1>1, CallRecords

LEMMA StepRecords ==
  ASSUME Verified, CInv, CInv', [Next]_vars PROVE [Records!Next]_Records!vars
<1>1. CASE UNCHANGED vars \/ (Next /\ status' = "failed")
  BY <1>1, FailingStep, StutterRecords, RecordSteps
<1>2. CASE Next /\ status' # "failed"
  <2>1. CASE JMP \/ CONST \/ BCLOSURE \/ LD \/ DROP \/ ST
    BY <1>2, <2>1, JumpRecords, LoadRecords, DropRecords, AssignRecords DEF Records!Next
  <2>2. CASE CALL \/ CALLC
    BY <1>2, <2>2, CallingStep, RecordSteps
  <2>3. CASE BEGIN \/ END
    BY <1>2, <2>3, BeginRecords, EndRecords DEF Records!Next
  <2>4. CASE Ended
    BY <2>4, StutterRecords, RecordSteps DEF Ended
  <2> QED BY <1>2, <2>1, <2>2, <2>3, <2>4 DEF Next
<1> QED BY <1>1, <1>2

\* Two flat stacks and four registers implement activation records: a call
\* hands over its arguments and nothing else, a return restores the variables,
\* the operands and the place of the caller and adds the result, and no other
\* instruction touches a record but the running one.
THEOREM CallStackImplementsActivations == ASSUME Verified PROVE Spec => ImplementsActivations
<1>1. Init => Records!Init
  BY InitRecords
<1>2. CInv /\ CInv' /\ [Next]_vars => [Records!Next]_Records!vars
  BY StepRecords
<1> QED BY <1>1, <1>2, Invariance, PTL DEF Spec, ImplementsActivations, Records!Spec
================================================================================
