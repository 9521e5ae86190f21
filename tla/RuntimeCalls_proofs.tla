-------------------------- MODULE RuntimeCalls_proofs --------------------------
(***************************************************************************)
(* The runtime functions that allocate, for every size of the pool, every  *)
(* program, every stack and every heap: what each of them has in the pool  *)
(* of extra roots between its request and its return, and, with that, the  *)
(* shape and the contents of the heap and the identity of its objects.     *)
(***************************************************************************)
EXTENDS HeapIdentity_proofs, RuntimeProperties

-------------------------------------------------------------------------------
(* The invariant *)

in_call == pc \notin {"run", "failed"}
called(ops) == in_call /\ running = "program" /\ req.op \in ops

\* The functions by what they register, on top of global_sysargs.
no_cells   == {"LmakeArray", "Barray", "Bsexp", "LmakeString", "Lfread"}
one_arg    == {"Lclone", "Lsubstring"}
two_args   == {"Ls__Infix_58", "Li__Infix_4343"}
the_buffer == {"Bstring", "LgetEnv", "LreadLine"}
arg_and_buffer == {"Lclone_string", "Lstring", "Lstringcat", "Lsprintf"}

sysargs  == local_cell("global_sysargs")
buffer   == local_cell("Bstring_p")
set_args_cell == local_cell("set_args_p")

\* How many arguments are on the stack for the return to pop.
arguments(n) == Len(stack) >= FrameWords + n

Frame ==
  /\ \E S : stack \in Seq(S)
  /\ Len(stack) >= FrameWords

Ends ==
  /\ running \in {"start", "set_args", "program"}
  /\ exit.why = "none" <=> pc # "failed"
  /\ exit.why # "pool mismatch"
  /\ exit.why = "pool overflow" => exit.in = "Bclosure"

\* Between calls.
Pool ==
  /\ pc = "run" /\ running = "start" => extra = << >>
  /\ pc = "run" /\ running = "set_args" => extra = <<set_args_cell>>
  /\ pc = "run" /\ running = "program" => extra = <<sysargs>>
  /\ in_call => running # "start"

\* During the calls of set_args.
SetArgsPool ==
  in_call /\ running = "set_args" =>
    \/ req.op = "set_args" /\ extra = << >>
    \/ req.op = "set_args_bstring" /\ extra = <<set_args_cell, buffer>>

\* During the calls of the program.
CallPool ==
  /\ called({req.op}) =>
       req.op \in no_cells \cup one_arg \cup two_args \cup the_buffer \cup arg_and_buffer \cup {"Bclosure"}
  /\ called(no_cells) => extra = <<sysargs>>
  /\ called(one_arg) => extra = <<sysargs, arg_cell(1)>>
  /\ called(two_args) => extra = <<sysargs, arg_cell(1), arg_cell(2)>>
  /\ called(the_buffer) => extra = <<sysargs, buffer>>
  /\ called(arg_and_buffer) => extra = <<sysargs, arg_cell(1), buffer>>
  /\ called({"Bclosure"}) => /\ req.len \in Nat /\ req.len >= 1
                             /\ extra = <<sysargs>> \o captured_cells(req.len - 1)

\* The arguments of the calls of the program.
Arguments ==
  /\ called({"LmakeArray", "LmakeString", "Lclone", "Lclone_string", "LgetEnv", "Lstring",
             "Lstringcat", "Lfread"}) => arguments(1)
  /\ called(two_args) => arguments(2)
  /\ called({"Lsubstring"}) => arguments(3)
  /\ called({"Barray", "Bsexp"}) => req.len \in Nat /\ arguments(req.len)
  /\ called({"Bclosure"}) => arguments(req.len - 1)
  /\ called({"Lsprintf"}) =>
       /\ "Lsprintf_n" \in DOMAIN locals
       /\ locals.Lsprintf_n \in Nat /\ arguments(locals.Lsprintf_n + 1)

\* The loop over the pool in update_references starts at its first cell.
PoolLoop ==
  /\ "idx" \in DOMAIN gc
  /\ pc = "fix_extra_roots" => gc.idx \in Nat /\ gc.idx >= 1

Frames == Frame /\ Ends /\ Pool /\ SetArgsPool /\ CallPool /\ Arguments /\ PoolLoop

-------------------------------------------------------------------------------
(* Frames of the caller *)

LEMMA FrameOf ==
  ASSUME NEW S, stack' \in Seq(S), NEW k \in Int, Len(stack') = k, k >= FrameWords PROVE Frame'
BY DEF Frame

\* Pops and pushes leave the frame of the caller alone.
LEMMA FrameKept ==
  ASSUME Frame, NEW n \in Nat, arguments(n), NEW v,
         \/ stack' = push(popped(n), v)
         \/ stack' = popped(n)
         \/ stack' = push(stack, v)
         \/ \E e : stack' = [i \in DOMAIN stack |-> e[i]]
  PROVE  Frame'
<1>1. PICK S : stack \in Seq(S)
  BY DEF Frame
<1>2. Len(stack) \in Nat /\ FrameWords \in Nat /\ Len(stack) >= FrameWords /\ DOMAIN stack = 1 .. Len(stack)
  BY <1>1, CallsAssumption DEF Frame
<1>3. PICK T : T = S \cup {v}
  OBVIOUS
<1>4. v \in T /\ stack \in Seq(T)
  BY <1>1, <1>3, SeqGrows
<1>5. n \in 0 .. Len(stack) /\ Len(stack) - n >= FrameWords /\ Len(stack) - n \in Nat
  BY <1>2 DEF arguments
<1>6. popped(n) \in Seq(T) /\ Len(popped(n)) = Len(stack) - n
  BY <1>4, <1>5, Operands
<1>7. CASE stack' = push(popped(n), v)
  <2>1. PICK p : p = popped(n)
    OBVIOUS
  <2>2. push(p, v) \in Seq(T) /\ Len(push(p, v)) = Len(p) + 1
    BY <1>4, <1>6, <2>1, Pushing
  <2>3. PICK k \in Int : k = Len(stack) - n + 1
    BY <1>5
  <2>4. stack' \in Seq(T) /\ Len(stack') = k /\ k >= FrameWords
    BY <1>2, <1>5, <1>6, <1>7, <2>1, <2>2, <2>3
  <2> QED BY <2>4, FrameOf
<1>8. CASE stack' = popped(n)
  BY <1>5, <1>6, <1>8, FrameOf
<1>9. CASE stack' = push(stack, v)
  <2>1. push(stack, v) \in Seq(T) /\ Len(push(stack, v)) = Len(stack) + 1
    BY <1>4, Pushing
  <2>2. PICK k \in Int : k = Len(stack) + 1
    BY <1>2
  <2>3. k >= FrameWords
    BY <1>2, <2>2
  <2> QED BY <1>9, <2>1, <2>2, <2>3, FrameOf
<1>10. ASSUME NEW e, stack' = [i \in DOMAIN stack |-> e[i]] PROVE Frame'
  <2> PICK k : k = Len(stack) OBVIOUS
  <2> PICK s : s = stack' OBVIOUS
  <2> PICK U : U = {e[i] : i \in 1 .. k} OBVIOUS
  <2>1. k \in Nat /\ s = [i \in 1 .. k |-> e[i]]
    BY <1>2, <1>10
  <2>2. s = [i \in 1 .. k |-> s[i]] /\ \A i \in 1 .. k : s[i] \in U
    BY <2>1
  <2>3. s \in Seq(U) /\ Len(s) = k
    BY ONLY <2>1, <2>2, FunctionIsSeq
  <2> QED BY <1>2, <2>3 DEF Frame
<1> QED BY <1>7, <1>8, <1>9, <1>10

\* What the collector does to the words of the stack it does in place.
LEMMA CollectorFrame ==
  ASSUME Frame, CollectStep PROVE Frame' /\ Len(stack') = Len(stack)
<1>1. \E e : stack' = [i \in DOMAIN stack |-> e[i]]
  <2>1. stack = [i \in DOMAIN stack |-> stack[i]]
    BY DEF Frame
  <2>2. CASE stack' = stack
    BY <2>1, <2>2
  <2>3. CASE fix_stack
    <3>1. stack' = [i \in DOMAIN stack |-> new_reference(stack[i])]
      BY <2>3 DEF fix_stack
    <3>2. stack' = [i \in DOMAIN stack |-> stack'[i]]
      BY <3>1
    <3> QED BY <3>2
  <2>4. CASE fix_extra_root
    <3>1. \E c, w : stack' = [stack EXCEPT ![c] = w]
      <4> DEFINE c == extra[gc.idx]
                 w == IF skipped(c) THEN cell_word(c) ELSE new_reference(cell_word(c))
      <4>1. stack' = [stack EXCEPT ![c[2]] = w] \/ stack' = stack
        BY <2>4 DEF fix_extra_root
      <4>2. stack = [stack EXCEPT ![0] = stack[0]]
        BY <2>1
      <4> QED BY <4>1, <4>2
    <3>2. stack' = [i \in DOMAIN stack |-> stack'[i]]
      BY <2>1, <3>1
    <3> QED BY <3>2
  <2>5. stack' = stack \/ fix_stack \/ fix_extra_root
    BY RootsFixed
  <2> QED BY <2>2, <2>3, <2>4, <2>5
<1>2. 0 \in Nat /\ arguments(0) /\ Len(stack) \in Nat
  BY CallsAssumption DEF Frame, arguments
<1>3. Frame'
  BY <1>1, <1>2, FrameKept
<1>4. DOMAIN stack' = DOMAIN stack
  BY CollectorKeeps
<1> QED BY <1>3, <1>4, SameLength DEF Frame

\* The loop over the pool writes to registered cells only, and starts at the
\* first of them.
LEMMA PoolLoopKept == ASSUME PoolLoop, CollectStep PROVE PoolLoop'
<1>1. "idx" \in DOMAIN gc' /\ (pc' = "fix_extra_roots" => fix_stack \/ fix_extra_root)
  BY RootsFixed DEF PoolLoop
<1>2. CASE fix_stack
  <2>1. gc' = [gc EXCEPT !.idx = 1]
    BY <1>2 DEF fix_stack
  <2>2. gc'.idx = 1
    BY <2>1 DEF PoolLoop
  <2> QED BY <1>1, <2>2 DEF PoolLoop
<1>3. CASE fix_extra_root
  <2>1. pc = "fix_extra_roots" /\ gc' = [gc EXCEPT !.idx = @ + 1]
    BY <1>3 DEF fix_extra_root
  <2>2. gc.idx \in Nat /\ gc.idx >= 1 /\ gc'.idx = gc.idx + 1
    BY <2>1 DEF PoolLoop
  <2> QED BY <1>1, <2>2 DEF PoolLoop
<1> QED BY <1>1, <1>2, <1>3 DEF PoolLoop

\* The number of arguments of Lsprintf is not registered and stays.
LEMMA CountKept ==
  ASSUME PoolLoop, CollectStep, NEW k, extra = <<sysargs, <<"stack", k>>, buffer>>,
         "Lsprintf_n" \in DOMAIN locals
  PROVE  "Lsprintf_n" \in DOMAIN locals' /\ locals'.Lsprintf_n = locals.Lsprintf_n
<1>1. CASE locals' = locals
  BY <1>1
<1>2. CASE fix_extra_root
  <2>1. /\ pc = "fix_extra_roots" /\ gc.idx <= Len(extra)
        /\ \/ locals' = locals
           \/ extra[gc.idx][1] # "stack" /\ \E w : locals' = [locals EXCEPT ![extra[gc.idx][2]] = w]
    BY <1>2 DEF fix_extra_root
  <2>2. gc.idx \in {1, 2, 3}
    <3>1. Len(extra) = 3
      OBVIOUS
    <3>2. gc.idx \in Nat /\ gc.idx >= 1 /\ gc.idx <= 3
      BY <2>1, <3>1 DEF PoolLoop
    <3> QED BY ONLY <3>2
  <2>3. extra[1][2] = "global_sysargs" /\ extra[2][1] = "stack" /\ extra[3][2] = "Bstring_p"
    BY DEF sysargs, buffer, local_cell
  <2>4. ASSUME NEW x, NEW w, x # "Lsprintf_n", locals' = [locals EXCEPT ![x] = w]
        PROVE  "Lsprintf_n" \in DOMAIN locals' /\ locals'.Lsprintf_n = locals.Lsprintf_n
    BY <2>4
  <2> QED BY <2>1, <2>2, <2>3, <2>4
<1> QED BY <1>1, <1>2, RootsFixed

\* The collector works within one call.
LEMMA CollectorFrames ==
  ASSUME Frames, CollectStep, UNCHANGED <<running, exit>> PROVE Frames'
<1>1. /\ in_call /\ in_call' /\ pc \notin {"run", "failed"} /\ pc' \notin {"run", "failed"}
      /\ req' = req /\ extra' = extra
  BY CollectorKeeps DEF in_call, marking, compacting
<1>2. Frame' /\ Len(stack') = Len(stack)
  BY CollectorFrame DEF Frames
<1>3. PoolLoop'
  BY PoolLoopKept DEF Frames
<1>4. Ends' /\ Pool' /\ SetArgsPool'
  BY <1>1 DEF Frames, Ends, Pool, SetArgsPool, in_call
<1>5. /\ \A k : arg_cell(k)' = arg_cell(k)
      /\ \A n : arguments(n)' = arguments(n)
      /\ \A ops : called(ops)' = called(ops)
      /\ \A n : captured_cells(n)' = captured_cells(n)
  BY <1>1, <1>2 DEF arg_cell, arguments, called, captured_cells, captured_cell
<1>6. CallPool'
  BY <1>1, <1>5 DEF Frames, CallPool, sysargs, buffer, local_cell
<1>7. called({"Lsprintf"}) =>
        /\ "Lsprintf_n" \in DOMAIN locals'
        /\ locals'.Lsprintf_n = locals.Lsprintf_n
  <2>1. called({"Lsprintf"}) => called(arg_and_buffer)
    BY DEF called, arg_and_buffer
  <2>2. called({"Lsprintf"}) => extra = <<sysargs, <<"stack", Len(stack) + 1 - 1>>, buffer>>
    BY <2>1 DEF Frames, CallPool, arg_cell
  <2> QED BY <2>2, CountKept DEF Frames, Arguments
<1>8. Arguments'
  BY <1>1, <1>5, <1>7 DEF Frames, Arguments
<1> QED BY <1>2, <1>3, <1>4, <1>6, <1>8 DEF Frames

-------------------------------------------------------------------------------
(* The program, and the ends of the process *)

\* Between calls the program moves words only.
LEMMA ProgramFrames ==
  ASSUME Frames, pc = "run", running = "program", moves, NEW n \in Nat, arguments(n), NEW v,
         \/ stack' = push(popped(n), v)
         \/ stack' = popped(n)
         \/ stack' = push(stack, v)
         \/ stack' = stack
  PROVE  Frames'
<1>1. stack' = stack => \E e : stack' = [i \in DOMAIN stack |-> e[i]]
  <2>1. stack = [i \in DOMAIN stack |-> stack[i]]
    BY DEF Frames, Frame
  <2> QED BY <2>1
<1>2. Frame'
  BY <1>1, FrameKept DEF Frames
<1>3. UNCHANGED <<pc, running, exit, extra, gc, req>> /\ ~in_call'
  BY DEF moves, in_call
<1>4. Ends' /\ Pool' /\ PoolLoop'
  BY <1>3 DEF Frames, Ends, Pool, PoolLoop, in_call, sysargs, local_cell
<1>5. SetArgsPool' /\ CallPool' /\ Arguments'
  BY <1>3 DEF SetArgsPool, CallPool, Arguments, called
<1> QED BY <1>2, <1>4, <1>5 DEF Frames

\* The only overflow is that of Bclosure.
LEMMA StopFrames ==
  ASSUME Frames, NEW f, NEW why, stop(f, why),
         why = "failure" \/ (why = "pool overflow" /\ f = "Bclosure")
  PROVE  Frames'
<1>1. /\ pc' = "failed" /\ exit' = [why |-> why, in |-> f] /\ running' = running /\ ~in_call'
      /\ UNCHANGED <<stack, gc>>
  BY DEF stop, failure, in_call
<1>2. Frame' /\ PoolLoop'
  BY <1>1 DEF Frames, Frame, PoolLoop
<1>3. Ends'
  BY <1>1 DEF Frames, Ends
<1>4. Pool' /\ SetArgsPool' /\ CallPool' /\ Arguments'
  BY <1>1 DEF Pool, SetArgsPool, CallPool, Arguments, called, in_call
<1> QED BY <1>2, <1>3, <1>4 DEF Frames

-------------------------------------------------------------------------------
(* Requests *)

\* There is room for two cells over global_sysargs.
LEMMA RoomForTwo ==
  ASSUME Frames, pc = "run", running = "program", NEW cells, Len(cells) \in {0, 1, 2}
  PROVE  ~pool_overflow(cells)
<1>1. Len(extra) = 1
  <2>1. extra = <<sysargs>>
    BY DEF Frames, Pool
  <2> QED BY <2>1
<1>2. MAX_EXTRA_ROOTS_NUMBER \in Nat /\ MAX_EXTRA_ROOTS_NUMBER >= 3
  BY PoolAssumption, ThreeCellsAssumption
<1>3. PICK k : k = Len(cells)
  OBVIOUS
<1>4. ~(1 + k > MAX_EXTRA_ROOTS_NUMBER)
  BY <1>2, <1>3
<1> QED BY <1>1, <1>3, <1>4 DEF pool_overflow

LEMMA Entered ==
  ASSUME Frames, pc = "run", running = "program", NEW cells, Len(cells) \in {0, 1, 2},
         NEW f, NEW type, NEW len, NEW ls, enter(f, type, len, cells, ls)
  PROVE  /\ request(f, type, len) /\ extra' = pushed_roots(cells)
         /\ UNCHANGED <<stack, running, exit>> /\ Frame'
<1>1. ~pool_overflow(cells)
  BY RoomForTwo
<1> QED BY <1>1 DEF enter, Frames, Frame

\* What is left to show when a function of the program has registered its cells.
LEMMA RequestFrames ==
  ASSUME Frames, pc = "run", running = "program",
         NEW f, NEW type, NEW len, NEW cells, request(f, type, len), extra' = pushed_roots(cells),
         UNCHANGED <<running, exit>>, Frame',
         (/\ \A ops : called(ops)' <=> f \in ops
          /\ req'.op = f /\ req'.len = len /\ extra' = <<sysargs>> \o cells)
         => CallPool' /\ Arguments'
  PROVE  Frames'
<1>1. /\ pc' = "alloc" /\ running' = "program" /\ exit' = exit /\ gc' = gc
      /\ req'.op = f /\ req'.len = len
  BY DEF request
<1>2. extra = <<sysargs>>
  BY DEF Frames, Pool
<1>3. \A ops : called(ops)' <=> f \in ops
  BY <1>1 DEF called, in_call
<1>4. CallPool' /\ Arguments'
  BY <1>1, <1>2, <1>3 DEF pushed_roots
<1>5. Ends' /\ Pool' /\ SetArgsPool' /\ PoolLoop'
  BY <1>1 DEF Frames, Ends, Pool, SetArgsPool, PoolLoop, in_call
<1> QED BY <1>4, <1>5 DEF Frames

LEMMA Concatenated ==
  ASSUME NEW a, NEW b, NEW c
  PROVE  /\ <<a>> \o << >> = <<a>> /\ << >> \o <<a>> = <<a>>
         /\ <<a>> \o <<b>> = <<a, b>> /\ <<a>> \o <<b, c>> = <<a, b, c>>
<1> PICK S : S = {a, b, c} OBVIOUS
<1> PICK s : s = <<a>> OBVIOUS
<1> PICK t : t = <<b>> OBVIOUS
<1> PICK u : u = <<b, c>> OBVIOUS
<1>1. s \in Seq(S) /\ t \in Seq(S) /\ u \in Seq(S) /\ Len(s) = 1 /\ Len(t) = 1 /\ Len(u) = 2
  OBVIOUS
<1>2. <<a, b>> \in Seq(S) /\ <<a, b, c>> \in Seq(S) /\ Len(<<a, b>>) = 2 /\ Len(<<a, b, c>>) = 3
  OBVIOUS
<1>3. s \o << >> = s /\ << >> \o s = s
  BY <1>1, ConcatEmptySeq
<1>4. s \o t = <<a, b>>
  <2>1. s \o t \in Seq(S) /\ Len(s \o t) = 2
    BY <1>1, ConcatProperties
  <2>2. (s \o t)[1] = a /\ (s \o t)[2] = b
    BY <1>1, ConcatProperties
  <2>3. \A i \in 1 .. 2 : (s \o t)[i] = <<a, b>>[i]
    BY <2>2
  <2> QED BY <1>2, <2>1, <2>3, SeqEqual
<1>5. s \o u = <<a, b, c>>
  <2>1. s \o u \in Seq(S) /\ Len(s \o u) = 3
    BY <1>1, ConcatProperties
  <2>2. (s \o u)[1] = a /\ (s \o u)[2] = b /\ (s \o u)[3] = c
    BY <1>1, ConcatProperties
  <2>3. \A i \in 1 .. 3 : (s \o u)[i] = <<a, b, c>>[i]
    BY <2>2
  <2> QED BY <1>2, <2>1, <2>3, SeqEqual
<1> QED BY <1>3, <1>4, <1>5

\* Functions that register no cells.
LEMMA NoCellsFrames ==
  ASSUME Frames, pc = "run", running = "program", NEW f \in no_cells, NEW type, NEW len, NEW ls,
         enter(f, type, len, << >>, ls),
         IF f \in {"Barray", "Bsexp"} THEN len \in Nat /\ arguments(len) ELSE arguments(1)
  PROVE  Frames'
<1>1. /\ request(f, type, len) /\ extra' = pushed_roots(<< >>)
      /\ UNCHANGED <<stack, running, exit>> /\ Frame'
  BY Entered
<1>2. \A n : arguments(n)' = arguments(n)
  BY <1>1 DEF arguments
<1>3. ASSUME \A ops : called(ops)' <=> f \in ops, req'.op = f, req'.len = len,
             extra' = <<sysargs>> \o << >>
      PROVE  CallPool' /\ Arguments'
  <2>1. extra' = <<sysargs>>
    BY <1>3, Concatenated
  <2>2. CallPool'
    BY <1>3, <2>1 DEF CallPool, no_cells, one_arg, two_args, the_buffer, arg_and_buffer,
       sysargs, local_cell
  <2>3. Arguments'
    BY <1>2, <1>3 DEF Arguments, no_cells, two_args
  <2> QED BY <2>2, <2>3
<1> QED BY <1>1, <1>3, RequestFrames

\* Functions that register their argument or two.
LEMMA ArgCellsFrames ==
  ASSUME Frames, pc = "run", running = "program", NEW f \in one_arg \cup two_args,
         NEW type, NEW len, NEW ls, NEW cells,
         cells = IF f \in one_arg THEN <<arg_cell(1)>> ELSE <<arg_cell(1), arg_cell(2)>>,
         enter(f, type, len, cells, ls),
         arguments(IF f = "Lclone" THEN 1 ELSE IF f = "Lsubstring" THEN 3 ELSE 2)
  PROVE  Frames'
<1>1. /\ request(f, type, len) /\ extra' = pushed_roots(cells)
      /\ UNCHANGED <<stack, running, exit>> /\ Frame'
  <2>1. Len(cells) \in {0, 1, 2}
    OBVIOUS
  <2> QED BY <2>1, Entered
<1>2. \A n : arguments(n)' = arguments(n) /\ arg_cell(n)' = arg_cell(n)
  BY <1>1 DEF arguments, arg_cell
<1>3. ASSUME \A ops : called(ops)' <=> f \in ops, req'.op = f, req'.len = len,
             extra' = <<sysargs>> \o cells
      PROVE  CallPool' /\ Arguments'
  <2>1. extra' = IF f \in one_arg THEN <<sysargs, arg_cell(1)>>
                 ELSE <<sysargs, arg_cell(1), arg_cell(2)>>
    BY <1>3, Concatenated
  <2>2. CallPool'
    BY <1>2, <1>3, <2>1 DEF CallPool, no_cells, one_arg, two_args, the_buffer, arg_and_buffer,
       sysargs, local_cell
  <2>3. Arguments'
    BY <1>2, <1>3 DEF Arguments, one_arg, two_args
  <2> QED BY <2>2, <2>3
<1> QED BY <1>1, <1>3, RequestFrames

\* Functions that make a string of a buffer; the stack may have been rewritten.
LEMMA BufferFrames ==
  ASSUME Frames, pc = "run", running = "program",
         NEW f \in the_buffer \cup arg_and_buffer, NEW type, NEW len, NEW cells,
         cells = IF f \in the_buffer THEN <<buffer>> ELSE <<arg_cell(1), buffer>>,
         request(f, type, len), extra' = pushed_roots(cells),
         UNCHANGED <<running, exit>>, Frame', Len(stack') = Len(stack),
         f \in {"LgetEnv", "Lclone_string", "Lstring", "Lstringcat"} => arguments(1),
         f = "Lsprintf" => /\ "Lsprintf_n" \in DOMAIN locals'
                           /\ locals'.Lsprintf_n \in Nat /\ arguments(locals'.Lsprintf_n + 1)
  PROVE  Frames'
<1>1. \A n : arguments(n)' = arguments(n) /\ arg_cell(n)' = arg_cell(n)
  BY DEF arguments, arg_cell
<1>2. ASSUME \A ops : called(ops)' <=> f \in ops, req'.op = f, req'.len = len,
             extra' = <<sysargs>> \o cells
      PROVE  CallPool' /\ Arguments'
  <2>1. extra' = IF f \in the_buffer THEN <<sysargs, buffer>> ELSE <<sysargs, arg_cell(1), buffer>>
    BY <1>2, Concatenated
  <2>2. CallPool'
    BY <1>1, <1>2, <2>1 DEF CallPool, no_cells, one_arg, two_args, the_buffer, arg_and_buffer,
       sysargs, buffer, local_cell
  <2>3. Arguments'
    BY <1>1, <1>2 DEF Arguments, the_buffer, arg_and_buffer, two_args
  <2> QED BY <2>2, <2>3
<1> QED BY <1>2, RequestFrames

\* Those that leave the stack alone, which is all but Lsprintf.
LEMMA BstringFrames ==
  ASSUME Frames, pc = "run", running = "program",
         NEW f \in the_buffer \cup (arg_and_buffer \ {"Lsprintf"}),
         NEW type, NEW len, NEW ls, NEW cells,
         cells = IF f \in the_buffer THEN <<buffer>> ELSE <<arg_cell(1), buffer>>,
         enter(f, type, len, cells, ls),
         f \in {"LgetEnv", "Lclone_string", "Lstring", "Lstringcat"} => arguments(1)
  PROVE  Frames'
<1>1. Len(cells) \in {0, 1, 2}
  OBVIOUS
<1>2. /\ request(f, type, len) /\ extra' = pushed_roots(cells)
      /\ UNCHANGED <<stack, running, exit>> /\ Frame'
  BY <1>1, Entered
<1>3. f # "Lsprintf"
  BY DEF the_buffer
<1> QED BY <1>2, <1>3, BufferFrames

LEMMA BstringCalled ==
  ASSUME Frames, pc = "run", running = "program",
         NEW f \in {"Bstring", "LgetEnv", "LreadLine", "Lstring", "Lstringcat"},
         NEW s, NEW cells, cells = IF f \in the_buffer THEN << >> ELSE <<arg_cell(1)>>,
         bstring(f, s, cells, << >>),
         f \in {"LgetEnv", "Lstring", "Lstringcat"} => arguments(1)
  PROVE  Frames'
<1> PICK all : all = cells \o <<buffer>>
  OBVIOUS
<1>1. all = IF f \in the_buffer THEN <<buffer>> ELSE <<arg_cell(1), buffer>>
  BY Concatenated
<1>2. PICK len, ls : enter(f, "STRING", len, cells \o <<buffer>>, ls)
  BY DEF bstring, buffer
<1>3. enter(f, "STRING", len, all, ls)
  BY <1>2 DEF enter
<1> QED BY <1>1, <1>3, BstringFrames DEF the_buffer, arg_and_buffer

\* Lsprintf rewrites its arguments before the string is made.
LEMMA LsprintfFrames == ASSUME Frames, Lsprintf PROVE Frames'
<1>1. PICK n \in 0 .. MaxLen :
        \E s \in Strings :
          LET cells == <<arg_cell(1), local_cell("Bstring_p")>> IN
          /\ program("Lsprintf", n + 1) /\ is_string(arg(1))
          /\ IF pool_overflow(cells) THEN stop("Lsprintf", "pool overflow")
             ELSE /\ request("Lsprintf", "STRING", Len(s))
                  /\ stack' = fix_unboxed(n)
                  /\ extra' = pushed_roots(cells)
                  /\ locals' = with_locals([Bstring_p |-> foreign_addr, Lsprintf_n |-> n])
                  /\ UNCHANGED <<statics, running, exit>>
  BY DEF Lsprintf
<1> PICK cells : cells = <<arg_cell(1), buffer>>
  OBVIOUS
<1>2. PICK s \in Strings :
          /\ program("Lsprintf", n + 1)
          /\ IF pool_overflow(cells) THEN stop("Lsprintf", "pool overflow")
             ELSE /\ request("Lsprintf", "STRING", Len(s))
                  /\ stack' = fix_unboxed(n)
                  /\ extra' = pushed_roots(cells)
                  /\ locals' = with_locals([Bstring_p |-> foreign_addr, Lsprintf_n |-> n])
                  /\ UNCHANGED <<statics, running, exit>>
  BY <1>1 DEF buffer
<1>3. n \in Nat /\ pc = "run" /\ running = "program" /\ arguments(n + 1)
  <2>1. program("Lsprintf", n + 1)
    BY <1>2
  <2>2. n \in Nat
    BY CallsAssumption
  <2> QED BY <2>1, <2>2 DEF program, arguments
<1>4. ~pool_overflow(cells)
  <2>1. Len(cells) \in {0, 1, 2}
    OBVIOUS
  <2> QED BY <1>3, <2>1, RoomForTwo
<1>5. "Lsprintf_n" \in DOMAIN locals' /\ locals'.Lsprintf_n = n
  BY <1>2, <1>4 DEF with_locals
<1>6. \E e : stack' = [i \in DOMAIN stack |-> e[i]]
  <2>1. stack' = fix_unboxed(n)
    BY <1>2, <1>4
  <2>2. stack' = [i \in DOMAIN stack |-> stack'[i]]
    BY <2>1 DEF fix_unboxed
  <2> QED BY <2>2
<1>7. Frame'
  BY <1>3, <1>6, FrameKept DEF Frames
<1>8. Len(stack') = Len(stack)
  <2>1. DOMAIN stack' = DOMAIN stack
    BY <1>6
  <2> QED BY <1>7, <2>1, SameLength DEF Frames, Frame
<1> QED BY <1>2, <1>3, <1>4, <1>5, <1>7, <1>8, BufferFrames DEF the_buffer, arg_and_buffer

\* Bclosure registers a cell for each captured variable, or overflows.
LEMMA BclosureFrames == ASSUME Frames, Bclosure PROVE Frames'
<1>1. PICK n \in 0 .. MaxLen :
        program("Bclosure", n) /\ enter("Bclosure", "CLOSURE", n + 1, captured_cells(n), << >>)
  BY DEF Bclosure
<1>2. n \in Nat /\ pc = "run" /\ running = "program" /\ arguments(n)
  BY <1>1, CallsAssumption DEF program, arguments
<1> PICK cells : cells = captured_cells(n)
  OBVIOUS
<1> PICK len : len = n + 1
  OBVIOUS
<1>3. CASE pool_overflow(cells)
  BY <1>1, <1>3, StopFrames DEF enter
<1>4. CASE ~pool_overflow(cells)
  <2>1. /\ request("Bclosure", "CLOSURE", len) /\ extra' = pushed_roots(cells)
        /\ UNCHANGED <<stack, running, exit>> /\ Frame'
    BY <1>1, <1>4 DEF enter, Frames, Frame
  <2>2. len \in Nat /\ len >= 1 /\ len - 1 = n
    BY <1>2
  <2>3. arguments(n)' = arguments(n) /\ captured_cells(n)' = cells
    BY <2>1 DEF arguments, captured_cells, captured_cell
  <2>4. ASSUME \A ops : called(ops)' <=> "Bclosure" \in ops, req'.op = "Bclosure", req'.len = len,
               extra' = <<sysargs>> \o cells
        PROVE  CallPool' /\ Arguments'
    <3>1. CallPool'
      BY <2>2, <2>3, <2>4 DEF CallPool, no_cells, one_arg, two_args, the_buffer, arg_and_buffer,
         sysargs, local_cell
    <3>2. Arguments'
      BY <1>2, <2>2, <2>3, <2>4 DEF Arguments, two_args
    <3> QED BY <3>1, <3>2
  <2> QED BY <1>2, <2>1, <2>4, RequestFrames
<1> QED BY <1>3, <1>4

LEMMA FailureFrames == ASSUME Frames, NEW f, stop(f, "failure") PROVE Frames'
BY StopFrames

\* The operands of a step of the program are above its frame.
LEMMA InProgram ==
  ASSUME NEW op, NEW n, program(op, n) PROVE pc = "run" /\ running = "program" /\ arguments(n)
BY DEF program, arguments

LEMMA EnterFrames == ASSUME Frames, Enter PROVE Frames'
<1>1. CASE LmakeArray_fail \/ LmakeString_fail \/ Li__Infix_4343_fail \/ Lsubstring_fail
           \/ Lsprintf_fail \/ Lfread_fail
  BY <1>1, FailureFrames DEF LmakeArray_fail, LmakeString_fail, Li__Infix_4343_fail,
     Lsubstring_fail, Lsprintf_fail, Lfread_fail
<1>2. CASE LmakeArray
  <2>1. PICK len : program("LmakeArray", 1) /\ enter("LmakeArray", "ARRAY", len, << >>, << >>)
    BY <1>2 DEF LmakeArray
  <2> QED BY <2>1, InProgram, NoCellsFrames DEF no_cells
<1>3. CASE LmakeString
  <2>1. PICK len : program("LmakeString", 1) /\ enter("LmakeString", "STRING", len, << >>, << >>)
    BY <1>3 DEF LmakeString
  <2> QED BY <2>1, InProgram, NoCellsFrames DEF no_cells
<1>4. CASE Barray
  <2>1. PICK n \in 0 .. MaxLen : program("Barray", n) /\ enter("Barray", "ARRAY", n, << >>, << >>)
    BY <1>4 DEF Barray
  <2>2. n \in Nat
    BY CallsAssumption
  <2> QED BY <2>1, <2>2, InProgram, NoCellsFrames DEF no_cells
<1>5. CASE Bsexp
  <2>1. PICK n \in 0 .. MaxLen : program("Bsexp", n) /\ enter("Bsexp", "SEXP", n, << >>, << >>)
    BY <1>5 DEF Bsexp
  <2>2. n \in Nat
    BY CallsAssumption
  <2> QED BY <2>1, <2>2, InProgram, NoCellsFrames DEF no_cells
<1>6. CASE Bclosure
  BY <1>6, BclosureFrames
<1>7. CASE Ls__Infix_58
  <2>1. PICK ls : /\ program("Ls__Infix_58", 2)
                  /\ enter("Ls__Infix_58", "SEXP", 2, <<arg_cell(1), arg_cell(2)>>, ls)
    BY <1>7 DEF Ls__Infix_58
  <2> QED BY <2>1, InProgram, ArgCellsFrames DEF one_arg, two_args
<1>8. CASE Lclone
  <2>1. PICK type, len : program("Lclone", 1) /\ enter("Lclone", type, len, <<arg_cell(1)>>, << >>)
    BY <1>8 DEF Lclone
  <2> QED BY <2>1, InProgram, ArgCellsFrames DEF one_arg, two_args
<1>9. CASE Lclone_string
  <2>1. PICK len, ls : /\ program("Lclone", 1)
                       /\ enter("Lclone_string", "STRING", len, <<arg_cell(1), buffer>>, ls)
    BY <1>9 DEF Lclone_string, buffer
  <2> QED BY <2>1, InProgram, BstringFrames DEF the_buffer, arg_and_buffer
<1>10. CASE Lclone_unboxed
  BY <1>10, InProgram, ProgramFrames DEF Lclone_unboxed, returns
<1>11. CASE Li__Infix_4343
  <2>1. PICK len : /\ program("Li__Infix_4343", 2)
                   /\ enter("Li__Infix_4343", "STRING", len, <<arg_cell(1), arg_cell(2)>>, << >>)
    BY <1>11 DEF Li__Infix_4343
  <2> QED BY <2>1, InProgram, ArgCellsFrames DEF one_arg, two_args
<1>12. CASE Lsubstring
  <2>1. PICK len : /\ program("Lsubstring", 3)
                   /\ enter("Lsubstring", "STRING", len, <<arg_cell(1)>>, << >>)
    BY <1>12 DEF Lsubstring
  <2> QED BY <2>1, InProgram, ArgCellsFrames DEF one_arg, two_args
<1>13. CASE Bstring
  BY <1>13, InProgram, BstringCalled DEF Bstring, the_buffer
<1>14. CASE LgetEnv
  <2>1. program("LgetEnv", 1) /\ pc = "run" /\ running = "program" /\ arguments(1)
    BY <1>14, InProgram DEF LgetEnv
  <2>2. CASE \E s \in Strings : bstring("LgetEnv", s, << >>, << >>)
    BY <2>1, <2>2, BstringCalled DEF the_buffer
  <2>3. CASE returns(BOX(0), 1)
    BY <2>1, <2>3, ProgramFrames DEF returns
  <2> QED BY <1>14, <2>2, <2>3 DEF LgetEnv
<1>15. CASE LreadLine
  <2>1. program("LreadLine", 0) /\ pc = "run" /\ running = "program" /\ arguments(0)
    BY <1>15, InProgram DEF LreadLine
  <2>2. CASE \E s \in Strings \ {<< >>} : bstring("LreadLine", s, << >>, << >>)
    BY <2>1, <2>2, BstringCalled DEF the_buffer
  <2>3. CASE returns(BOX(0), 0)
    BY <2>1, <2>3, ProgramFrames DEF returns
  <2>4. CASE stop("LreadLine", "failure")
    BY <2>4, FailureFrames
  <2> QED BY <1>15, <2>2, <2>3, <2>4 DEF LreadLine
<1>16. CASE Lstring
  BY <1>16, InProgram, BstringCalled DEF Lstring, the_buffer
<1>17. CASE Lstringcat
  BY <1>17, InProgram, BstringCalled DEF Lstringcat, the_buffer
<1>18. CASE Lsprintf
  BY <1>18, LsprintfFrames
<1>19. CASE Lfread
  <2>1. program("Lfread", 1)
    BY <1>19 DEF Lfread
  <2>2. ASSUME NEW s \in Strings, enter("Lfread", "STRING", Len(s), << >>, << >>) PROVE Frames'
    <3> PICK len : len = Len(s)
      OBVIOUS
    <3>1. enter("Lfread", "STRING", len, << >>, << >>)
      BY <2>2
    <3> QED BY <2>1, <3>1, InProgram, NoCellsFrames DEF no_cells
  <2>3. CASE stop("Lfread", "failure")
    BY <2>3, FailureFrames
  <2> QED BY <1>19, <2>2, <2>3 DEF Lfread
<1> QED BY <1>1, <1>2, <1>3, <1>4, <1>5, <1>6, <1>7, <1>8, <1>9, <1>10, <1>11, <1>12, <1>13,
           <1>14, <1>15, <1>16, <1>17, <1>18, <1>19 DEF Enter

-------------------------------------------------------------------------------
(* Returns *)

\* pop_extra_root finds the cells on top of global_sysargs in the order given.
LEMMA FirstCell ==
  ASSUME NEW S, NEW e \in Seq(S), Len(e) >= 1
  PROVE  SubSeq(e, 1, 1) = <<e[1]>>
<1> PICK a : a = e[1]
  OBVIOUS
<1>1. a \in S
  OBVIOUS
<1>2. /\ SubSeq(e, 1, 1) \in Seq(S) /\ Len(SubSeq(e, 1, 1)) = 1
      /\ SubSeq(e, 1, 1)[1] = e[1]
  BY SubSeqProperties
<1>3. <<a>> \in Seq(S) /\ Len(<<a>>) = 1 /\ <<a>>[1] = a
  BY <1>1
<1>4. \A i \in 1 .. 1 : SubSeq(e, 1, 1)[i] = <<a>>[i]
  BY <1>2, <1>3
<1> QED BY <1>2, <1>3, <1>4, SeqEqual

LEMMA NothingPopped ==
  ASSUME NEW a, extra = <<a>> PROVE pops_match(<< >>) /\ popped_roots(<< >>) = <<a>>
<1>1. extra \in Seq({a}) /\ Len(extra) = 1 /\ extra[1] = a
  OBVIOUS
<1>2. Len(<< >>) = 0 /\ DOMAIN << >> = {}
  OBVIOUS
<1>3. popped_roots(<< >>) = SubSeq(extra, 1, 1)
  BY <1>1, <1>2 DEF popped_roots
<1>4. SubSeq(extra, 1, 1) = <<a>>
  <2>1. Len(extra) >= 1
    BY <1>1
  <2> QED BY <1>1, <2>1, FirstCell
<1> QED BY <1>1, <1>2, <1>3, <1>4 DEF pops_match

LEMMA OnePopped ==
  ASSUME NEW a, NEW b, extra = <<a, b>> PROVE pops_match(<<b>>) /\ popped_roots(<<b>>) = <<a>>
<1>1. extra \in Seq({a, b}) /\ Len(extra) = 2 /\ extra[1] = a /\ extra[2] = b
  OBVIOUS
<1> PICK pops : pops = <<b>>
  OBVIOUS
<1>2. Len(pops) = 1 /\ DOMAIN pops = 1 .. 1 /\ pops[1] = b
  OBVIOUS
<1>3. popped_roots(pops) = SubSeq(extra, 1, 1)
  BY <1>1, <1>2 DEF popped_roots
<1>4. SubSeq(extra, 1, 1) = <<a>>
  <2>1. Len(extra) >= 1
    BY <1>1
  <2> QED BY <1>1, <2>1, FirstCell
<1>5. pops_match(pops)
  BY <1>1, <1>2 DEF pops_match
<1> QED BY <1>3, <1>4, <1>5

LEMMA TwoPopped ==
  ASSUME NEW a, NEW b, NEW c, extra = <<a, b, c>>
  PROVE  pops_match(<<c, b>>) /\ popped_roots(<<c, b>>) = <<a>>
<1>1. /\ extra \in Seq({a, b, c}) /\ Len(extra) = 3
      /\ extra[1] = a /\ extra[2] = b /\ extra[3] = c
  OBVIOUS
<1> PICK pops : pops = <<c, b>>
  OBVIOUS
<1>2. Len(pops) = 2 /\ DOMAIN pops = 1 .. 2 /\ pops[1] = c /\ pops[2] = b
  OBVIOUS
<1>3. popped_roots(pops) = SubSeq(extra, 1, 1)
  BY <1>1, <1>2 DEF popped_roots
<1>4. SubSeq(extra, 1, 1) = <<a>>
  <2>1. Len(extra) >= 1
    BY <1>1
  <2> QED BY <1>1, <2>1, FirstCell
<1>5. \A i \in 1 .. 2 : i = 1 \/ i = 2
  OBVIOUS
<1>6. pops_match(pops)
  BY <1>1, <1>2, <1>5 DEF pops_match
<1> QED BY <1>3, <1>4, <1>6

\* Bclosure pops its cells from the last to the first.
LEMMA CapturedPopped ==
  ASSUME NEW a, NEW n \in Nat, extra = <<a>> \o captured_cells(n)
  PROVE  pops_match(captured_cells_popped(n)) /\ popped_roots(captured_cells_popped(n)) = <<a>>
<1> PICK S : S = {captured_cell(k) : k \in 1 .. n} \cup {a}
  OBVIOUS
<1> PICK c : c = captured_cells(n)
  OBVIOUS
<1> PICK p : p = captured_cells_popped(n)
  OBVIOUS
<1> PICK s : s = <<a>>
  OBVIOUS
<1>1. c \in Seq(S) /\ Len(c) = n
  <2>1. c = [k \in 1 .. n |-> c[k]] /\ \A k \in 1 .. n : c[k] \in S
    BY DEF captured_cells
  <2> QED BY <2>1, FunctionIsSeq
<1>2. p \in Seq(S) /\ Len(p) = n
  <2>1. \A k \in 1 .. n : n + 1 - k \in 1 .. n
    OBVIOUS
  <2>2. p = [k \in 1 .. n |-> p[k]]
    BY DEF captured_cells_popped
  <2>3. \A k \in 1 .. n : p[k] \in S
    BY <2>1 DEF captured_cells_popped
  <2> QED BY ONLY <2>2, <2>3, n \in Nat, FunctionIsSeq
<1>3. s \in Seq(S) /\ Len(s) = 1 /\ s[1] = a
  OBVIOUS
<1>4. extra \in Seq(S) /\ Len(extra) = n + 1
      /\ \A i \in 1 .. n + 1 : extra[i] = IF i <= 1 THEN s[i] ELSE c[i - 1]
  <2>1. s \o c \in Seq(S) /\ Len(s \o c) = Len(s) + Len(c)
        /\ \A i \in 1 .. Len(s) + Len(c) : (s \o c)[i] = IF i <= Len(s) THEN s[i] ELSE c[i - Len(s)]
    BY <1>1, <1>3, ConcatProperties
  <2>2. Len(s) + Len(c) = n + 1
    BY <1>1, <1>3
  <2> QED BY <1>3, <2>1, <2>2
<1>5. ASSUME NEW i \in 1 .. n PROVE extra[n + 1 + 1 - i] = p[i]
  <2>1. n + 1 + 1 - i \in 1 .. n + 1 /\ n + 1 + 1 - i > 1 /\ n + 1 + 1 - i - 1 = n + 1 - i
        /\ n + 1 - i \in 1 .. n
    OBVIOUS
  <2>2. extra[n + 1 + 1 - i] = c[n + 1 - i]
    BY <1>4, <2>1
  <2>3. c[n + 1 - i] = captured_cell(n + 1 - i)
    BY <2>1 DEF captured_cells
  <2> QED BY <2>2, <2>3 DEF captured_cells_popped
<1>6. pops_match(p)
  <2>1. DOMAIN p = 1 .. n /\ n <= n + 1
    BY <1>2
  <2> QED BY <1>2, <1>4, <1>5, <2>1 DEF pops_match
<1>7. popped_roots(p) = <<a>>
  <2>1. popped_roots(p) = SubSeq(extra, 1, 1)
    BY <1>2, <1>4 DEF popped_roots
  <2>2. extra[1] = a /\ Len(extra) >= 1
    BY <1>3, <1>4
  <2>3. SubSeq(extra, 1, 1) = <<extra[1]>>
    BY <1>4, <2>2, FirstCell
  <2> QED BY <2>1, <2>2, <2>3
<1> QED BY <1>6, <1>7

\* A function of the program that returns was called by it.
LEMMA WasCalled ==
  ASSUME Frames, NEW f, f \notin {"set_args", "set_args_bstring"},
         pc \in {"alloc", "retry"}, req.op = f
  PROVE  called({f})
<1>1. in_call /\ running \in {"start", "set_args", "program"} /\ running # "start"
  BY DEF in_call, Frames, Ends, Pool
<1>2. running # "set_args"
  BY <1>1 DEF Frames, SetArgsPool
<1> QED BY <1>1, <1>2 DEF called

LEMMA LeaveFrames ==
  ASSUME Frames, NEW f, f \notin {"set_args", "set_args_bstring"},
         NEW o, NEW n, NEW pops, leave(f, o, n, pops),
         called({f}) =>
           pops_match(pops) /\ popped_roots(pops) = <<sysargs>> /\ n \in Nat /\ arguments(n)
  PROVE  Frames'
<1>1. pc \in {"alloc", "retry"} /\ req.op = f
  BY DEF leave, leave_with
<1>2. called({f})
  BY <1>1, WasCalled
<1> PICK v : v = new_address
  OBVIOUS
<1>3. /\ place_object(o) /\ stack' = push(popped(n), v) /\ extra' = <<sysargs>>
      /\ UNCHANGED <<running, exit>> /\ running = "program"
  BY <1>2 DEF leave, leave_with, called
<1>4. pc' = "run" /\ gc' = no_locals /\ ~in_call'
  BY <1>3 DEF place_object, in_call
<1>5. Frame'
  BY <1>2, <1>3, FrameKept DEF Frames
<1>6. Ends' /\ Pool' /\ PoolLoop'
  BY <1>1, <1>3, <1>4 DEF Frames, Ends, Pool, PoolLoop, in_call, sysargs, local_cell, no_locals
<1>7. SetArgsPool' /\ CallPool' /\ Arguments'
  BY <1>4 DEF SetArgsPool, CallPool, Arguments, called
<1> QED BY <1>5, <1>6, <1>7 DEF Frames

\* What each class of functions has to pop.
LEMMA Popped ==
  ASSUME Frames, NEW f, called({f})
  PROVE  /\ f \in no_cells => pops_match(<< >>) /\ popped_roots(<< >>) = <<sysargs>>
         /\ f \in one_arg => /\ pops_match(<<arg_cell(1)>>)
                             /\ popped_roots(<<arg_cell(1)>>) = <<sysargs>>
         /\ f \in two_args => /\ pops_match(<<arg_cell(2), arg_cell(1)>>)
                              /\ popped_roots(<<arg_cell(2), arg_cell(1)>>) = <<sysargs>>
         /\ f \in the_buffer => pops_match(<<buffer>>) /\ popped_roots(<<buffer>>) = <<sysargs>>
         /\ f \in arg_and_buffer => /\ pops_match(<<buffer, arg_cell(1)>>)
                                    /\ popped_roots(<<buffer, arg_cell(1)>>) = <<sysargs>>
<1>1. \A ops : f \in ops => called(ops)
  BY DEF called
<1>2. f \in no_cells => extra = <<sysargs>>
  BY <1>1 DEF Frames, CallPool
<1>3. f \in one_arg => extra = <<sysargs, arg_cell(1)>>
  BY <1>1 DEF Frames, CallPool
<1>4. f \in two_args => extra = <<sysargs, arg_cell(1), arg_cell(2)>>
  BY <1>1 DEF Frames, CallPool
<1>5. f \in the_buffer => extra = <<sysargs, buffer>>
  BY <1>1 DEF Frames, CallPool
<1>6. f \in arg_and_buffer => extra = <<sysargs, arg_cell(1), buffer>>
  BY <1>1 DEF Frames, CallPool
<1> PICK s, b, c, d : s = sysargs /\ b = buffer /\ c = arg_cell(1) /\ d = arg_cell(2)
  OBVIOUS
<1> QED BY <1>2, <1>3, <1>4, <1>5, <1>6, NothingPopped, OnePopped, TwoPopped

\* Functions that make a string of a buffer pop it before their argument.
LEMMA BstringLeft ==
  ASSUME Frames,
         NEW f \in {"Bstring", "LgetEnv", "LreadLine", "Lstring", "Lstringcat", "Lsprintf"},
         NEW n, NEW pops, pops = IF f \in the_buffer THEN << >> ELSE <<arg_cell(1)>>,
         bstring_leave(f, n, pops), called({f}) => n \in Nat /\ arguments(n)
  PROVE  Frames'
<1> PICK all : all = <<buffer>> \o pops
  OBVIOUS
<1>1. all = IF f \in the_buffer THEN <<buffer>> ELSE <<buffer, arg_cell(1)>>
  BY Concatenated
<1>2. PICK s \in Texts : leave(f, new_object(s), n, <<buffer>> \o pops)
  BY DEF bstring_leave, buffer
<1> PICK o : o = new_object(s)
  OBVIOUS
<1>3. leave(f, o, n, all)
  BY <1>2 DEF leave, leave_with
<1>4. called({f}) => pops_match(all) /\ popped_roots(all) = <<sysargs>>
  BY <1>1, Popped DEF the_buffer, arg_and_buffer
<1> QED BY <1>3, <1>4, LeaveFrames

LEMMA BclosureLeft == ASSUME Frames, Bclosure_return PROVE Frames'
<1> PICK n : n = req.len - 1
  OBVIOUS
<1> PICK o, pops : /\ o = new_object(<<raw_word>> \o members(n))
                   /\ pops = captured_cells_popped(n)
  OBVIOUS
<1>1. leave("Bclosure", o, n, pops)
  BY DEF Bclosure_return, leave, leave_with
<1>2. ASSUME called({"Bclosure"})
      PROVE  pops_match(pops) /\ popped_roots(pops) = <<sysargs>> /\ n \in Nat /\ arguments(n)
  <2>1. req.len \in Nat /\ req.len >= 1 /\ extra = <<sysargs>> \o captured_cells(n)
    BY <1>2 DEF Frames, CallPool
  <2>2. n \in Nat /\ arguments(n)
    BY <1>2, <2>1 DEF Frames, Arguments
  <2> PICK a : a = sysargs
    OBVIOUS
  <2> QED BY <2>1, <2>2, CapturedPopped
<1> QED BY <1>1, <1>2, LeaveFrames

\* Returns the sort of object and the cells of which are plain.
LEMMA LeaveStepFrames == ASSUME Frames, Leave PROVE Frames'
<1>1. CASE LmakeArray_return
  <2>1. PICK o : leave("LmakeArray", o, 1, << >>)
    BY <1>1 DEF LmakeArray_return
  <2>2. called({"LmakeArray"}) => arguments(1)
    BY DEF Frames, Arguments, called
  <2> QED BY <2>1, <2>2, Popped, LeaveFrames DEF no_cells
<1>2. CASE LmakeString_return
  <2>1. PICK o : leave("LmakeString", o, 1, << >>)
    BY <1>2 DEF LmakeString_return
  <2>2. called({"LmakeString"}) => arguments(1)
    BY DEF Frames, Arguments, called
  <2> QED BY <2>1, <2>2, Popped, LeaveFrames DEF no_cells
<1>3. CASE Barray_return
  <2> PICK n : n = req.len
    OBVIOUS
  <2>1. PICK o : leave("Barray", o, n, << >>)
    BY <1>3 DEF Barray_return, leave, leave_with
  <2>2. called({"Barray"}) => n \in Nat /\ arguments(n)
    BY DEF Frames, Arguments, called
  <2> QED BY <2>1, <2>2, Popped, LeaveFrames DEF no_cells
<1>4. CASE Bsexp_return
  <2> PICK n : n = req.len
    OBVIOUS
  <2>1. PICK o : leave("Bsexp", o, n, << >>)
    BY <1>4 DEF Bsexp_return, leave, leave_with
  <2>2. called({"Bsexp"}) => n \in Nat /\ arguments(n)
    BY DEF Frames, Arguments, called
  <2> QED BY <2>1, <2>2, Popped, LeaveFrames DEF no_cells
<1>5. CASE Bclosure_return
  BY <1>5, BclosureLeft
<1>6. CASE Bclosure_overflow
  BY <1>6, StopFrames DEF Bclosure_overflow
<1>7. CASE Ls__Infix_58_return
  <2>1. PICK o : leave("Ls__Infix_58", o, 2, <<arg_cell(2), arg_cell(1)>>)
    BY <1>7 DEF Ls__Infix_58_return
  <2>2. called({"Ls__Infix_58"}) => arguments(2)
    BY DEF Frames, Arguments, called, two_args
  <2>3. called({"Ls__Infix_58"}) => /\ pops_match(<<arg_cell(2), arg_cell(1)>>)
                                    /\ popped_roots(<<arg_cell(2), arg_cell(1)>>) = <<sysargs>>
    BY Popped DEF two_args
  <2> QED BY <2>1, <2>2, <2>3, LeaveFrames
<1>8. CASE Lclone_return
  <2>1. PICK o : leave("Lclone", o, 1, <<arg_cell(1)>>)
    BY <1>8 DEF Lclone_return
  <2>2. called({"Lclone"}) => arguments(1)
    BY DEF Frames, Arguments, called
  <2>3. called({"Lclone"}) => /\ pops_match(<<arg_cell(1)>>)
                              /\ popped_roots(<<arg_cell(1)>>) = <<sysargs>>
    BY Popped DEF one_arg
  <2> QED BY <2>1, <2>2, <2>3, LeaveFrames
<1>9. CASE Lclone_string_return
  <2>1. PICK o : leave("Lclone_string", o, 1, <<buffer, arg_cell(1)>>)
    BY <1>9 DEF Lclone_string_return, buffer
  <2>2. called({"Lclone_string"}) => arguments(1)
    BY DEF Frames, Arguments, called
  <2>3. called({"Lclone_string"}) => /\ pops_match(<<buffer, arg_cell(1)>>)
                                     /\ popped_roots(<<buffer, arg_cell(1)>>) = <<sysargs>>
    BY Popped DEF arg_and_buffer
  <2> QED BY <2>1, <2>2, <2>3, LeaveFrames
<1>10. CASE Li__Infix_4343_return
  <2>1. PICK o : leave("Li__Infix_4343", o, 2, <<arg_cell(2), arg_cell(1)>>)
    BY <1>10 DEF Li__Infix_4343_return, pops_of_4343
  <2>2. called({"Li__Infix_4343"}) => arguments(2)
    BY DEF Frames, Arguments, called, two_args
  <2>3. called({"Li__Infix_4343"}) => /\ pops_match(<<arg_cell(2), arg_cell(1)>>)
                                      /\ popped_roots(<<arg_cell(2), arg_cell(1)>>) = <<sysargs>>
    BY Popped DEF two_args
  <2> QED BY <2>1, <2>2, <2>3, LeaveFrames
<1>11. CASE Lsubstring_return
  <2>1. PICK o : leave("Lsubstring", o, 3, <<arg_cell(1)>>)
    BY <1>11 DEF Lsubstring_return
  <2>2. called({"Lsubstring"}) => arguments(3)
    BY DEF Frames, Arguments, called
  <2>3. called({"Lsubstring"}) => /\ pops_match(<<arg_cell(1)>>)
                                  /\ popped_roots(<<arg_cell(1)>>) = <<sysargs>>
    BY Popped DEF one_arg
  <2> QED BY <2>1, <2>2, <2>3, LeaveFrames
<1>12. CASE Bstring_return
  <2>1. called({"Bstring"}) => 0 \in Nat /\ arguments(0)
    BY CallsAssumption DEF Frames, Frame, arguments
  <2> QED BY <1>12, <2>1, BstringLeft DEF Bstring_return, the_buffer
<1>13. CASE LreadLine_return
  <2>1. called({"LreadLine"}) => 0 \in Nat /\ arguments(0)
    BY CallsAssumption DEF Frames, Frame, arguments
  <2> QED BY <1>13, <2>1, BstringLeft DEF LreadLine_return, the_buffer
<1>14. CASE LgetEnv_return
  <2>1. called({"LgetEnv"}) => arguments(1)
    BY DEF Frames, Arguments, called
  <2> QED BY <1>14, <2>1, BstringLeft DEF LgetEnv_return, the_buffer
<1>15. CASE Lstring_return
  <2>1. called({"Lstring"}) => arguments(1)
    BY DEF Frames, Arguments, called
  <2> QED BY <1>15, <2>1, BstringLeft DEF Lstring_return, the_buffer
<1>16. CASE Lstringcat_return
  <2>1. called({"Lstringcat"}) => arguments(1)
    BY DEF Frames, Arguments, called
  <2> QED BY <1>16, <2>1, BstringLeft DEF Lstringcat_return, the_buffer
<1>17. CASE Lsprintf_return
  <2> PICK n, pops : n = locals.Lsprintf_n + 1 /\ pops = <<arg_cell(1)>>
    OBVIOUS
  <2>1. called({"Lsprintf"}) => n \in Nat /\ arguments(n)
    BY DEF Frames, Arguments, called
  <2>2. bstring_leave("Lsprintf", n, pops)
    BY <1>17 DEF Lsprintf_return, bstring_leave, leave, leave_with
  <2> QED BY <2>1, <2>2, BstringLeft DEF the_buffer
<1>18. CASE Lfread_return
  <2>1. ASSUME NEW s \in Strings, leave("Lfread", new_object(s), 1, << >>) PROVE Frames'
    <3> PICK o : o = new_object(s)
      OBVIOUS
    <3>1. leave("Lfread", o, 1, << >>)
      BY <2>1 DEF leave, leave_with
    <3>2. called({"Lfread"}) => arguments(1)
      BY DEF Frames, Arguments, called
    <3> QED BY <3>1, <3>2, Popped, LeaveFrames DEF no_cells
  <2>2. CASE stop("Lfread", "failure")
    BY <2>2, FailureFrames
  <2> QED BY <1>18, <2>1, <2>2 DEF Lfread_return
<1> QED BY <1>1, <1>2, <1>3, <1>4, <1>5, <1>6, <1>7, <1>8, <1>9, <1>10, <1>11, <1>12, <1>13,
           <1>14, <1>15, <1>16, <1>17, <1>18 DEF Leave

-------------------------------------------------------------------------------
(* set_args *)

\* A step of set_args that leaves the code of the runtime running.
LEMMA BetweenCalls ==
  ASSUME Frames, stack' = stack, exit' = exit, pc' = "run", pc # "failed",
         \/ running' = "set_args" /\ extra' = <<set_args_cell>>
         \/ running' = "program" /\ extra' = <<sysargs>>,
         gc' = gc \/ gc' = no_locals
  PROVE  Frames'
<1>1. ~in_call'
  BY DEF in_call
<1>2. Frame' /\ Ends'
  BY <1>1 DEF Frames, Frame, Ends
<1>3. Pool' /\ PoolLoop'
  BY <1>1 DEF Frames, Pool, PoolLoop, sysargs, set_args_cell, local_cell, no_locals
<1>4. SetArgsPool' /\ CallPool' /\ Arguments'
  BY <1>1 DEF SetArgsPool, CallPool, Arguments, called
<1> QED BY <1>2, <1>3, <1>4 DEF Frames

\* And one that calls alloc.
LEMMA SetArgsCalls ==
  ASSUME Frames, stack' = stack, exit' = exit, pc = "run", pc' = "alloc", gc' = gc,
         running' = "set_args",
         \/ req'.op = "set_args" /\ extra' = << >>
         \/ req'.op = "set_args_bstring" /\ extra' = <<set_args_cell, buffer>>
  PROVE  Frames'
<1>1. Frame' /\ Ends' /\ Pool' /\ PoolLoop'
  BY DEF Frames, Frame, Ends, Pool, PoolLoop, in_call
<1>2. SetArgsPool'
  BY DEF SetArgsPool, set_args_cell, buffer, local_cell
<1>3. CallPool' /\ Arguments'
  BY DEF CallPool, Arguments, called
<1> QED BY <1>1, <1>2, <1>3 DEF Frames

LEMMA SetArgsFrames == ASSUME Frames, SetArgs PROVE Frames'
<1>1. CASE set_args
  <2>1. PICK argc \in Argc :
          /\ pc = "run" /\ running = "start" /\ request("set_args", "ARRAY", argc)
          /\ running' = "set_args" /\ UNCHANGED <<stack, statics, locals, extra, exit>>
    BY <1>1 DEF set_args
  <2>2. extra = << >>
    BY <2>1 DEF Frames, Pool
  <2> QED BY <2>1, <2>2, SetArgsCalls DEF request
<1>2. CASE set_args_array
  <2>1. /\ pc \in {"alloc", "retry"} /\ req.op = "set_args" /\ pc' = "run" /\ gc' = no_locals
        /\ extra' = pushed_roots(set_args_roots) /\ UNCHANGED <<stack, running, exit>>
    BY <1>2 DEF set_args_array, allocated, place_object
  <2>2. in_call /\ running \in {"start", "set_args", "program"} /\ running # "start"
    BY <2>1 DEF in_call, Frames, Ends, Pool
  <2>3. running # "program"
    BY <2>1, <2>2 DEF called, Frames, CallPool, no_cells, one_arg, two_args, the_buffer,
       arg_and_buffer
  <2>4. extra = << >>
    BY <2>1, <2>2, <2>3 DEF Frames, SetArgsPool
  <2>5. extra' = <<set_args_cell>>
    <3> PICK s : s = set_args_cell
      OBVIOUS
    <3>1. << >> \o <<s>> = <<s>>
      BY Concatenated
    <3> QED BY <2>1, <2>4, <3>1 DEF pushed_roots, set_args_roots, set_args_cell
  <2> QED BY <2>1, <2>2, <2>3, <2>5, BetweenCalls
<1>3. CASE set_args_bstring
  <2>1. pc = "run" /\ running = "set_args" /\ extra = <<set_args_cell>>
    BY <1>3 DEF set_args_bstring, in_loop, Frames, Pool
  <2>2. PICK len, ls : enter("set_args_bstring", "STRING", len, << >> \o <<buffer>>, ls)
    BY <1>3 DEF set_args_bstring, bstring, buffer
  <2> PICK s, b : s = set_args_cell /\ b = buffer
    OBVIOUS
  <2> PICK cells : cells = <<b>>
    OBVIOUS
  <2>3. enter("set_args_bstring", "STRING", len, cells, ls)
    <3>1. << >> \o <<b>> = <<b>>
      BY Concatenated
    <3> QED BY <2>2, <3>1 DEF enter
  <2>4. ~pool_overflow(cells)
    <3>1. Len(extra) = 1 /\ Len(cells) = 1
      BY <2>1
    <3>2. MAX_EXTRA_ROOTS_NUMBER \in Nat /\ MAX_EXTRA_ROOTS_NUMBER >= 3
      BY PoolAssumption, ThreeCellsAssumption
    <3> QED BY <3>1, <3>2 DEF pool_overflow
  <2>5. extra' = <<set_args_cell, buffer>>
    <3>1. extra' = <<s>> \o <<b>>
      BY <2>1, <2>3, <2>4 DEF enter, pushed_roots
    <3> QED BY <3>1, Concatenated
  <2>6. /\ pc' = "alloc" /\ req'.op = "set_args_bstring" /\ gc' = gc
        /\ UNCHANGED <<stack, running, exit>>
    BY <2>3, <2>4 DEF enter, request
  <2> QED BY <2>1, <2>5, <2>6, SetArgsCalls
<1>4. CASE set_args_bstring_return
  <2>1. PICK o, nl : /\ pc \in {"alloc", "retry"} /\ req.op = "set_args_bstring"
                     /\ leave_with("set_args_bstring", o, <<buffer>>, stack, nl)
    BY <1>4 DEF set_args_bstring_return, buffer
  <2>2. in_call /\ running \in {"start", "set_args", "program"} /\ running # "start"
    BY <2>1 DEF in_call, Frames, Ends, Pool
  <2>3. running # "program"
    BY <2>1, <2>2 DEF called, Frames, CallPool, no_cells, one_arg, two_args, the_buffer,
       arg_and_buffer
  <2>4. extra = <<set_args_cell, buffer>>
    BY <2>1, <2>2, <2>3 DEF Frames, SetArgsPool
  <2>5. pops_match(<<buffer>>) /\ popped_roots(<<buffer>>) = <<set_args_cell>>
    <3> PICK s, b : s = set_args_cell /\ b = buffer
      OBVIOUS
    <3> QED BY <2>4, OnePopped
  <2>6. /\ pc' = "run" /\ gc' = no_locals /\ stack' = stack /\ extra' = <<set_args_cell>>
        /\ UNCHANGED <<running, exit>>
    BY <2>1, <2>5 DEF leave_with, place_object
  <2> QED BY <2>1, <2>2, <2>3, <2>6, BetweenCalls
<1>5. CASE set_args_store
  <2>1. /\ pc = "run" /\ running = "set_args"
        /\ UNCHANGED <<stack, extra, pc, gc, running, exit>>
    BY <1>5 DEF set_args_store, in_loop
  <2>2. extra = <<set_args_cell>>
    BY <2>1 DEF Frames, Pool
  <2> QED BY <2>1, <2>2, BetweenCalls DEF set_args_cell, local_cell
<1>6. CASE set_args_done
  <2>1. pc = "run" /\ running = "set_args" /\ extra = <<set_args_cell>>
    BY <1>6 DEF set_args_done, in_loop, Frames, Pool
  <2> PICK s : s = set_args_cell
    OBVIOUS
  <2>2. pops_match(set_args_roots) /\ popped_roots(set_args_roots) = << >>
    <3>1. set_args_roots = <<s>> /\ extra = <<s>>
      BY <2>1 DEF set_args_roots, set_args_cell
    <3>2. extra \in Seq({s}) /\ Len(extra) = 1 /\ DOMAIN <<s>> = 1 .. 1 /\ Len(<<s>>) = 1
      BY <3>1
    <3>3. SubSeq(extra, 1, 0) = << >>
      BY <3>2
    <3> QED BY <3>1, <3>2, <3>3 DEF pops_match, popped_roots
  <2>3. extra' = <<sysargs>> /\ running' = "program" /\ UNCHANGED <<stack, pc, gc, exit>>
    BY <1>6, <2>2 DEF set_args_done, sysargs, local_cell
  <2> QED BY <2>1, <2>3, BetweenCalls
<1> QED BY <1>1, <1>2, <1>3, <1>4, <1>5, <1>6 DEF SetArgs

-------------------------------------------------------------------------------
(* The theorems *)

LEMMA InitFrames == ASSUME RuntimeInit PROVE Frames
<1>1. Frame
  <2> PICK s, T : s = stack /\ T = {0}
    OBVIOUS
  <2>1. FrameWords \in Nat /\ s = [i \in 1 .. FrameWords |-> 0]
    BY CallsAssumption DEF RuntimeInit
  <2>2. s = [i \in 1 .. FrameWords |-> s[i]] /\ \A i \in 1 .. FrameWords : s[i] \in T
    BY <2>1
  <2>3. s \in Seq(T) /\ Len(s) = FrameWords
    BY ONLY <2>1, <2>2, FunctionIsSeq
  <2> QED BY <2>1, <2>3 DEF Frame
<1>2. pc = "run" /\ extra = << >> /\ gc = no_locals /\ running = "start" /\ exit.why = "none"
  BY DEF RuntimeInit, GcInit
<1>3. Ends /\ Pool /\ PoolLoop
  BY <1>2 DEF Ends, Pool, PoolLoop, in_call, no_locals
<1>4. SetArgsPool /\ CallPool /\ Arguments
  BY <1>2 DEF SetArgsPool, CallPool, Arguments, called, in_call
<1> QED BY <1>1, <1>3, <1>4 DEF Frames

LEMMA StutterFrames == ASSUME Frames, UNCHANGED callVars PROVE Frames'
<1>1. UNCHANGED <<stack, locals, extra, pc, req, gc, running, exit>>
  BY DEF callVars, clientVars, gcVars
<1>2. Frame' /\ Ends' /\ Pool' /\ PoolLoop' /\ SetArgsPool'
  BY <1>1 DEF Frames, Frame, Ends, Pool, PoolLoop, SetArgsPool, in_call, sysargs, set_args_cell,
     buffer, local_cell
<1>3. /\ \A k : arg_cell(k)' = arg_cell(k)
      /\ \A n : arguments(n)' = arguments(n)
      /\ \A ops : called(ops)' = called(ops)
      /\ \A n : captured_cells(n)' = captured_cells(n)
  BY <1>1 DEF arg_cell, arguments, called, in_call, captured_cells, captured_cell
<1>4. CallPool'
  BY <1>1, <1>3 DEF Frames, CallPool, sysargs, buffer, local_cell
<1>5. Arguments'
  BY <1>1, <1>3 DEF Frames, Arguments
<1> QED BY <1>2, <1>4, <1>5 DEF Frames

LEMMA NextFrames == ASSUME Frames, [RuntimeNext]_callVars PROVE Frames'
<1>1. CASE PUSH
  <2>1. PICK n : program("PUSH", 0) /\ stack' = push(stack, BOX(n)) /\ moves
    BY <1>1 DEF PUSH
  <2> PICK v : v = BOX(n)
    OBVIOUS
  <2> QED BY <2>1, InProgram, ProgramFrames
<1>2. CASE DROP
  BY <1>2, InProgram, ProgramFrames DEF DROP
<1>3. CASE DUP
  <2> PICK v : v = operand(1)
    OBVIOUS
  <2> QED BY <1>3, InProgram, ProgramFrames DEF DUP
<1>4. CASE LOAD
  <2>1. PICK i \in DOMAIN statics : stack' = push(stack, statics[i])
    BY <1>4 DEF LOAD
  <2> PICK v : v = statics[i]
    OBVIOUS
  <2> QED BY <1>4, <2>1, InProgram, ProgramFrames DEF LOAD
<1>5. CASE STORE
  BY <1>5, InProgram, ProgramFrames DEF STORE
<1>6. CASE CollectStep /\ UNCHANGED <<running, exit>>
  BY <1>6, CollectorFrames
<1>7. CASE Exited \/ UNCHANGED callVars
  BY <1>7, StutterFrames DEF Exited
<1> QED BY <1>1, <1>2, <1>3, <1>4, <1>5, <1>6, <1>7, EnterFrames, LeaveStepFrames, SetArgsFrames
        DEF RuntimeNext, Program, Calling

LEMMA FramesImply == ASSUME Frames PROVE PoolBalanced /\ OverflowOnlyByClosures
BY DEF Frames, Ends, Pool, PoolBalanced, OverflowOnlyByClosures, sysargs

\* Whatever the program calls, in whatever order and with the collector running
\* in between, every function pops the cells that it has pushed in the order
\* that pop_extra_root checks: between calls global_sysargs alone is registered.
THEOREM PoolBalancedHolds == RuntimeSpec => []PoolBalanced
<1>1. RuntimeInit => Frames
  BY InitFrames
<1>2. Frames /\ [RuntimeNext]_callVars => Frames'
  BY NextFrames
<1>3. Frames => PoolBalanced
  BY FramesImply
<1> QED BY <1>1, <1>2, <1>3, PTL DEF RuntimeSpec

\* A pool of three cells is enough for every function of the runtime but
\* Bclosure: no other can stop the program with an overflow of the pool.
THEOREM OverflowOnlyByClosuresHolds == RuntimeSpec => []OverflowOnlyByClosures
<1>1. RuntimeInit => Frames
  BY InitFrames
<1>2. Frames /\ [RuntimeNext]_callVars => Frames'
  BY NextFrames
<1>3. Frames => OverflowOnlyByClosures
  BY FramesImply
<1> QED BY <1>1, <1>2, <1>3, PTL DEF RuntimeSpec

-------------------------------------------------------------------------------
(* The heap under the runtime functions *)

\* Ls__Infix_58 hands copies of its arguments to Bsexp, which the collector does
\* not know, and Lsprintf leaves raw integers where it scans.
ProperCalls == {"Ls__Infix_58", "Lsprintf"} \cap Calls = {}

HeapInv == Structure /\ Soundness /\ Reached /\ Identity

\* What the program sees of an argument and of a registered cell.
shown_arg(k)     == shown_roots[Len(statics) + Len(stack) + 1 - k]
shown_cell(j)    == shown_roots[Len(statics) + Len(stack) + j]
refers(v)        == v[1] = "ref" /\ v[2] \in DOMAIN shown_graph
shown_object(v)  == shown_graph[v[2]]
string_shown(v)  == refers(v) /\ shown_object(v).type = "STRING"
text_length(w)   == Cardinality({i \in DOMAIN w : \A j \in 1 .. i : w[j] # <<"word", 0>>})
text_of(v)       == text_length(shown_object(v).words)
integer_shown(v, n) == v = <<"word", BOX(n)>>

\* What a function asks alloc for, in terms of its arguments when it was called.
Requested ==
  /\ ~called({"Ls__Infix_58", "Lsprintf"})
  /\ called({"LmakeArray"}) => req.type = "ARRAY" /\ integer_shown(shown_arg(1), req.len)
  /\ called({"LmakeString"}) => req.type = "STRING" /\ integer_shown(shown_arg(1), req.len)
  /\ called({"Barray"}) => req.type = "ARRAY"
  /\ called({"Bsexp"}) => req.type = "SEXP"
  /\ called({"Bclosure"}) => req.type = "CLOSURE"
  /\ called({"Lclone"}) => /\ refers(shown_arg(1)) /\ req.type # "STRING"
                           /\ req.type = shown_object(shown_arg(1)).type
                           /\ req.len = shown_object(shown_arg(1)).len
  /\ called({"Lclone_string"}) =>
       /\ req.type = "STRING" /\ string_shown(shown_arg(1)) /\ shown_cell(3) = shown_arg(1)
       /\ req.len = text_of(shown_arg(1))
  /\ called({"Li__Infix_4343"}) =>
       /\ req.type = "STRING" /\ string_shown(shown_arg(1)) /\ string_shown(shown_arg(2))
       /\ req.len = shown_object(shown_arg(1)).len + shown_object(shown_arg(2)).len
  /\ called({"Lsubstring"}) =>
       /\ req.type = "STRING" /\ string_shown(shown_arg(1)) /\ integer_shown(shown_arg(3), req.len)
       /\ \E p \in 0 .. shown_object(shown_arg(1)).len :
            /\ integer_shown(shown_arg(2), p)
            /\ p + req.len <= shown_object(shown_arg(1)).len
  /\ called(the_buffer \cup {"Lstring", "Lstringcat", "Lfread"}) => req.type = "STRING"

Handing ==
  /\ running = "start" => locals = << >>
  /\ running = "set_args" =>
       /\ in_call /\ req.op = "set_args" => req.type = "ARRAY"
       /\ in_call /\ req.op = "set_args_bstring" => req.type = "STRING"
       /\ in_call => "Bstring_s" \notin DOMAIN locals
       /\ pc = "run" /\ "Bstring_s" \in DOMAIN locals => locals.Bstring_s \in references(DOMAIN mem)

Statically == Len(statics) = Statics

RuntimeInv == Frames /\ HeapInv /\ Requested /\ Handing /\ Statically

-------------------------------------------------------------------------------
(* Words *)

LEMMA PlainWords ==
  ASSUME NEW O
  PROVE  /\ \A n \in Nat : BOX(n) \in references(O)
         /\ 0 \in references(O) /\ foreign_addr \in references(O)
<1>1. ASSUME NEW n \in Nat PROVE BOX(n) \in references(O)
  <2>1. 2 * n + 1 \in Nat /\ (2 * n + 1) % 2 = 1
    OBVIOUS
  <2> QED BY <2>1 DEF BOX, UNBOXED, references, outside
<1>2. \A b \in Bases : b \in Nat /\ b > 0 /\ b > 4
  BY BasesAssumption, ForeignAssumption DEF foreign_addr, WORD_BYTES
<1> QED BY <1>1, <1>2 DEF foreign_addr, WORD_BYTES, references, outside

LEMMA RawWord == raw_word \in Nat
<1>1. Bases \subseteq Nat /\ Bases # {}
  BY BasesAssumption
<1>2. PICK b \in Bases : \A c \in Bases : ~(c < b)
  BY <1>1, Smallest
<1>3. \A c \in Bases : b <= c
  BY <1>1, <1>2
<1>4. raw_word \in Bases
  BY <1>3 DEF raw_word
<1> QED BY <1>1, <1>4

-------------------------------------------------------------------------------
(* Steps of the program *)

LEMMA CleanRootsOf == ASSUME Soundness, gc_idle PROVE CleanRoots
BY DEF Soundness, Clean, Typed, ClientTypeOK, CleanRoots, Word

\* What holds of the heap whenever no collection is under way.
Idle ==
  /\ Places /\ tiled_from(heap.begin) /\ objects(mem) /\ ClientTypeOK /\ heap.begin \in Bases
  /\ roots_in(references(DOMAIN mem)) /\ fields_in(DOMAIN mem, references(DOMAIN mem))
  /\ stack \in Seq(references(DOMAIN mem)) /\ statics \in Seq(references(DOMAIN mem))
  /\ Len(stack) \in Nat /\ CleanRoots /\ View
  /\ \A a \in DOMAIN mem : mem[a].type = "STRING" => Len(mem[a].words) = mem[a].len

LEMMA IdleHeap == HeapInv /\ gc_idle => Idle
<1> SUFFICES ASSUME HeapInv, gc_idle PROVE Idle
  OBVIOUS
<1>1. Structure /\ Soundness /\ Numbered /\ Typed /\ ClientTypeOK /\ Clean
  BY DEF HeapInv, Identity, Soundness, Typed
<1>2. Places /\ tiled_from(heap.begin) /\ CleanRoots
  BY <1>1, PlacesOf, CleanRootsOf DEF Structure, gc_idle
<1>3. View
  BY <1>1, ViewHolds
<1>4. fields_in(DOMAIN mem, references(DOMAIN mem))
  BY <1>1 DEF Clean
<1>5. objects(mem)
  BY <1>1 DEF objects, ClientTypeOK
<1>6. \A a \in DOMAIN mem : mem[a].type = "STRING" => Len(mem[a].words) = mem[a].len
  BY <1>1 DEF Typed
<1>7. heap.begin \in Bases /\ Len(stack) \in Nat
  BY <1>1 DEF ClientTypeOK, Typed
<1>8. /\ roots_in(references(DOMAIN mem))
      /\ stack \in Seq(references(DOMAIN mem)) /\ statics \in Seq(references(DOMAIN mem))
  BY <1>2 DEF CleanRoots, roots_in
<1> QED BY <1>1, <1>2, <1>3, <1>4, <1>5, <1>6, <1>7, <1>8 DEF Idle

\* A step that leaves objects and requests alone.
LEMMA QuietHeap ==
  ASSUME HeapInv, gc_idle, pc' \in {"run", "failed"}, pc = "run" \/ pc' = "failed",
         UNCHANGED <<heap, mem, req, gc, cur_id>>, CleanRoots'
  PROVE  HeapInv'
<1>1. Idle /\ Structure /\ Soundness /\ Numbered /\ gc_idle'
  BY IdleHeap DEF HeapInv, Identity, gc_idle
<1>2. Structure'
  <2>1. same_layout(mem, mem')
    BY <1>1, MemoryOf, SameLayoutRefl DEF Structure
  <2>2. AllocShape' /\ pc # "physically_relocate" /\ pc' \in quiet
    BY <1>1 DEF Structure, AllocShape, gc_idle, quiet
  <2> QED BY <1>1, <2>1, <2>2, QuietStep
<1>3. Soundness'
  <2>1. fields_in(DOMAIN mem, references(DOMAIN mem))'
    BY <1>1 DEF Idle, fields_in, references, outside
  <2> QED BY <1>1, <2>1, ProgramSound DEF Idle, ClientTypeOK, objects
<1>4. Numbered'
  <2>1. ~allocating' /\ (allocating => \A a \in DOMAIN mem : mem[a].id <= cur_id)
    BY <1>1 DEF Numbered, allocating
  <2> QED BY <1>1, <2>1 DEF Numbered, distinct, allocating, gc_idle
<1>5. Identity' /\ Reached'
  BY <1>1, <1>4, IdleIdentity DEF Reached, gc_idle, marking
<1> QED BY <1>2, <1>3, <1>5 DEF HeapInv

\* Up to the call of alloc.
LEMMA RequestHeap ==
  ASSUME HeapInv, NEW op, NEW t \in lama_type, NEW n \in Nat, request(op, t, n), CleanRoots'
  PROVE  HeapInv' /\ pc' = "alloc" /\ gc_idle'
<1>1. /\ pc = "run" /\ pc' = "alloc" /\ gc_idle /\ gc_idle' /\ mem' = mem /\ heap' = heap /\ gc' = gc
      /\ cur_id' = cur_id + 1 /\ req' = [op |-> op, type |-> t, len |-> n, size |-> obj_words(t, n)]
  BY DEF request, gc_idle
<1>2. Idle /\ Structure /\ Soundness /\ Numbered
  BY <1>1, IdleHeap DEF HeapInv, Identity
<1>3. obj_words(t, n) \in Nat
  <2>1. obj_bytes(t, n) \in Nat /\ obj_bytes(t, n) >= 8
    BY DEF obj_bytes, DATA_HEADER_SZ, MEMBER_SIZE, lama_type
  <2> QED BY <2>1 DEF obj_words, BYTES_TO_WORDS, WORD_BYTES
<1>4. req' \in [op: {req'.op}, type: lama_type, len: Nat, size: Nat] /\ cur_id' \in Nat /\ cur_id \in Nat
  <2>1. cur_id \in Nat
    BY <1>2 DEF Idle, ClientTypeOK
  <2>2. req' \in [op: {op}, type: lama_type, len: Nat, size: Nat] /\ req'.op = op
    BY <1>1, <1>3
  <2> QED BY <1>1, <2>1, <2>2
<1>5. fields_in(DOMAIN mem, references(DOMAIN mem))'
  BY <1>1, <1>2 DEF Idle, fields_in, references, outside
<1>6. Soundness'
  BY <1>1, <1>2, <1>4, <1>5, ProgramSound DEF Idle, objects
<1>7. Identity' /\ Reached'
  BY <1>1, <1>2, <1>4, IdleIdentity, SameObjectsNumbered DEF Idle, Reached, marking
<1> QED BY <1>1, <1>2, <1>6, <1>7, RequestStep DEF HeapInv

\* The program moves words between its stack and its statics.
LEMMA MovesHeap ==
  ASSUME Frames, HeapInv, pc = "run", running = "program", moves,
         stack' \in Seq(references(DOMAIN mem)), statics' \in Seq(references(DOMAIN mem))
  PROVE  HeapInv'
<1>1. Idle /\ gc_idle /\ extra = <<sysargs>> /\ pc' = "run"
  BY IdleHeap DEF gc_idle, Frames, Pool, moves
<1>2. sysargs \in Cell /\ sysargs[1] = "local" /\ extra[1] = sysargs /\ DOMAIN extra = {1}
  BY <1>1 DEF Idle, ClientTypeOK, sysargs, local_cell
<1>3. sysargs \in Cell'
  BY <1>2 DEF Cell, moves, sysargs, local_cell
<1>4. cell_word(sysargs)' = cell_word(sysargs) /\ cell_word(sysargs) \in references(DOMAIN mem)
  BY <1>1, <1>2 DEF moves, cell_word, Idle, roots_in, cells_in, sysargs, local_cell
<1>5. references(DOMAIN mem)' = references(DOMAIN mem)
  BY DEF moves, references, outside
<1>6. cells_in(DOMAIN extra, references(DOMAIN mem))'
  BY <1>1, <1>2, <1>4, <1>5 DEF cells_in, moves
<1>7. CleanRoots'
  BY <1>1, <1>3, <1>5, <1>6 DEF CleanRoots, Idle, roots_in, moves
<1> QED BY <1>1, <1>7, QuietHeap DEF moves

\* A function registers cells of its arguments and of its own variables.
LEMMA CellsClean ==
  ASSUME Idle, NEW R, R = references(DOMAIN mem), NEW ls, ls \in [DOMAIN ls -> R],
         NEW cells \in Seq({"stack"} \X DOMAIN stack \cup {"local"} \X DOMAIN ls),
         \A i, j \in DOMAIN cells : cells[i] = cells[j] => i = j,
         \A i \in DOMAIN extra : extra[i] \in {"local"} \X (DOMAIN locals \ DOMAIN ls),
         ~pool_overflow(cells), mem' = mem, UNCHANGED <<stack, statics>>,
         extra' = pushed_roots(cells), locals' = with_locals(ls)
  PROVE  CleanRoots'
<1> PICK S : S = {"stack"} \X DOMAIN stack \cup {"local"} \X DOMAIN ls OBVIOUS
<1> PICK e : e = extra' OBVIOUS
<1> PICK m : m = Len(extra) OBVIOUS
<1> PICK n : n = Len(cells) OBVIOUS
<1> PICK C : C = Cell \cup Cell' OBVIOUS
<1>1. /\ extra \in Seq(C) /\ extra \in Seq(Cell) /\ m \in Nat /\ n \in Nat /\ cells \in Seq(S)
      /\ DOMAIN extra = 1 .. m /\ DOMAIN cells = 1 .. n
      /\ locals \in [DOMAIN locals -> Nat] /\ R \subseteq Nat
      /\ \A i, j \in DOMAIN extra : extra[i] = extra[j] => i = j
  <2>1. extra \in Seq(Cell)
    BY DEF Idle, ClientTypeOK
  <2>2. extra \in Seq(C)
    BY <2>1, SeqGrows
  <2> QED BY <2>1, <2>2 DEF Idle, CleanRoots, references
<1>2. /\ DOMAIN locals' = DOMAIN locals \cup DOMAIN ls
      /\ \A x \in DOMAIN ls : locals'[x] = ls[x]
      /\ \A x \in DOMAIN locals \ DOMAIN ls : locals'[x] = locals[x]
      /\ locals' \in [DOMAIN locals' -> Nat]
  BY <1>1 DEF with_locals
<1>3. S \subseteq C /\ S \subseteq Cell'
  BY <1>2 DEF Cell
<1>4. /\ e \in Seq(C) /\ Len(e) = m + n
      /\ \A i \in 1 .. m + n : e[i] = IF i <= m THEN extra[i] ELSE cells[i - m]
  <2>1. cells \in Seq(C)
    BY <1>1, <1>3, SeqGrows
  <2>2. e = extra \o cells
    BY DEF pushed_roots
  <2> QED BY ONLY <1>1, <2>1, <2>2, m = Len(extra), n = Len(cells), ConcatProperties
<1>5. ASSUME NEW i \in 1 .. m
      PROVE  /\ e[i] = extra[i] /\ e[i] \in Cell' /\ cell_word(extra[i])' \in R
             /\ e[i] \in {"local"} \X (DOMAIN locals \ DOMAIN ls)
  <2>1. e[i] = extra[i]
    <3>1. i \in 1 .. m + n /\ i <= m
      BY <1>1
    <3> QED BY <1>4, <3>1
  <2>2. PICK x \in DOMAIN locals \ DOMAIN ls : extra[i] = <<"local", x>>
    BY <1>1
  <2>3. cell_word(extra[i]) = locals[x] /\ cell_word(extra[i]) \in R
    <3>1. extra[i][1] = "local" /\ extra[i][2] = x
      BY <2>2
    <3>2. \A k \in DOMAIN extra : cell_word(extra[k]) \in R
      BY DEF Idle, roots_in, cells_in
    <3> QED BY <1>1, <3>1, <3>2 DEF cell_word
  <2>4. cell_word(extra[i])' = locals'[x]
    BY <2>1, <2>2 DEF cell_word
  <2> QED BY <1>2, <2>1, <2>2, <2>3, <2>4 DEF Cell
<1>6. ASSUME NEW i \in m + 1 .. m + n
      PROVE  /\ i - m \in 1 .. n /\ e[i] = cells[i - m] /\ e[i] \in Cell' /\ cell_word(extra[i])' \in R
             /\ e[i] \in S
  <2>1. e[i] = cells[i - m] /\ i - m \in 1 .. n
    <3>1. i \in 1 .. m + n /\ ~(i <= m) /\ i - m \in 1 .. n
      BY <1>1
    <3> QED BY <1>4, <3>1
  <2>2. e[i] \in S
    BY <1>1, <2>1
  <2>3. CASE e[i] \in {"stack"} \X DOMAIN stack
    <3>1. PICK k \in DOMAIN stack : e[i] = <<"stack", k>>
      BY <2>3
    <3>2. cell_word(extra[i])' = stack[k] /\ stack[k] \in R
      BY <3>1 DEF cell_word, Idle
    <3> QED BY <1>3, <2>1, <2>2, <3>2
  <2>4. CASE e[i] \in {"local"} \X DOMAIN ls
    <3>1. PICK x \in DOMAIN ls : e[i] = <<"local", x>>
      BY <2>4
    <3>2. cell_word(extra[i])' = ls[x] /\ ls[x] \in R
      BY <1>2, <3>1 DEF cell_word
    <3> QED BY <1>3, <2>1, <2>2, <3>2
  <2> QED BY <2>2, <2>3, <2>4
<1>7. /\ DOMAIN e = 1 .. m + n
      /\ \A i \in 1 .. m + n : i \in 1 .. m \/ i \in m + 1 .. m + n
  BY <1>1, <1>4
<1>8. extra' \in Seq(Cell')
  <2>1. e = [i \in 1 .. m + n |-> e[i]] /\ m + n \in Nat
    BY <1>1, <1>4, <1>7
  <2>2. \A i \in 1 .. m + n : e[i] \in Cell'
    BY <1>5, <1>6, <1>7
  <2> QED BY ONLY <2>1, <2>2, e = extra', FunctionIsSeq
<1>9. Len(extra') <= MAX_EXTRA_ROOTS_NUMBER
  BY <1>1, <1>4, PoolAssumption DEF pool_overflow
<1>10. \A i, j \in DOMAIN extra' : extra'[i] = extra'[j] => i = j
  <2> SUFFICES ASSUME NEW i \in 1 .. m + n, NEW j \in 1 .. m + n, e[i] = e[j] PROVE i = j
    BY <1>7
  <2>1. \A c \in S : c \notin {"local"} \X (DOMAIN locals \ DOMAIN ls)
    OBVIOUS
  <2>2. CASE i \in 1 .. m /\ j \in 1 .. m
    BY <1>1, <1>5, <2>2
  <2>3. CASE i \in m + 1 .. m + n /\ j \in m + 1 .. m + n
    <3>1. i - m = j - m
      BY <1>1, <1>6, <2>3
    <3> QED BY ONLY <1>1, <3>1, i \in 1 .. m + n, j \in 1 .. m + n
  <2> QED BY <1>5, <1>6, <1>7, <2>1, <2>2, <2>3
<1>11. references(DOMAIN mem)' = R
  BY DEF references, outside
<1>12. cells_in(DOMAIN extra, references(DOMAIN mem))'
  BY <1>5, <1>6, <1>7, <1>11 DEF cells_in
<1>13. roots_in(references(DOMAIN mem))'
  BY <1>11, <1>12 DEF roots_in, Idle
<1> QED BY <1>2, <1>8, <1>9, <1>10, <1>13 DEF CleanRoots

-------------------------------------------------------------------------------
(* What the program sees of a word *)

\* The value v is what is seen of the word p.
shows(v, p) ==
  /\ v = abs_word(p) /\ p \in references(live_objects) /\ p \in Nat
  /\ is_object(p) => /\ refers(v) /\ TO_DATA(p) \in live_objects /\ ~UNBOXED(p)
                     /\ shown_object(v) = abs_object(object_at(p))
  /\ refers(v) => is_object(p)
  /\ ~is_object(p) => v = <<"word", p>>
  /\ \A n : integer_shown(v, n) => p = BOX(n) /\ ~is_object(p)

LEMMA Shows ==
  ASSUME View, gc_idle, NEW p \in references(live_objects), NEW v, v = abs_word(p)
  PROVE  shows(v, p)
<1>1. /\ live_objects \subseteq DOMAIN mem /\ Places /\ heap.begin \in Bases /\ p \in Nat
      /\ \A q \in Nat : is_object(q) => ~outside(q)
      /\ DOMAIN now_graph = {mem[a].id : a \in live_objects}
      /\ \A a \in live_objects : now_graph[mem[a].id] = abs_object(mem[a])
      /\ shown_graph = now_graph
  BY DEF View, references, shown_graph
<1>2. ASSUME is_object(p)
      PROVE  /\ TO_DATA(p) \in live_objects /\ ~UNBOXED(p) /\ v = <<"ref", object_at(p).id>>
  <2>1. ~outside(p)
    BY <1>1, <1>2
  <2>2. TO_DATA(p) \in live_objects /\ ~UNBOXED(p)
    BY <2>1 DEF references, outside
  <2>3. is_valid_heap_pointer(p)
    BY <1>1, <2>1, Pointers
  <2> QED BY <1>2, <2>2, <2>3 DEF abs_word
<1>3. ASSUME is_object(p) PROVE refers(v) /\ shown_object(v) = abs_object(object_at(p))
  <2>1. v[1] = "ref" /\ v[2] = object_at(p).id
    BY <1>2, <1>3
  <2> QED BY <1>1, <1>2, <1>3, <2>1 DEF refers, shown_object, object_at
<1>4. ~is_object(p) => v = <<"word", p>>
  BY DEF abs_word
<1>5. refers(v) => is_object(p)
  BY <1>4 DEF refers
<1>6. ASSUME NEW n, integer_shown(v, n) PROVE p = BOX(n) /\ ~is_object(p)
  <2>1. v = <<"word", BOX(n)>>
    BY <1>6 DEF integer_shown
  <2>2. v[1] = "word" /\ v[2] = BOX(n)
    BY <2>1
  <2>3. ~is_object(p)
    BY <1>2, <2>2
  <2>4. v[2] = p
    BY <1>4, <2>3
  <2> QED BY <2>2, <2>3, <2>4
<1> QED BY <1>1, <1>2, <1>3, <1>4, <1>5, <1>6 DEF shows

\* The arguments, and the cells in the pool.
RootsShown ==
  /\ \A k \in 1 .. Len(stack) : shows(shown_arg(k), arg(k))
  /\ \A j \in 1 .. Len(extra) : shows(shown_cell(j), cell_word(extra[j]))

LEMMA RootsAreShown == View /\ gc_idle => RootsShown
<1> SUFFICES ASSUME View, gc_idle PROVE RootsShown
  OBVIOUS
<1> PICK R : R = references(live_objects) OBVIOUS
<1> PICK V : V = {abs_word(p) : p \in R} OBVIOUS
<1> PICK A : A = shown(statics) OBVIOUS
<1> PICK B : B = shown(stack) OBVIOUS
<1> PICK C : C = shown_cells OBVIOUS
<1> PICK s : s = now_roots OBVIOUS
<1> PICK x : x = Len(statics) OBVIOUS
<1> PICK y : y = Len(stack) OBVIOUS
<1> PICK z : z = Len(extra) OBVIOUS
<1>1. roots_in(R) /\ extra \in Seq(Cell) /\ s = shown_roots
  BY DEF View, shown_roots
<1>2. /\ s = joined(A, B, C) /\ A \in Seq(V) /\ B \in Seq(V) /\ C \in Seq(V)
      /\ Len(A) = x /\ Len(B) = y /\ Len(C) = z
  BY <1>1, RootParts
<1>3. /\ x \in Nat /\ y \in Nat /\ z \in Nat
      /\ DOMAIN stack = 1 .. y /\ DOMAIN extra = 1 .. z
      /\ \A j \in 1 .. y : stack[j] \in R
      /\ \A j \in 1 .. z : cell_word(extra[j]) \in R
  BY <1>1 DEF roots_in, cells_in
<1>4. parted(s, A, B, C)
  BY ONLY <1>2, Parted
<1>5. ASSUME NEW k \in 1 .. y PROVE shows(shown_arg(k), arg(k))
  <2> PICK j : j = y + 1 - k OBVIOUS
  <2> PICK i : i = x + y + 1 - k OBVIOUS
  <2>1. j \in 1 .. y /\ i \in x + 1 .. x + y /\ i - x = j
    BY ONLY <1>3, k \in 1 .. y, j = y + 1 - k, i = x + y + 1 - k
  <2>2. s[i] = B[j]
    BY ONLY <1>2, <1>4, <2>1 DEF parted
  <2>3. B[j] = abs_word(stack[j]) /\ stack[j] \in R
    BY <1>3, <2>1 DEF shown
  <2>4. arg(k) = stack[j] /\ shown_arg(k) = s[i]
    BY <1>1 DEF arg, operand, shown_arg
  <2> QED BY <2>2, <2>3, <2>4, Shows
<1>6. ASSUME NEW j \in 1 .. z PROVE shows(shown_cell(j), cell_word(extra[j]))
  <2>1. s[x + y + j] = C[j]
    BY ONLY <1>2, <1>4, j \in 1 .. z DEF parted
  <2>2. C[j] = abs_word(cell_word(extra[j])) /\ cell_word(extra[j]) \in R
    BY <1>3 DEF shown_cells
  <2>3. shown_cell(j) = s[x + y + j]
    BY <1>1 DEF shown_cell
  <2> QED BY <2>1, <2>2, <2>3, Shows
<1> QED BY <1>5, <1>6 DEF RootsShown

\* A string shows its characters.
LEMMA StringShown ==
  ASSUME NEW o \in Object, o.type = "STRING", Len(o.words) = o.len
  PROVE  /\ fields(o) = {} /\ o.words \in Seq(Nat) /\ o.len \in Nat
         /\ DOMAIN o.words = 1 .. o.len /\ DOMAIN abs_object(o).words = 1 .. o.len
         /\ \A i \in 1 .. o.len : abs_object(o).words[i] = <<"word", o.words[i]>>
<1>1. o.words \in Seq(Nat) /\ o.len \in Nat /\ DOMAIN o.words = 1 .. o.len
  BY DEF Object, Word
<1>2. fields(o) = {}
  BY <1>1 DEF fields, first_field
<1> QED BY <1>1, <1>2 DEF abs_object, abs_words

-------------------------------------------------------------------------------
(* The program between calls *)

\* A word that the program has replaces the first n words.
LEMMA PushHeap ==
  ASSUME Frames, HeapInv, pc = "run", running = "program", moves,
         statics' \in Seq(references(DOMAIN mem)),
         NEW n \in Nat, arguments(n), NEW v \in references(DOMAIN mem),
         \/ stack' = push(popped(n), v)
         \/ stack' = popped(n)
         \/ stack' = push(stack, v)
  PROVE  HeapInv'
<1> PICK R : R = references(DOMAIN mem) OBVIOUS
<1>1. stack \in Seq(R) /\ Len(stack) \in Nat
  BY IdleHeap DEF Idle, gc_idle
<1>2. n \in 0 .. Len(stack)
  BY <1>1, CallsAssumption DEF arguments
<1>3. popped(n) \in Seq(R)
  BY <1>1, <1>2, Operands
<1>4. stack' \in Seq(R)
  BY <1>1, <1>3, Pushing
<1> QED BY <1>4, MovesHeap

LEMMA ProgramHeap ==
  ASSUME Frames, HeapInv, Program PROVE HeapInv' /\ pc' = "run" /\ running' = "program"
<1> PICK R : R = references(DOMAIN mem) OBVIOUS
<1>1. pc = "run" /\ running = "program" /\ moves
  BY DEF Program, PUSH, DROP, DUP, LOAD, STORE, program
<1>2. /\ stack \in Seq(R) /\ Len(stack) \in Nat /\ statics \in Seq(R) /\ FrameWords \in Nat
      /\ \A i \in 1 .. Len(stack) : operand(i) \in R
  BY <1>1, IdleHeap, Operands, CallsAssumption DEF Idle, gc_idle
<1>3. arguments(0) /\ 0 \in Nat
  BY <1>2 DEF Frames, Frame, arguments
<1>4. CASE PUSH
  <2> PICK n \in Consts : stack' = push(stack, BOX(n)) /\ statics' = statics
    BY <1>4 DEF PUSH
  <2>1. BOX(n) \in R
    BY PlainWords, CallsAssumption
  <2> QED BY <1>1, <1>2, <1>3, <2>1, PushHeap DEF moves
<1>5. ASSUME DROP \/ DUP \/ STORE PROVE arguments(1) /\ 1 \in Nat /\ operand(1) \in R
  <2>1. Len(stack) >= FrameWords + 1
    BY <1>5 DEF DROP, DUP, STORE, program
  <2>2. 1 \in 1 .. Len(stack)
    BY <1>2, <2>1
  <2> QED BY <1>2, <2>1, <2>2 DEF arguments
<1>6. CASE DROP \/ DUP
  <2>1. (stack' = popped(1) \/ stack' = push(stack, operand(1))) /\ statics' = statics
    BY <1>6 DEF DROP, DUP
  <2> QED BY <1>1, <1>2, <1>5, <1>6, <2>1, PushHeap DEF moves
<1>7. CASE LOAD
  <2> PICK i \in DOMAIN statics : stack' = push(stack, statics[i]) /\ statics' = statics
    BY <1>7 DEF LOAD
  <2>1. statics[i] \in R
    BY <1>2
  <2> QED BY <1>1, <1>2, <1>3, <2>1, PushHeap DEF moves
<1>8. CASE STORE
  <2> PICK i \in DOMAIN statics : statics' = [statics EXCEPT ![i] = operand(1)]
    BY <1>8 DEF STORE
  <2>1. statics' \in Seq(R) /\ stack' = popped(1)
    BY <1>2, <1>5, <1>8, Replacing DEF STORE
  <2> QED BY <1>1, <1>5, <1>8, <2>1, PushHeap DEF moves
<1> QED BY <1>4, <1>6, <1>7, <1>8 DEF Program

\* A function that returns at once.
LEMMA ReturnsHeap ==
  ASSUME Frames, HeapInv, pc = "run", running = "program",
         NEW n \in Nat, arguments(n), NEW v \in references(DOMAIN mem), returns(v, n)
  PROVE  HeapInv' /\ pc' = "run" /\ running' = "program"
<1>1. statics' \in Seq(references(DOMAIN mem))
  BY IdleHeap DEF Idle, gc_idle, returns
<1> QED BY <1>1, PushHeap DEF returns, moves

\* The process ends.
LEMMA StopHeap ==
  ASSUME HeapInv, gc_idle, NEW f, NEW why, stop(f, why)
  PROVE  HeapInv' /\ pc' = "failed" /\ running' = running
<1>1. CleanRoots
  BY CleanRootsOf DEF HeapInv
<1>2. CleanRoots'
  BY <1>1 DEF stop, failure, CleanRoots, roots_in, cells_in, cell_word, references, outside, Cell
<1> QED BY <1>2, QuietHeap DEF stop, failure

-------------------------------------------------------------------------------
(* The heap when a function is called *)

\* Cells of the stack and of the C variables in D, each of them once.
registers(cells, D) ==
  /\ cells \in Seq({"stack"} \X DOMAIN stack \cup {"local"} \X D)
  /\ \A i, j \in DOMAIN cells : cells[i] = cells[j] => i = j

LEMMA Registered ==
  ASSUME NEW k, k = Len(stack), k \in Nat, DOMAIN stack = 1 .. k, NEW D
  PROVE  /\ registers(<< >>, D)
         /\ k >= 1 => registers(<<arg_cell(1)>>, D)
         /\ k >= 2 => registers(<<arg_cell(1), arg_cell(2)>>, D)
         /\ "Bstring_p" \in D => registers(<<buffer>>, D)
         /\ "Bstring_p" \in D /\ k >= 1 => registers(<<arg_cell(1), buffer>>, D)
         /\ \A n \in Nat : k >= n + 8 => registers(captured_cells(n), D)
<1> PICK S : S = {"stack"} \X DOMAIN stack \cup {"local"} \X D OBVIOUS
<1> PICK a : a = arg_cell(1) OBVIOUS
<1> PICK b : b = arg_cell(2) OBVIOUS
<1> PICK c : c = buffer OBVIOUS
<1>1. /\ k >= 1 => a \in S
      /\ k >= 2 => b \in S
      /\ "Bstring_p" \in D => c \in S
      /\ a # b /\ a # c
  BY DEF arg_cell, buffer, local_cell
<1>2. ASSUME NEW x, x \in S PROVE registers(<<x>>, D)
  <2>1. <<x>> \in Seq(S) /\ DOMAIN <<x>> = {1}
    BY <1>2
  <2> QED BY <2>1 DEF registers
<1>3. ASSUME NEW x, NEW y, x \in S, y \in S, x # y PROVE registers(<<x, y>>, D)
  <2>1. PICK s : s = <<x, y>>
    OBVIOUS
  <2>2. s \in Seq(S) /\ \A i, j \in DOMAIN s : s[i] = s[j] => i = j
    BY ONLY <1>3, <2>1, TwoElements
  <2> QED BY <2>1, <2>2 DEF registers
<1>4. registers(<< >>, D)
  BY DEF registers
<1>5. ASSUME NEW n \in Nat, k >= n + 8 PROVE registers(captured_cells(n), D)
  <2> PICK s : s = captured_cells(n) OBVIOUS
  <2>1. s = [i \in 1 .. n |-> <<"stack", k + 1 - i - 8>>]
    BY DEF captured_cells, captured_cell
  <2>2. \A i \in 1 .. n : s[i] \in S
    <3> SUFFICES ASSUME NEW i \in 1 .. n PROVE s[i] \in S
      OBVIOUS
    <3> PICK x : x = k + 1 - i - 8 OBVIOUS
    <3>1. x \in 1 .. k
      BY <1>5
    <3>2. s[i] = <<"stack", x>>
      BY <2>1
    <3> QED BY <3>1, <3>2
  <2>3. s = [i \in 1 .. n |-> s[i]] /\ DOMAIN s = 1 .. n
    BY <2>1
  <2>4. s \in Seq(S)
    BY ONLY <2>2, <2>3, n \in Nat, FunctionIsSeq
  <2>5. ASSUME NEW i \in 1 .. n, NEW j \in 1 .. n, s[i] = s[j] PROVE i = j
    <3>1. s[i][2] = k + 1 - i - 8 /\ s[j][2] = k + 1 - j - 8
      BY <2>1
    <3> QED BY <2>5, <3>1
  <2> QED BY <2>3, <2>4, <2>5 DEF registers
<1>6. k >= 1 => registers(<<a>>, D)
  BY <1>1, <1>2
<1>7. k >= 2 => registers(<<a, b>>, D)
  BY <1>1, <1>3
<1>8. "Bstring_p" \in D => registers(<<c>>, D)
  BY <1>1, <1>2
<1>9. "Bstring_p" \in D /\ k >= 1 => registers(<<a, c>>, D)
  BY <1>1, <1>3
<1> QED BY <1>4, <1>5, <1>6, <1>7, <1>8, <1>9

LEMMA IdleShown == HeapInv /\ gc_idle => RootsShown
BY IdleHeap, RootsAreShown DEF Idle

\* What the call of function f has brought about when it is about to call alloc.
entered(f, type, len) ==
  /\ pc' = "alloc" /\ gc_idle' /\ running' = running /\ RootsShown'
  /\ req'.op = f /\ req'.type = type /\ req'.len = len
  /\ UNCHANGED <<heap, mem, stack, statics>>

LEMMA EnterHeap ==
  ASSUME HeapInv, NEW f, NEW type \in lama_type, NEW len \in Nat, NEW cells, NEW ls,
         pc = "run", enter(f, type, len, cells, ls), registers(cells, DOMAIN ls),
         ls \in [DOMAIN ls -> references(DOMAIN mem)],
         \A i \in DOMAIN extra : extra[i] \in {"local"} \X (DOMAIN locals \ DOMAIN ls)
  PROVE  /\ HeapInv'
         /\ \/ pc' = "failed" /\ running' = running
            \/ entered(f, type, len)
<1>1. CASE pool_overflow(cells)
  BY <1>1, StopHeap DEF enter, gc_idle
<1>2. CASE ~pool_overflow(cells)
  <2>1. /\ request(f, type, len) /\ extra' = pushed_roots(cells) /\ locals' = with_locals(ls)
        /\ UNCHANGED <<stack, statics, running, exit>>
    BY <1>2 DEF enter
  <2>2. mem' = mem /\ heap' = heap /\ req'.op = f /\ req'.type = type /\ req'.len = len
    BY <2>1 DEF request
  <2>3. Idle
    BY IdleHeap DEF gc_idle
  <2>4. CleanRoots'
    BY <1>2, <2>1, <2>2, <2>3, CellsClean DEF registers
  <2>5. HeapInv' /\ pc' = "alloc" /\ gc_idle'
    BY <2>1, <2>4, RequestHeap
  <2>6. RootsShown'
    <3>1. (HeapInv /\ gc_idle => RootsShown)'
      BY IdleShown, PTL
    <3> QED BY <2>5, <3>1
  <2> QED BY <2>1, <2>2, <2>5, <2>6 DEF entered
<1> QED BY <1>1, <1>2

\* What a call of the program finds.
LEMMA CallOf ==
  ASSUME Frames, HeapInv, NEW op, NEW n \in Nat, program(op, n)
  PROVE  /\ pc = "run" /\ running = "program" /\ gc_idle /\ Idle
         /\ Len(stack) \in Nat /\ DOMAIN stack = 1 .. Len(stack) /\ Len(stack) >= n
         /\ \A k \in 1 .. n : /\ k \in 1 .. Len(stack) /\ arg(k) \in references(DOMAIN mem)
                              /\ arg(k) \in Nat
         /\ \A p \in Nat : UNBOXED(p) => ~is_object(p)
<1>1. pc = "run" /\ running = "program" /\ gc_idle /\ Idle
  BY IdleHeap DEF program, gc_idle
<1>2. stack \in Seq(references(DOMAIN mem)) /\ Len(stack) \in Nat /\ FrameWords \in Nat
  BY <1>1, CallsAssumption DEF Idle
<1>3. Len(stack) >= n
  BY <1>2 DEF program
<1>4. \A k \in 1 .. n : k \in 1 .. Len(stack)
  BY <1>2, <1>3
<1>5. \A p \in Nat : UNBOXED(p) => ~is_object(p)
  BY <1>1 DEF Idle, View, outside
<1>6. \A k \in 1 .. n : arg(k) \in references(DOMAIN mem) /\ arg(k) \in Nat
  BY <1>2, <1>4, Operands DEF arg, references
<1>7. DOMAIN stack = 1 .. Len(stack)
  BY <1>2
<1> QED BY <1>1, <1>2, <1>3, <1>4, <1>5, <1>6, <1>7

LEMMA CallHeap ==
  ASSUME Frames, HeapInv, NEW op, NEW n \in Nat, program(op, n),
         NEW f, NEW type \in lama_type, NEW len \in Nat, NEW cells, NEW ls,
         enter(f, type, len, cells, ls), registers(cells, DOMAIN ls),
         ls \in [DOMAIN ls -> references(DOMAIN mem)], "global_sysargs" \notin DOMAIN ls,
         entered(f, type, len) => Requested'
  PROVE  HeapInv' /\ Requested' /\ running' = "program" /\ statics' = statics
<1>1. pc = "run" /\ running = "program" /\ gc_idle /\ Idle
  BY CallOf
<1>2. \A i \in DOMAIN extra : extra[i] \in {"local"} \X (DOMAIN locals \ DOMAIN ls)
  <2>1. extra = <<sysargs>>
    BY <1>1 DEF Frames, Pool
  <2>2. DOMAIN extra = {1} /\ extra[1] = sysargs /\ sysargs \in Cell
    BY <1>1, <2>1 DEF Idle, ClientTypeOK
  <2>3. sysargs = <<"local", "global_sysargs">>
    BY DEF sysargs, local_cell
  <2>4. "global_sysargs" \in DOMAIN locals
    BY <2>2, <2>3 DEF Cell
  <2> QED BY <2>2, <2>3, <2>4
<1>3. /\ HeapInv'
      /\ \/ pc' = "failed" /\ running' = running
         \/ entered(f, type, len)
  BY <1>1, <1>2, EnterHeap
<1>4. statics' = statics
  BY DEF enter, stop, failure
<1>5. CASE pc' = "failed" /\ running' = running
  BY <1>1, <1>3, <1>4, <1>5 DEF Requested, called, in_call
<1> QED BY <1>1, <1>3, <1>4, <1>5 DEF entered

LEMMA StopCalled ==
  ASSUME Frames, HeapInv, NEW op, NEW n \in Nat, program(op, n), NEW f, NEW why, stop(f, why)
  PROVE  HeapInv' /\ Requested' /\ running' = "program" /\ statics' = statics
BY CallOf, StopHeap DEF stop, failure, Requested, called, in_call

LEMMA ReturnsCalled ==
  ASSUME Frames, HeapInv, NEW op, NEW n \in Nat, program(op, n),
         NEW v \in references(DOMAIN mem), returns(v, n)
  PROVE  HeapInv' /\ Requested' /\ running' = "program" /\ statics' = statics
<1>1. HeapInv' /\ pc' = "run" /\ running' = "program"
  BY CallOf, InProgram, ReturnsHeap
<1> QED BY <1>1 DEF returns, Requested, called, in_call

\* What is seen of the arguments of a function when it is about to call alloc.
LEMMA ArgShown ==
  ASSUME NEW f, NEW type, NEW len, entered(f, type, len),
         NEW k \in 1 .. Len(stack), NEW p, p = arg(k), NEW v, v = shown_arg(k)'
  PROVE  /\ is_object(p) => /\ refers(v)' /\ shown_object(v)' = abs_object(object_at(p))'
                            /\ shown_object(v)'.type = object_at(p).type
                            /\ shown_object(v)'.len = object_at(p).len
         /\ ~is_object(p) => v = <<"word", p>>
<1>1. stack' = stack /\ mem' = mem /\ heap' = heap
  BY DEF entered
<1>2. shows(shown_arg(k), arg(k))'
  BY <1>1 DEF entered, RootsShown
<1>3. arg(k)' = p /\ object_at(p)' = object_at(p)
  BY <1>1 DEF arg, operand, object_at
<1>4. shows(v, p)'
  BY <1>2, <1>3 DEF shows, is_object, object_at, refers, shown_object, abs_word, integer_shown
<1>5. is_object(p) <=> is_object(p)'
  BY <1>1 DEF is_object
<1>6. abs_object(object_at(p))'.type = object_at(p).type /\ abs_object(object_at(p))'.len = object_at(p).len
  BY <1>3 DEF abs_object
<1> QED BY <1>4, <1>5, <1>6 DEF shows

\* A character buffer ends with its first zero.
LEMMA TextShown ==
  ASSUME NEW s \in Seq(Nat), NEW n, n = Len(s), NEW w, DOMAIN w = 1 .. n,
         \A i \in 1 .. n : w[i] = <<"word", s[i]>>
  PROVE  /\ Len(c_text(s)) \in Nat /\ Len(c_text(s)) <= n
         /\ Len(c_text(s)) = text_length(w)
<1> PICK T : T = {i \in 1 .. n : \A j \in 1 .. i : s[j] # 0} OBVIOUS
<1> PICK c : c = Cardinality(T) OBVIOUS
<1>1. n \in Nat /\ DOMAIN s = 1 .. n
  OBVIOUS
<1>2. c \in Nat /\ c <= n
  <2> PICK S : S = 1 .. n OBVIOUS
  <2>1. IsFiniteSet(S) /\ Cardinality(S) = IF 1 > n THEN 0 ELSE n - 1 + 1
    <3>1. 1 \in Int /\ n \in Int
      BY <1>1
    <3> QED BY ONLY <3>1, S = 1 .. n, FS_Interval
  <2>2. Cardinality(S) = n
    BY ONLY <1>1, <2>1
  <2>3. T \in SUBSET S
    OBVIOUS
  <2>4. IsFiniteSet(T) /\ Cardinality(T) <= Cardinality(S)
    BY ONLY <2>1, <2>3, FS_Subset
  <2> QED BY <2>2, <2>4, FS_CardinalityType
<1>3. T = {i \in DOMAIN w : \A j \in 1 .. i : w[j] # <<"word", 0>>}
  <2>1. ASSUME NEW j \in 1 .. n PROVE s[j] # 0 <=> w[j] # <<"word", 0>>
    <3>1. w[j] = <<"word", s[j]>>
      OBVIOUS
    <3>2. w[j][2] = s[j] /\ <<"word", 0>>[2] = 0
      BY <3>1
    <3> QED BY <3>1, <3>2
  <2>2. \A i \in 1 .. n : \A j \in 1 .. i : j \in 1 .. n
    BY <1>1
  <2> QED BY <1>1, <2>1, <2>2
<1>4. T = {i \in DOMAIN s : \A j \in 1 .. i : s[j] # 0}
  BY <1>1
<1>5. c_text(s) = SubSeq(s, 1, c)
  BY <1>4 DEF c_text
<1>6. Len(SubSeq(s, 1, c)) = c
  BY <1>1, <1>2, SubSeqProperties
<1>7. text_length(w) = c
  BY <1>3 DEF text_length
<1> QED BY <1>2, <1>5, <1>6, <1>7

\* Functions without cells of their own.
LEMMA NoCellsHeap ==
  ASSUME Frames, HeapInv, NEW op, NEW n \in Nat, program(op, n),
         NEW f, NEW type \in lama_type, NEW len \in Nat, NEW cells,
         enter(f, type, len, cells, << >>),
         \/ cells = << >>
         \/ cells = <<arg_cell(1)>> /\ n >= 1
         \/ cells = <<arg_cell(1), arg_cell(2)>> /\ n >= 2
         \/ cells = captured_cells(n) /\ Len(stack) >= n + 8,
         entered(f, type, len) => Requested'
  PROVE  HeapInv' /\ Requested' /\ running' = "program" /\ statics' = statics
<1>1. Len(stack) \in Nat /\ DOMAIN stack = 1 .. Len(stack) /\ Len(stack) >= n
  BY CallOf
<1>2. DOMAIN << >> = {} /\ << >> \in [DOMAIN << >> -> references(DOMAIN mem)]
  OBVIOUS
<1>3. /\ registers(<< >>, {})
      /\ Len(stack) >= 1 => registers(<<arg_cell(1)>>, {})
      /\ Len(stack) >= 2 => registers(<<arg_cell(1), arg_cell(2)>>, {})
      /\ Len(stack) >= n + 8 => registers(captured_cells(n), {})
  BY <1>1, Registered
<1>4. registers(cells, DOMAIN << >>)
  BY <1>1, <1>2, <1>3
<1> QED BY <1>2, <1>4, CallHeap

LEMMA IntegerCalls ==
  ASSUME Frames, HeapInv,
         NEW f \in {"LmakeArray", "LmakeString"},
         NEW type, type = IF f = "LmakeArray" THEN "ARRAY" ELSE "STRING",
         NEW len, len = UNBOX(arg(1)), program(f, 1), UNBOXED(arg(1)), enter(f, type, len, << >>, << >>)
  PROVE  HeapInv' /\ Requested' /\ running' = "program" /\ statics' = statics
<1> PICK p : p = arg(1) OBVIOUS
<1>1. p \in Nat /\ ~is_object(p) /\ 1 \in 1 .. Len(stack)
  BY CallOf
<1>2. len \in Nat /\ BOX(len) = p
  BY <1>1 DEF UNBOXED, UNBOX, BOX
<1>3. ASSUME entered(f, type, len) PROVE Requested'
  <2> PICK v : v = shown_arg(1)' OBVIOUS
  <2>1. v = <<"word", BOX(len)>>
    BY <1>1, <1>2, <1>3, ArgShown
  <2>2. integer_shown(shown_arg(1), req.len)'
    BY <1>3, <2>1 DEF integer_shown, entered
  <2> QED BY <1>3, <2>2 DEF entered, Requested, called, in_call, the_buffer
<1>4. type \in lama_type
  BY DEF lama_type
<1> QED BY <1>2, <1>3, <1>4, NoCellsHeap

LEMMA MembersCalls ==
  ASSUME Frames, HeapInv, NEW n \in 0 .. MaxLen,
         \/ program("Barray", n) /\ enter("Barray", "ARRAY", n, << >>, << >>)
         \/ program("Bsexp", n) /\ enter("Bsexp", "SEXP", n, << >>, << >>)
         \/ /\ program("Bclosure", n) /\ Len(stack) >= n + 8
            /\ enter("Bclosure", "CLOSURE", n + 1, captured_cells(n), << >>)
  PROVE  HeapInv' /\ Requested' /\ running' = "program" /\ statics' = statics
<1>1. n \in Nat /\ n + 1 \in Nat /\ {"ARRAY", "SEXP", "CLOSURE"} \subseteq lama_type
  BY CallsAssumption DEF lama_type
<1>2. ASSUME NEW f, NEW type, NEW len, entered(f, type, len),
             \/ f = "Barray" /\ type = "ARRAY"
             \/ f = "Bsexp" /\ type = "SEXP"
             \/ f = "Bclosure" /\ type = "CLOSURE"
      PROVE  Requested'
  BY <1>2 DEF entered, Requested, called, in_call, the_buffer
<1>3. CASE program("Barray", n) /\ enter("Barray", "ARRAY", n, << >>, << >>)
  BY <1>1, <1>2, <1>3, NoCellsHeap
<1>4. CASE program("Bsexp", n) /\ enter("Bsexp", "SEXP", n, << >>, << >>)
  BY <1>1, <1>2, <1>4, NoCellsHeap
<1>5. CASE /\ program("Bclosure", n) /\ Len(stack) >= n + 8
           /\ enter("Bclosure", "CLOSURE", n + 1, captured_cells(n), << >>)
  BY <1>1, <1>2, <1>5, NoCellsHeap
<1> QED BY <1>3, <1>4, <1>5

LEMMA CloneCalls ==
  ASSUME Frames, HeapInv, NEW p, p = arg(1), NEW type, NEW len, program("Lclone", 1),
         is_object(p), ~is_string(p), type = object_at(p).type, len = object_at(p).len,
         enter("Lclone", type, len, <<arg_cell(1)>>, << >>)
  PROVE  HeapInv' /\ Requested' /\ running' = "program" /\ statics' = statics
<1>1. 1 \in 1 .. Len(stack) /\ Idle
  BY CallOf
<1>2. type \in lama_type /\ len \in Nat /\ type # "STRING"
  <2>1. object_at(p) \in Object
    BY <1>1 DEF Idle, objects, is_object, object_at
  <2> QED BY <2>1 DEF Object, is_string
<1>3. ASSUME entered("Lclone", type, len) PROVE Requested'
  <2>1. /\ refers(shown_arg(1))' /\ shown_object(shown_arg(1))'.type = type
        /\ shown_object(shown_arg(1))'.len = len
    <3> PICK v : v = shown_arg(1)' OBVIOUS
    <3>1. refers(v)' /\ shown_object(v)'.type = type /\ shown_object(v)'.len = len
      BY <1>1, <1>3, ArgShown
    <3> QED BY <3>1 DEF refers, shown_object
  <2> QED BY <1>2, <1>3, <2>1 DEF entered, Requested, called, in_call, the_buffer
<1> QED BY <1>2, <1>3, NoCellsHeap

LEMMA StringArg ==
  ASSUME Idle, NEW p, is_string(p)
  PROVE  /\ object_at(p) \in Object /\ object_at(p).type = "STRING"
         /\ Len(object_at(p).words) = object_at(p).len /\ object_at(p).len \in Nat
BY DEF Idle, objects, is_string, is_object, object_at, Object

\* What is seen of an argument that is a string.
LEMMA StringArgShown ==
  ASSUME Idle, NEW f, NEW type, NEW len, entered(f, type, len),
         NEW k \in 1 .. Len(stack), NEW p, p = arg(k), is_string(p), NEW v, v = shown_arg(k)'
  PROVE  /\ string_shown(v)' /\ shown_object(v)'.len = object_at(p).len
         /\ text_of(v)' = Len(c_text(object_at(p).words))
         /\ Len(c_text(object_at(p).words)) \in Nat
         /\ Len(c_text(object_at(p).words)) <= object_at(p).len
<1> PICK o : o = object_at(p) OBVIOUS
<1> PICK w : w = abs_object(o)'.words OBVIOUS
<1>1. o \in Object /\ o.type = "STRING" /\ Len(o.words) = o.len /\ o.len \in Nat /\ is_object(p)
  BY StringArg DEF is_string
<1>2. /\ refers(v)' /\ shown_object(v)' = abs_object(o)'
      /\ shown_object(v)'.type = o.type /\ shown_object(v)'.len = o.len
  <2>1. object_at(p)' = o
    BY DEF entered, object_at
  <2>2. /\ refers(v)' /\ shown_object(v)' = abs_object(object_at(p))'
        /\ shown_object(v)'.type = o.type /\ shown_object(v)'.len = o.len
    BY <1>1, ArgShown
  <2>3. abs_object(object_at(p))' = abs_object(o)'
    BY <2>1
  <2> QED BY <2>2, <2>3
<1>3. /\ o.words \in Seq(Nat) /\ DOMAIN w = 1 .. o.len
      /\ \A i \in 1 .. o.len : w[i] = <<"word", o.words[i]>>
  <2>1. fields(o) = {} /\ o.words \in Seq(Nat) /\ DOMAIN o.words = 1 .. o.len
    BY <1>1, StringShown
  <2>2. w = [i \in DOMAIN o.words |-> IF i \in fields(o) THEN abs_word(o.words[i])'
                                                         ELSE <<"word", o.words[i]>>]
    BY DEF abs_object, abs_words
  <2> QED BY <2>1, <2>2
<1>4. /\ Len(c_text(o.words)) \in Nat /\ Len(c_text(o.words)) <= o.len
      /\ Len(c_text(o.words)) = text_length(w)
  <2> PICK s : s = o.words OBVIOUS
  <2> PICK n : n = o.len OBVIOUS
  <2>1. s \in Seq(Nat) /\ n = Len(s) /\ DOMAIN w = 1 .. n /\ \A i \in 1 .. n : w[i] = <<"word", s[i]>>
    BY <1>1, <1>3
  <2>2. /\ Len(c_text(s)) \in Nat /\ Len(c_text(s)) <= n
        /\ Len(c_text(s)) = text_length(w)
    BY ONLY <2>1, TextShown
  <2> QED BY <2>2
<1>5. text_of(v)' = Len(c_text(o.words))
  BY <1>2, <1>4 DEF text_of
<1>6. string_shown(v)'
  BY <1>1, <1>2 DEF string_shown
<1> QED BY <1>2, <1>4, <1>5, <1>6

LEMMA CloneStringCalls ==
  ASSUME Frames, HeapInv, NEW p, p = arg(1), program("Lclone", 1), is_string(p),
         NEW len, len = Len(c_text(object_at(p).words)), NEW ls, ls = [Bstring_p |-> p],
         enter("Lclone_string", "STRING", len, <<arg_cell(1), buffer>>, ls)
  PROVE  HeapInv' /\ Requested' /\ running' = "program" /\ statics' = statics
<1> PICK R : R = references(DOMAIN mem) OBVIOUS
<1>1. /\ 1 \in 1 .. Len(stack) /\ Idle /\ p \in R /\ Len(stack) \in Nat
      /\ DOMAIN stack = 1 .. Len(stack) /\ Len(stack) >= 1 /\ pc = "run" /\ running = "program"
  BY CallOf
<1>2. len \in Nat /\ "STRING" \in lama_type
  <2> PICK o : o = object_at(p) OBVIOUS
  <2>1. o \in Object /\ o.type = "STRING" /\ Len(o.words) = o.len /\ o.len \in Nat
    BY <1>1, StringArg
  <2>2. o.words \in Seq(Nat)
    BY <2>1, StringShown
  <2> PICK w : w = [i \in 1 .. o.len |-> <<"word", o.words[i]>>] OBVIOUS
  <2>3. len \in Nat
    BY <2>1, <2>2, TextShown
  <2> QED BY <2>3 DEF lama_type
<1>3. DOMAIN ls = {"Bstring_p"} /\ ls \in [DOMAIN ls -> R] /\ ls["Bstring_p"] = p
  BY <1>1
<1>4. registers(<<arg_cell(1), buffer>>, DOMAIN ls)
  BY <1>1, <1>3, Registered
<1>5. ASSUME entered("Lclone_string", "STRING", len) PROVE Requested'
  <2> PICK v : v = shown_arg(1)' OBVIOUS
  <2>1. string_shown(v)' /\ text_of(v)' = len
    BY <1>1, <1>5, StringArgShown
  <2>2. extra' = <<sysargs, arg_cell(1), buffer>> /\ locals' = with_locals(ls)
    <3>1. ~pool_overflow(<<arg_cell(1), buffer>>)
      BY <1>5 DEF enter, stop, failure, entered
    <3>2. extra' = pushed_roots(<<arg_cell(1), buffer>>) /\ locals' = with_locals(ls)
      BY <3>1 DEF enter
    <3>3. extra = <<sysargs>>
      BY <1>1 DEF Frames, Pool
    <3> QED BY <3>2, <3>3, Concatenated DEF pushed_roots
  <2>3. cell_word(extra[3])' = p
    <3>1. extra'[3] = buffer
      BY <2>2
    <3>2. locals'["Bstring_p"] = p
      BY <1>3, <2>2 DEF with_locals
    <3> QED BY <3>1, <3>2 DEF cell_word, buffer, local_cell
  <2>4. shown_cell(3)' = v
    <3>1. 3 \in 1 .. Len(extra')
      BY <2>2
    <3>2. shows(shown_cell(3), cell_word(extra[3]))' /\ shows(shown_arg(1), arg(1))'
      BY <1>1, <1>5, <3>1 DEF entered, RootsShown
    <3>3. arg(1)' = p
      BY <1>5 DEF entered, arg, operand
    <3>4. shown_cell(3)' = abs_word(cell_word(extra[3]))' /\ v = abs_word(arg(1))'
      BY <3>2 DEF shows
    <3> QED BY <2>3, <3>3, <3>4
  <2>5. (string_shown(shown_arg(1)) /\ text_of(shown_arg(1)) = len /\ shown_cell(3) = shown_arg(1))'
    BY <2>1, <2>4 DEF string_shown, text_of, refers, shown_object
  <2> QED BY <1>5, <2>5 DEF entered, Requested, called, in_call, the_buffer
<1> QED BY <1>1, <1>2, <1>3, <1>4, <1>5, CallHeap

LEMMA ConcatenationCalls ==
  ASSUME Frames, HeapInv, NEW p, p = arg(1), NEW q, q = arg(2), program("Li__Infix_4343", 2),
         is_string(p), is_string(q), NEW len, len = object_at(p).len + object_at(q).len,
         enter("Li__Infix_4343", "STRING", len, <<arg_cell(1), arg_cell(2)>>, << >>)
  PROVE  HeapInv' /\ Requested' /\ running' = "program" /\ statics' = statics
<1>1. 1 \in 1 .. Len(stack) /\ 2 \in 1 .. Len(stack) /\ Idle
  BY CallOf
<1>2. len \in Nat /\ "STRING" \in lama_type
  <2>1. object_at(p).len \in Nat /\ object_at(q).len \in Nat
    BY <1>1, StringArg
  <2> QED BY <2>1 DEF lama_type
<1>3. ASSUME entered("Li__Infix_4343", "STRING", len) PROVE Requested'
  <2> PICK v : v = shown_arg(1)' OBVIOUS
  <2> PICK w : w = shown_arg(2)' OBVIOUS
  <2>1. string_shown(v)' /\ shown_object(v)'.len = object_at(p).len
    BY <1>1, <1>3, StringArgShown
  <2>2. string_shown(w)' /\ shown_object(w)'.len = object_at(q).len
    BY <1>1, <1>3, StringArgShown
  <2>3. (/\ string_shown(shown_arg(1)) /\ string_shown(shown_arg(2))
         /\ shown_object(shown_arg(1)).len = object_at(p).len
         /\ shown_object(shown_arg(2)).len = object_at(q).len)'
    <3>1. object_at(p)' = object_at(p) /\ object_at(q)' = object_at(q)
      BY <1>3 DEF entered, object_at
    <3> QED BY <2>1, <2>2, <3>1 DEF string_shown, refers, shown_object
  <2>4. shown_object(shown_arg(1))'.len + shown_object(shown_arg(2))'.len = len
    BY <1>3, <2>3 DEF entered, object_at
  <2> QED BY <1>3, <2>3, <2>4 DEF entered, Requested, called, in_call, the_buffer
<1> QED BY <1>2, <1>3, NoCellsHeap

LEMMA SubstringCalls ==
  ASSUME Frames, HeapInv, NEW p, p = arg(1), NEW pp, pp = UNBOX(arg(2)), NEW ll, ll = UNBOX(arg(3)),
         program("Lsubstring", 3), is_string(p), UNBOXED(arg(2)), UNBOXED(arg(3)),
         pp + ll <= object_at(p).len,
         enter("Lsubstring", "STRING", ll, <<arg_cell(1)>>, << >>)
  PROVE  HeapInv' /\ Requested' /\ running' = "program" /\ statics' = statics
<1> PICK x : x = arg(2) OBVIOUS
<1> PICK y : y = arg(3) OBVIOUS
<1> PICK n : n = object_at(p).len OBVIOUS
<1>1. /\ 1 \in 1 .. Len(stack) /\ 2 \in 1 .. Len(stack) /\ 3 \in 1 .. Len(stack) /\ Idle
      /\ x \in Nat /\ y \in Nat
      /\ \A z \in Nat : UNBOXED(z) => ~is_object(z)
  BY CallOf
<1>2. ~is_object(x) /\ ~is_object(y)
  BY <1>1
<1>3. pp \in Nat /\ BOX(pp) = x /\ ll \in Nat /\ BOX(ll) = y
  <2>1. ASSUME NEW z \in Nat, UNBOXED(z) PROVE UNBOX(z) \in Nat /\ BOX(UNBOX(z)) = z
    BY <2>1 DEF UNBOXED, UNBOX, BOX
  <2> QED BY <1>1, <2>1
<1>4. n \in Nat /\ pp + ll <= n /\ pp \in 0 .. n /\ "STRING" \in lama_type
  <2>1. n \in Nat
    BY <1>1, StringArg
  <2> QED BY <1>3, <2>1 DEF lama_type
<1>5. ASSUME entered("Lsubstring", "STRING", ll) PROVE Requested'
  <2> PICK v : v = shown_arg(1)' OBVIOUS
  <2>1. string_shown(v)' /\ shown_object(v)'.len = n
    BY <1>1, <1>5, StringArgShown
  <2>2. shown_arg(2)' = <<"word", BOX(pp)>> /\ shown_arg(3)' = <<"word", BOX(ll)>>
    BY <1>1, <1>2, <1>3, <1>5, ArgShown
  <2>3. string_shown(shown_arg(1))' /\ shown_object(shown_arg(1))'.len = n
    BY <2>1 DEF string_shown, refers, shown_object
  <2>4. /\ integer_shown(shown_arg(3), req.len)' /\ req'.len = ll
        /\ integer_shown(shown_arg(2), pp)'
    BY <1>5, <2>2 DEF integer_shown, entered
  <2>5. (\E k \in 0 .. shown_object(shown_arg(1)).len :
            /\ integer_shown(shown_arg(2), k)
            /\ k + req.len <= shown_object(shown_arg(1)).len)'
    BY <1>4, <2>3, <2>4
  <2> QED BY <1>5, <2>3, <2>4, <2>5 DEF entered, Requested, called, in_call, the_buffer
<1> QED BY <1>3, <1>4, <1>5, NoCellsHeap

\* A text is a literal, the contents of a buffer, or empty.
LEMMA TextCharacters == Strings \subseteq Texts /\ Texts \subseteq Seq(Nat \ {0})
BY CallsAssumption, EmptySeq DEF Texts

LEMMA BufferCalls ==
  ASSUME Frames, HeapInv, NEW op, NEW n \in Nat, program(op, n),
         NEW f \in the_buffer \cup {"Lstring", "Lstringcat"}, f \notin the_buffer => n >= 1,
         NEW s \in Texts, NEW cells, cells = IF f \in the_buffer THEN << >> ELSE <<arg_cell(1)>>,
         bstring(f, s, cells, << >>)
  PROVE  HeapInv' /\ Requested' /\ running' = "program" /\ statics' = statics
<1> PICK R : R = references(DOMAIN mem) OBVIOUS
<1> PICK all : all = cells \o <<buffer>> OBVIOUS
<1> PICK ls : ls = [x \in DOMAIN << >> \cup {"Bstring_p"} |->
                      IF x = "Bstring_p" THEN foreign_addr ELSE << >>[x]] OBVIOUS
<1> PICK len : len = Len(s) OBVIOUS
<1>1. enter(f, "STRING", len, all, ls)
  BY DEF bstring, buffer
<1>2. all = IF f \in the_buffer THEN <<buffer>> ELSE <<arg_cell(1), buffer>>
  BY Concatenated
<1>3. DOMAIN ls = {"Bstring_p"} /\ ls \in [DOMAIN ls -> R]
  <2>1. foreign_addr \in R
    BY PlainWords
  <2>2. DOMAIN << >> \cup {"Bstring_p"} = {"Bstring_p"}
    OBVIOUS
  <2>3. ls = [x \in {"Bstring_p"} |-> foreign_addr]
    BY <2>2
  <2> QED BY <2>1, <2>3
<1>4. Len(stack) \in Nat /\ DOMAIN stack = 1 .. Len(stack) /\ Len(stack) >= n
  BY CallOf
<1>5. registers(all, DOMAIN ls)
  <2> PICK D : D = DOMAIN ls OBVIOUS
  <2>1. "Bstring_p" \in D
    BY <1>3
  <2>2. /\ registers(<<buffer>>, D)
        /\ Len(stack) >= 1 => registers(<<arg_cell(1), buffer>>, D)
    BY <1>4, <2>1, Registered
  <2>3. f \notin the_buffer => Len(stack) >= 1
    BY <1>4
  <2> QED BY <1>2, <2>2, <2>3
<1>6. len \in Nat /\ "STRING" \in lama_type
  BY TextCharacters, LenProperties DEF lama_type
<1>7. ASSUME entered(f, "STRING", len) PROVE Requested'
  <2>1. f \in {"Bstring", "LgetEnv", "LreadLine", "Lstring", "Lstringcat"}
    BY DEF the_buffer
  <2> QED BY <1>7, <2>1 DEF entered, Requested, called, in_call
<1> QED BY <1>1, <1>3, <1>5, <1>6, <1>7, CallHeap

LEMMA ReadCalls ==
  ASSUME Frames, HeapInv, NEW s \in Strings, program("Lfread", 1), NEW len, len = Len(s),
         enter("Lfread", "STRING", len, << >>, << >>)
  PROVE  HeapInv' /\ Requested' /\ running' = "program" /\ statics' = statics
<1>1. len \in Nat /\ "STRING" \in lama_type
  BY CallsAssumption DEF lama_type
<1>2. ASSUME entered("Lfread", "STRING", len) PROVE Requested'
  BY <1>2 DEF entered, Requested, called, in_call, the_buffer
<1> QED BY <1>1, <1>2, NoCellsHeap

LEMMA EnterStepHeap ==
  ASSUME Frames, HeapInv, ProperCalls, Enter
  PROVE  HeapInv' /\ Requested' /\ running' = "program" /\ statics' = statics
<1> PICK R : R = references(DOMAIN mem) OBVIOUS
<1>1. 0 \in Nat /\ 1 \in Nat /\ 2 \in Nat /\ 3 \in Nat /\ BOX(0) \in R
  BY PlainWords
<1>2. CASE LmakeArray_fail \/ LmakeString_fail \/ Li__Infix_4343_fail \/ Lsubstring_fail
           \/ Lfread_fail
  <2>1. \E op : \E n \in {1, 2, 3} : program(op, n) /\ \E f : stop(f, "failure")
    BY <1>2 DEF LmakeArray_fail, LmakeString_fail, Li__Infix_4343_fail, Lsubstring_fail,
       Lfread_fail
  <2> QED BY <1>1, <2>1, StopCalled
<1>3. CASE LmakeArray
  BY <1>3, IntegerCalls DEF LmakeArray
<1>4. CASE LmakeString
  BY <1>4, IntegerCalls DEF LmakeString
<1>5. CASE Barray \/ Bsexp \/ Bclosure
  BY <1>5, MembersCalls DEF Barray, Bsexp, Bclosure
<1>6. CASE Lclone
  BY <1>6, CloneCalls DEF Lclone
<1>7. CASE Lclone_string
  BY <1>7, CloneStringCalls DEF Lclone_string, buffer
<1>8. CASE Lclone_unboxed
  <2>1. program("Lclone", 1) /\ returns(arg(1), 1)
    BY <1>8 DEF Lclone_unboxed
  <2>2. arg(1) \in R
    BY <1>1, <2>1, CallOf
  <2> QED BY <1>1, <2>1, <2>2, ReturnsCalled
<1>9. CASE Li__Infix_4343
  BY <1>9, ConcatenationCalls DEF Li__Infix_4343
<1>10. CASE Lsubstring
  BY <1>10, SubstringCalls DEF Lsubstring
<1>11. CASE Bstring
  <2>1. PICK s \in Strings : program("Bstring", 0) /\ bstring("Bstring", s, << >>, << >>)
    BY <1>11 DEF Bstring
  <2> QED BY <1>1, <2>1, TextCharacters, BufferCalls DEF the_buffer
<1>12. CASE LgetEnv
  <2>1. program("LgetEnv", 1)
    BY <1>12 DEF LgetEnv
  <2>2. ASSUME NEW s \in Strings, bstring("LgetEnv", s, << >>, << >>)
        PROVE  HeapInv' /\ Requested' /\ running' = "program" /\ statics' = statics
    BY <1>1, <2>1, <2>2, TextCharacters, BufferCalls DEF the_buffer
  <2>3. CASE returns(BOX(0), 1)
    BY <1>1, <2>1, <2>3, ReturnsCalled
  <2> QED BY <1>12, <2>2, <2>3 DEF LgetEnv
<1>13. CASE LreadLine
  <2>1. program("LreadLine", 0)
    BY <1>13 DEF LreadLine
  <2>2. ASSUME NEW s \in Strings, bstring("LreadLine", s, << >>, << >>)
        PROVE  HeapInv' /\ Requested' /\ running' = "program" /\ statics' = statics
    BY <1>1, <2>1, <2>2, TextCharacters, BufferCalls DEF the_buffer
  <2>3. CASE returns(BOX(0), 0)
    BY <1>1, <2>1, <2>3, ReturnsCalled
  <2>4. CASE stop("LreadLine", "failure")
    BY <1>1, <2>1, <2>4, StopCalled
  <2> QED BY <1>13, <2>2, <2>3, <2>4 DEF LreadLine
<1>14. CASE Lstring
  <2>1. PICK s \in Strings : program("Lstring", 1) /\ bstring("Lstring", s, <<arg_cell(1)>>, << >>)
    BY <1>14 DEF Lstring
  <2> QED BY <1>1, <2>1, TextCharacters, BufferCalls DEF the_buffer
<1>15. CASE Lstringcat
  <2>1. PICK s \in Texts :
          program("Lstringcat", 1) /\ bstring("Lstringcat", s, <<arg_cell(1)>>, << >>)
    BY <1>15 DEF Lstringcat, stringcat, Texts
  <2> QED BY <1>1, <2>1, TextCharacters, BufferCalls DEF the_buffer
<1>16. CASE Lfread
  <2>1. program("Lfread", 1)
    BY <1>16 DEF Lfread
  <2>2. ASSUME NEW s \in Strings, enter("Lfread", "STRING", Len(s), << >>, << >>)
        PROVE  HeapInv' /\ Requested' /\ running' = "program" /\ statics' = statics
    BY <2>1, <2>2, ReadCalls
  <2>3. CASE stop("Lfread", "failure")
    BY <1>1, <2>1, <2>3, StopCalled
  <2> QED BY <1>16, <2>2, <2>3 DEF Lfread
<1>17. ~Ls__Infix_58 /\ ~Lsprintf /\ ~Lsprintf_fail
  BY DEF ProperCalls, Ls__Infix_58, Lsprintf, Lsprintf_fail, program
<1> QED BY <1>2, <1>3, <1>4, <1>5, <1>6, <1>7, <1>8, <1>9, <1>10, <1>11, <1>12, <1>13,
           <1>14, <1>15, <1>16, <1>17 DEF Enter

-------------------------------------------------------------------------------
(* The heap when a function returns *)

\* global_sysargs is at the bottom of the pool for ever.
LEMMA FirstRegistered ==
  ASSUME Frames, extra \in Seq(Cell), running = "program", pc # "failed"
  PROVE  Len(extra) \in Nat /\ Len(extra) >= 1 /\ extra[1] = sysargs
<1>1. CASE extra = <<sysargs>> \/ \E c : extra = <<sysargs, c>> \/ \E d : extra = <<sysargs, c, d>>
  BY <1>1
<1>2. ASSUME called({"Bclosure"}) PROVE Len(extra) >= 1 /\ extra[1] = sysargs
  <2> PICK n : n = req.len - 1 OBVIOUS
  <2>1. n \in Nat /\ extra = <<sysargs>> \o captured_cells(n)
    BY <1>2 DEF Frames, CallPool
  <2> PICK c : c = captured_cells(n) OBVIOUS
  <2> PICK a : a = <<sysargs>> OBVIOUS
  <2> PICK S : S = {sysargs} \cup {c[k] : k \in 1 .. n} OBVIOUS
  <2>2. a \in Seq(S) /\ Len(a) = 1 /\ a[1] = sysargs
    OBVIOUS
  <2>3. c = [k \in 1 .. n |-> c[k]] /\ \A k \in 1 .. n : c[k] \in S
    BY DEF captured_cells
  <2>4. c \in Seq(S)
    BY ONLY <2>1, <2>3, FunctionIsSeq
  <2>5. extra = a \o c
    BY <2>1
  <2>6. Len(extra) = Len(a) + Len(c) /\ extra[1] = a[1]
    <3>1. Len(c) \in Nat /\ 1 \in 1 .. Len(a)
      BY <2>2, <2>4
    <3>2. Len(a \o c) = Len(a) + Len(c) /\ \A i \in 1 .. Len(a) + Len(c) :
            (a \o c)[i] = IF i <= Len(a) THEN a[i] ELSE c[i - Len(a)]
      BY ONLY <2>2, <2>4, ConcatProperties
    <3>3. 1 \in 1 .. Len(a) + Len(c) /\ 1 <= Len(a)
      BY ONLY <3>1, <2>2
    <3> QED BY <2>5, <3>2, <3>3
  <2> QED BY <2>2, <2>4, <2>6
<1>3. pc = "run" => extra = <<sysargs>>
  BY DEF Frames, Pool
<1>4. pc # "run" => called({req.op})
  BY DEF called, in_call
<1>5. \A ops : req.op \in ops /\ called({req.op}) => called(ops)
  BY DEF called
<1>6. Len(extra) \in Nat
  OBVIOUS
<1> QED BY <1>1, <1>2, <1>3, <1>4, <1>5, <1>6 DEF Frames, CallPool

\* An object that a function may place.
sound_object(o) ==
  /\ o \in Object /\ ~o.marked /\ ~o.enqueued /\ o.id = cur_id
  /\ o.type = "STRING" => Len(o.words) = o.len
  /\ \A i \in fields(o) : o.words[i] \in references(DOMAIN mem)

LEMMA Placing ==
  ASSUME HeapInv, NEW o, sound_object(o), place_object(o), req' = req, cur_id' = cur_id, CleanRoots'
  PROVE  HeapInv' /\ pc' = "run"
<1>1. o \in Object /\ ~o.marked /\ ~o.enqueued /\ o.id = cur_id /\ pc' = "run"
  BY DEF sound_object, place_object
<1>2. Structure'
  <2>1. shaped(o)
    BY <1>1 DEF shaped, Object, ObjectFields
  <2> QED BY <2>1, PlaceObject DEF HeapInv
<1>3. Soundness'
  <2>1. DOMAIN mem' = DOMAIN mem \cup {heap.current}
    BY DEF place_object
  <2>2. references(DOMAIN mem) \subseteq references(DOMAIN mem')
    BY <2>1, ReferencesGrow
  <2>3. \A i \in fields(o) : o.words[i] \in references(DOMAIN mem')
    BY <2>2 DEF sound_object
  <2> QED BY <1>1, <2>3, PlacedSound DEF sound_object, HeapInv
<1>4. Identity' /\ Reached'
  BY <1>1, PlacedIdentity DEF Reached, marking, HeapInv
<1> QED BY <1>1, <1>2, <1>3, <1>4 DEF HeapInv

\* The words that are there stay references when an object is placed, and its
\* address is one.
LEMMA PlacedRoots ==
  ASSUME HeapInv, NEW o, place_object(o), NEW R, R = references(DOMAIN mem), NEW P, P = references(DOMAIN mem')
  PROVE  /\ gc_idle /\ Idle /\ R \subseteq P /\ P \subseteq Nat /\ new_address \in P
         /\ stack \in Seq(P) /\ statics \in Seq(P)
<1> PICK at : at = heap.current OBVIOUS
<1>1. gc_idle /\ Idle /\ DOMAIN mem' = DOMAIN mem \cup {at}
  BY IdleHeap DEF place_object, gc_idle
<1>2. R \subseteq P /\ P \subseteq Nat
  BY <1>1, ReferencesGrow DEF references
<1>3. new_address \in P
  <2> PICK p : p = new_address OBVIOUS
  <2>1. p = at + 8
    BY DEF new_address, get_object_content_ptr, DATA_HEADER_SZ
  <2>2. at \in Nat
    BY <1>1 DEF Idle, Places
  <2>3. p \in Nat /\ TO_DATA(p) = at
    BY ONLY <2>1, <2>2 DEF TO_DATA, DATA_HEADER_SZ
  <2> QED BY <1>1, <2>3 DEF references
<1> QED BY <1>1, <1>2, <1>3, SeqGrows DEF Idle

\* The cells are on top of the pool, the arguments on the stack.
ready(n, pops) == /\ pops_match(pops) /\ popped_roots(pops) = <<sysargs>>
                  /\ n \in Nat /\ arguments(n)

LEMMA LeaveHeap ==
  ASSUME Frames, HeapInv, NEW f, f \notin {"set_args", "set_args_bstring"},
         NEW o, NEW n, NEW pops, leave(f, o, n, pops), called({f}) => sound_object(o) /\ ready(n, pops)
  PROVE  HeapInv' /\ Requested' /\ running' = "program" /\ statics' = statics
<1> PICK R : R = references(DOMAIN mem) OBVIOUS
<1> PICK P : P = references(DOMAIN mem') OBVIOUS
<1> PICK v : v = new_address OBVIOUS
<1>1. called({f})
  BY WasCalled DEF leave, leave_with
<1>2. /\ place_object(o) /\ stack' = push(popped(n), v) /\ extra' = <<sysargs>>
      /\ locals' = kept_locals /\ UNCHANGED <<statics, req, cur_id, running, exit>>
      /\ running = "program" /\ n \in Nat /\ arguments(n) /\ sound_object(o)
  BY <1>1 DEF leave, leave_with, called, ready
<1>3. /\ gc_idle /\ Idle /\ R \subseteq P /\ P \subseteq Nat /\ v \in P
      /\ stack \in Seq(P) /\ statics \in Seq(P)
  BY <1>2, PlacedRoots
<1>4. stack' \in Seq(P)
  <2>1. n \in 0 .. Len(stack)
    BY <1>2, <1>3, CallsAssumption DEF arguments, Idle
  <2>2. popped(n) \in Seq(P)
    BY <1>3, <2>1, Operands
  <2> QED BY <1>2, <1>3, <2>2, Pushing
<1>5. "global_sysargs" \in DOMAIN locals /\ locals.global_sysargs \in R
  <2>1. /\ extra \in Seq(Cell) /\ Len(extra) \in Nat /\ Len(extra) >= 1 /\ extra[1] = sysargs
    BY <1>1, <1>2, <1>3, FirstRegistered DEF Idle, ClientTypeOK, called, in_call
  <2>2. 1 \in DOMAIN extra /\ sysargs \in Cell
    BY <2>1
  <2>3. cell_word(extra[1]) \in R
    BY <1>3, <2>2 DEF Idle, roots_in, cells_in
  <2> QED BY <2>1, <2>2, <2>3 DEF sysargs, local_cell, Cell, cell_word
<1>6. locals' \in [DOMAIN locals' -> Nat] /\ DOMAIN locals' = {"global_sysargs"} /\ locals'.global_sysargs = locals.global_sysargs
  BY <1>2, <1>3, <1>5 DEF kept_locals
<1>7. CleanRoots'
  <2>1. DOMAIN extra' = {1} /\ extra'[1] = sysargs /\ Len(extra') = 1
    BY <1>2
  <2>2. sysargs \in Cell'
    BY <1>6 DEF Cell, sysargs, local_cell
  <2>3. extra' \in Seq(Cell')
    BY <1>2, <2>2
  <2>4. cell_word(extra[1])' \in P
    BY <1>3, <1>5, <1>6, <2>1 DEF cell_word, sysargs, local_cell
  <2>5. roots_in(references(DOMAIN mem))'
    <3>1. cells_in(DOMAIN extra, references(DOMAIN mem))'
      BY <2>1, <2>4 DEF cells_in, references, outside
    <3>2. statics' \in Seq(P)
      BY <1>2, <1>3
    <3>3. stack' \in Seq(references(DOMAIN mem))' /\ statics' \in Seq(references(DOMAIN mem))'
      BY <1>4, <3>2 DEF references, outside
    <3> QED BY <3>1, <3>3 DEF roots_in
  <2> QED BY <1>6, <2>1, <2>3, <2>5, PoolAssumption, ThreeCellsAssumption DEF CleanRoots
<1>8. HeapInv' /\ pc' = "run"
  BY <1>2, <1>7, Placing
<1> QED BY <1>2, <1>8 DEF Requested, called, in_call

LEMMA Ready ==
  ASSUME Frames, NEW f, called({f})
  PROVE  /\ f \in {"LmakeArray", "LmakeString", "Lfread"} => ready(1, << >>)
         /\ f \in {"Barray", "Bsexp"} => ready(req.len, << >>)
         /\ f = "Bclosure" => ready(req.len - 1, captured_cells_popped(req.len - 1))
         /\ f = "Lclone" => ready(1, <<arg_cell(1)>>)
         /\ f = "Lsubstring" => ready(3, <<arg_cell(1)>>)
         /\ f = "Li__Infix_4343" => ready(2, <<arg_cell(2), arg_cell(1)>>)
         /\ f = "Lclone_string" => ready(1, <<buffer, arg_cell(1)>>)
         /\ f \in {"Bstring", "LreadLine"} => ready(0, <<buffer>>)
         /\ f = "LgetEnv" => ready(1, <<buffer>>)
         /\ f \in {"Lstring", "Lstringcat"} => ready(1, <<buffer, arg_cell(1)>>)
<1>1. \A ops : f \in ops => called(ops)
  BY DEF called
<1>2. 0 \in Nat /\ 1 \in Nat /\ 2 \in Nat /\ 3 \in Nat /\ arguments(0)
  BY CallsAssumption DEF Frames, Frame, arguments
<1>3. /\ f \in {"LmakeArray", "LmakeString", "Lclone", "Lclone_string", "LgetEnv", "Lstring",
                "Lstringcat", "Lfread"} => arguments(1)
      /\ f = "Li__Infix_4343" => arguments(2)
      /\ f = "Lsubstring" => arguments(3)
      /\ f \in {"Barray", "Bsexp"} => req.len \in Nat /\ arguments(req.len)
  BY <1>1 DEF Frames, Arguments, two_args
<1>4. ASSUME f = "Bclosure" PROVE ready(req.len - 1, captured_cells_popped(req.len - 1))
  <2> PICK n : n = req.len - 1 OBVIOUS
  <2> PICK a : a = sysargs OBVIOUS
  <2>1. called({"Bclosure"})
    BY <1>1, <1>4
  <2>2. n \in Nat /\ arguments(n) /\ extra = <<a>> \o captured_cells(n)
    BY <2>1 DEF Frames, CallPool, Arguments
  <2>3. pops_match(captured_cells_popped(n)) /\ popped_roots(captured_cells_popped(n)) = <<a>>
    BY <2>2, CapturedPopped
  <2>4. ready(n, captured_cells_popped(n))
    BY <2>2, <2>3 DEF ready
  <2> QED BY <2>4
<1>5. /\ f \in {"LmakeArray", "LmakeString", "Lfread"} => ready(1, << >>)
      /\ f \in {"Barray", "Bsexp"} => ready(req.len, << >>)
  BY <1>2, <1>3, Popped DEF ready, no_cells
<1>6. /\ f = "Lclone" => ready(1, <<arg_cell(1)>>)
      /\ f = "Lsubstring" => ready(3, <<arg_cell(1)>>)
      /\ f = "Li__Infix_4343" => ready(2, <<arg_cell(2), arg_cell(1)>>)
  BY <1>2, <1>3, Popped DEF ready, one_arg, two_args
<1>7. /\ f = "Lclone_string" => ready(1, <<buffer, arg_cell(1)>>)
      /\ f \in {"Bstring", "LreadLine"} => ready(0, <<buffer>>)
      /\ f = "LgetEnv" => ready(1, <<buffer>>)
      /\ f \in {"Lstring", "Lstringcat"} => ready(1, <<buffer, arg_cell(1)>>)
  BY <1>2, <1>3, Popped DEF ready, the_buffer, arg_and_buffer
<1> QED BY <1>4, <1>5, <1>6, <1>7

\* When a call of the program returns.
LEMMA ReturnOf ==
  ASSUME Frames, HeapInv, NEW f, called({f}), pc \in {"alloc", "retry"}
  PROVE  /\ gc_idle /\ Idle /\ RootsShown /\ req.op = f
         /\ req.type \in lama_type /\ req.len \in Nat /\ cur_id \in Nat
         /\ Len(stack) \in Nat /\ FrameWords \in Nat
         /\ \A n \in Nat : arguments(n) => \A k \in 1 .. n :
              /\ k \in 1 .. Len(stack) /\ arg(k) \in references(DOMAIN mem)
              /\ shows(shown_arg(k), arg(k))
<1>1. gc_idle /\ Idle /\ RootsShown /\ req.op = f
  BY IdleHeap, IdleShown DEF gc_idle, called
<1>2. req.type \in lama_type /\ req.len \in Nat /\ cur_id \in Nat
  BY <1>1 DEF Idle, ClientTypeOK
<1>3. Len(stack) \in Nat /\ FrameWords \in Nat /\ stack \in Seq(references(DOMAIN mem))
  BY <1>1, CallsAssumption DEF Idle
<1>4. ASSUME NEW n \in Nat, arguments(n), NEW k \in 1 .. n
      PROVE  /\ k \in 1 .. Len(stack) /\ arg(k) \in references(DOMAIN mem)
             /\ shows(shown_arg(k), arg(k))
  <2>1. k \in 1 .. Len(stack)
    BY <1>3, <1>4 DEF arguments
  <2>2. arg(k) \in references(DOMAIN mem)
    BY <1>3, <2>1, Operands DEF arg
  <2> QED BY <1>1, <2>1, <2>2 DEF RootsShown
<1> QED BY <1>1, <1>2, <1>3, <1>4

\* The new object of a return.
LEMMA NewObject ==
  ASSUME req.type \in lama_type, req.len \in Nat, cur_id \in Nat, NEW c \in Seq(Nat),
         req.type = "STRING" => Len(c) = req.len,
         \A i \in first_field(req.type, req.len) .. Len(c) : c[i] \in references(DOMAIN mem),
         NEW o, o = new_object(c)
  PROVE  sound_object(o)
<1>1. /\ o.id = cur_id /\ o.type = req.type /\ o.len = req.len /\ o.words = c
      /\ ~o.marked /\ ~o.enqueued
  BY DEF new_object
<1>2. o \in Object
  BY DEF new_object, Object, Word
<1> QED BY <1>1, <1>2 DEF sound_object, fields

LEMMA NewString ==
  ASSUME req.type = "STRING", req.len \in Nat, cur_id \in Nat, NEW c \in Seq(Nat),
         Len(c) = req.len, NEW o, o = new_object(c)
  PROVE  sound_object(o)
<1>1. \A i \in first_field(req.type, req.len) .. Len(c) : c[i] \in references(DOMAIN mem)
  BY DEF first_field
<1> QED BY <1>1, NewObject DEF lama_type

LEMMA NewMembers ==
  ASSUME NEW n \in Nat, NEW c, c = [i \in 1 .. n |-> c[i]],
         \A i \in 1 .. n : c[i] \in references(DOMAIN mem),
         req.type \in lama_type, req.len \in Nat, cur_id \in Nat,
         NEW o, \/ req.type = "ARRAY" /\ o = new_object(c)
                \/ req.type \in {"SEXP", "CLOSURE"} /\ o = new_object(<<raw_word>> \o c)
  PROVE  sound_object(o)
<1> PICK R : R = references(DOMAIN mem) OBVIOUS
<1>1. R \subseteq Nat
  BY DEF references
<1>2. c \in Seq(R) /\ Len(c) = n
  BY ONLY n \in Nat, c = [i \in 1 .. n |-> c[i]], \A i \in 1 .. n : c[i] \in references(DOMAIN mem),
     R = references(DOMAIN mem), FunctionIsSeq
<1>3. c \in Seq(Nat)
  BY <1>1, <1>2, SeqGrows
<1>4. CASE req.type = "ARRAY" /\ o = new_object(c)
  <2>1. \A i \in first_field(req.type, req.len) .. Len(c) : c[i] \in R
    BY <1>2, <1>4 DEF first_field
  <2> QED BY <1>3, <1>4, <2>1, NewObject
<1>5. CASE req.type \in {"SEXP", "CLOSURE"} /\ o = new_object(<<raw_word>> \o c)
  <2> PICK d : d = <<raw_word>> \o c OBVIOUS
  <2>1. d \in Seq(Nat) /\ \A i \in 2 .. Len(d) : d[i] \in R
    BY <1>1, <1>2, RawWord, Prefixed
  <2>2. first_field(req.type, req.len) = 2
    BY <1>5 DEF first_field
  <2>3. o = new_object(d) /\ req.type # "STRING"
    BY <1>5
  <2> QED BY <2>1, <2>2, <2>3, NewObject
<1> QED BY <1>4, <1>5

\* strncpy fills the buffer.
LEMMA Strncpy ==
  ASSUME NEW s \in Seq(Nat), NEW n \in Nat, NEW c, c = strncpy(s, n)
  PROVE  c \in Seq(Nat) /\ Len(c) = n
<1> PICK k : k = Len(c_text(s)) OBVIOUS
<1>1. k \in Nat /\ k <= Len(s) /\ Len(s) \in Nat
  <2> PICK m : m = Len(s) OBVIOUS
  <2> PICK w : w = [i \in 1 .. m |-> <<"word", s[i]>>] OBVIOUS
  <2>1. DOMAIN w = 1 .. m /\ \A i \in 1 .. m : w[i] = <<"word", s[i]>>
    OBVIOUS
  <2>2. Len(c_text(s)) \in Nat /\ Len(c_text(s)) <= m
    BY ONLY <2>1, s \in Seq(Nat), m = Len(s), TextShown
  <2> QED BY <2>2
<1>2. \A i \in 1 .. n : i <= k => s[i] \in Nat
  BY <1>1
<1>3. c = [i \in 1 .. n |-> IF i <= k THEN s[i] ELSE 0]
  BY DEF strncpy
<1>4. c = [i \in 1 .. n |-> c[i]] /\ \A i \in 1 .. n : c[i] \in Nat
  BY <1>2, <1>3
<1> QED BY ONLY n \in Nat, <1>4, FunctionIsSeq

LEMMA MembersReturn ==
  ASSUME Frames, HeapInv, Requested,
         LmakeArray_return \/ Barray_return \/ Bsexp_return \/ Bclosure_return
  PROVE  HeapInv' /\ Requested' /\ running' = "program" /\ statics' = statics
<1> PICK R : R = references(DOMAIN mem) OBVIOUS
<1>1. ASSUME NEW f \in {"LmakeArray", "Barray", "Bsexp", "Bclosure"}, NEW o, NEW n, NEW pops,
             leave(f, o, n, pops), called({f}) => sound_object(o) /\ ready(n, pops)
      PROVE  HeapInv' /\ Requested' /\ running' = "program" /\ statics' = statics
  BY <1>1, LeaveHeap
<1>2. ASSUME NEW f \in {"LmakeArray", "Barray", "Bsexp", "Bclosure"}, called({f}),
             pc \in {"alloc", "retry"}
      PROVE  /\ req.type = IF f = "Bsexp" THEN "SEXP" ELSE IF f = "Bclosure" THEN "CLOSURE" ELSE "ARRAY"
             /\ req.type \in lama_type /\ req.len \in Nat /\ cur_id \in Nat
             /\ \A n \in Nat : arguments(n) => \A k \in 1 .. n : arg(k) \in R
  <2>1. req.type = IF f = "Bsexp" THEN "SEXP" ELSE IF f = "Bclosure" THEN "CLOSURE" ELSE "ARRAY"
    BY <1>2 DEF Requested
  <2> QED BY <1>2, <2>1, ReturnOf
<1>3. CASE LmakeArray_return
  <2> PICK n : n = req.len OBVIOUS
  <2> PICK c : c = [i \in 1 .. n |-> BOX(0)] OBVIOUS
  <2> PICK o : o = new_object(c) OBVIOUS
  <2>1. leave("LmakeArray", o, 1, << >>) /\ pc \in {"alloc", "retry"}
    BY <1>3 DEF LmakeArray_return, leave, leave_with
  <2>2. ASSUME called({"LmakeArray"}) PROVE sound_object(o)
    <3>1. req.type = "ARRAY" /\ req.type \in lama_type /\ req.len \in Nat /\ cur_id \in Nat
      BY <1>2, <2>1, <2>2
    <3>2. c = [i \in 1 .. n |-> c[i]] /\ \A i \in 1 .. n : c[i] \in R
      BY PlainWords
    <3> QED BY <3>1, <3>2, NewMembers
  <2> QED BY <1>1, <2>1, <2>2, Ready
<1>4. CASE Barray_return \/ Bsexp_return
  <2> PICK n : n = req.len OBVIOUS
  <2> PICK c : c = members(n) OBVIOUS
  <2>1. PICK f, o : /\ leave(f, o, n, << >>) /\ pc \in {"alloc", "retry"}
                    /\ \/ f = "Barray" /\ o = new_object(c)
                       \/ f = "Bsexp" /\ o = new_object(<<raw_word>> \o c)
    BY <1>4 DEF Barray_return, Bsexp_return, leave, leave_with
  <2>2. called({f}) => ready(n, << >>)
    BY <2>1, Ready
  <2>3. ASSUME called({f}) PROVE sound_object(o)
    <3>1. /\ req.type = IF f = "Bsexp" THEN "SEXP" ELSE "ARRAY"
          /\ req.type \in lama_type /\ n \in Nat /\ cur_id \in Nat /\ \A k \in 1 .. n : arg(k) \in R
      BY <1>2, <2>1, <2>2, <2>3 DEF ready
    <3>2. c = [i \in 1 .. n |-> c[i]] /\ \A i \in 1 .. n : c[i] \in R
      BY <3>1 DEF members
    <3> QED BY <2>1, <3>1, <3>2, NewMembers
  <2> QED BY <1>1, <2>1, <2>2, <2>3
<1>5. CASE Bclosure_return
  <2> PICK n : n = req.len - 1 OBVIOUS
  <2> PICK c : c = members(n) OBVIOUS
  <2> PICK o : o = new_object(<<raw_word>> \o c) OBVIOUS
  <2> PICK pops : pops = captured_cells_popped(n) OBVIOUS
  <2>1. leave("Bclosure", o, n, pops) /\ pc \in {"alloc", "retry"}
    BY <1>5 DEF Bclosure_return, leave, leave_with
  <2>2. called({"Bclosure"}) => ready(n, pops)
    BY Ready
  <2>3. ASSUME called({"Bclosure"}) PROVE sound_object(o)
    <3>1. /\ req.type = "CLOSURE" /\ req.type \in lama_type /\ n \in Nat /\ req.len \in Nat
          /\ cur_id \in Nat /\ \A k \in 1 .. n : arg(k) \in R
      BY <1>2, <2>1, <2>2, <2>3 DEF ready
    <3>2. c = [i \in 1 .. n |-> c[i]] /\ \A i \in 1 .. n : c[i] \in R
      BY <3>1 DEF members
    <3> QED BY <3>1, <3>2, NewMembers
  <2> QED BY <1>1, <2>1, <2>2, <2>3
<1> QED BY <1>3, <1>4, <1>5

LEMMA CloneReturn ==
  ASSUME Frames, HeapInv, Requested, Lclone_return
  PROVE  HeapInv' /\ Requested' /\ running' = "program" /\ statics' = statics
<1> PICK o : o = memcpy(arg(1)) OBVIOUS
<1> PICK q : q = object_at(arg(1)) OBVIOUS
<1>1. leave("Lclone", o, 1, <<arg_cell(1)>>) /\ pc \in {"alloc", "retry"}
  BY DEF Lclone_return, leave, leave_with
<1>2. called({"Lclone"}) => ready(1, <<arg_cell(1)>>)
  BY Ready
<1>3. ASSUME called({"Lclone"}) PROVE sound_object(o)
  <2>1. gc_idle /\ Idle /\ cur_id \in Nat /\ shows(shown_arg(1), arg(1))
    <3>1. arguments(1) /\ 1 \in Nat /\ 1 \in 1 .. 1
      BY <1>2, <1>3 DEF ready
    <3> QED BY <1>1, <1>3, <3>1, ReturnOf
  <2>2. TO_DATA(arg(1)) \in DOMAIN mem
    BY <1>3, <2>1 DEF Requested, shows, is_object
  <2>3. /\ q \in Object /\ ~q.marked /\ ~q.enqueued
        /\ q.type = "STRING" => Len(q.words) = q.len
        /\ \A i \in fields(q) : q.words[i] \in references(DOMAIN mem)
    <3>1. ~q.marked /\ ~q.enqueued
      BY <2>1, <2>2, SoundnessImplies DEF HeapInv, BitsClearOutsideCollection, object_at
    <3> QED BY <2>1, <2>2, <3>1 DEF Idle, objects, fields_in, object_at
  <2>4. o = [q EXCEPT !.id = cur_id]
    BY DEF memcpy
  <2>5. /\ o \in Object /\ o.id = cur_id /\ o.type = q.type /\ o.len = q.len /\ o.words = q.words
        /\ o.marked = q.marked /\ o.enqueued = q.enqueued
    BY <2>1, <2>3, <2>4 DEF Object
  <2> QED BY <2>3, <2>5 DEF sound_object, fields
<1> QED BY <1>1, <1>2, <1>3, LeaveHeap

\* The strings that are copied.
LEMMA SeenString ==
  ASSUME Idle, NEW v, NEW p, shows(v, p), string_shown(v), NEW o, o = object_at(p)
  PROVE  /\ o.words \in Seq(Nat) /\ o.len \in Nat /\ Len(o.words) = o.len
         /\ o.len = shown_object(v).len /\ shown_object(v) = abs_object(o) /\ is_string(p)
<1>1. is_object(p) /\ shown_object(v) = abs_object(o) /\ shown_object(v).type = "STRING"
  BY DEF shows, string_shown
<1>2. o.type = "STRING" /\ o.len = shown_object(v).len
  BY <1>1 DEF abs_object
<1>3. is_string(p)
  BY <1>1, <1>2 DEF is_string
<1>4. o \in Object /\ Len(o.words) = o.len /\ o.len \in Nat
  BY <1>3, StringArg
<1> QED BY <1>1, <1>2, <1>3, <1>4, StringShown

\* Two buffers, one after the other.
LEMMA Joined ==
  ASSUME NEW a \in Seq(Nat), NEW b \in Seq(Nat), NEW c, c = a \o b
  PROVE  c \in Seq(Nat) /\ Len(c) = Len(a) + Len(b)
BY ONLY a \in Seq(Nat), b \in Seq(Nat), c = a \o b, ConcatProperties

LEMMA StringReturn ==
  ASSUME Frames, HeapInv, Requested,
         Lclone_string_return \/ LmakeString_return \/ Li__Infix_4343_return \/ Lsubstring_return
  PROVE  HeapInv' /\ Requested' /\ running' = "program" /\ statics' = statics
<1>1. ASSUME NEW f \in {"Lclone_string", "LmakeString", "Li__Infix_4343", "Lsubstring"},
             NEW c, NEW o, o = new_object(c), NEW n, NEW pops,
             leave(f, o, n, pops), called({f}) => c \in Seq(Nat) /\ Len(c) = req.len /\ ready(n, pops)
      PROVE  HeapInv' /\ Requested' /\ running' = "program" /\ statics' = statics
  <2>1. ASSUME called({f}) PROVE sound_object(o)
    <3>1. req.type = "STRING" /\ pc \in {"alloc", "retry"}
      BY <1>1, <2>1 DEF Requested, leave, leave_with
    <3>2. req.len \in Nat /\ cur_id \in Nat
      BY <2>1, <3>1, ReturnOf
    <3> QED BY <1>1, <2>1, <3>1, <3>2, NewString
  <2> QED BY <1>1, <2>1, LeaveHeap
<1>2. ASSUME NEW f, called({f}), pc \in {"alloc", "retry"}, NEW n \in Nat, arguments(n), NEW k \in 1 .. n
      PROVE  /\ Idle /\ RootsShown /\ req.len \in Nat /\ shows(shown_arg(k), arg(k)) /\ k \in 1 .. Len(stack)
  BY <1>2, ReturnOf
<1>3. CASE LmakeString_return
  <2> PICK n : n = req.len OBVIOUS
  <2> PICK c : c = [i \in 1 .. n |-> 0] OBVIOUS
  <2> PICK o : o = new_object(c) OBVIOUS
  <2>1. leave("LmakeString", o, 1, << >>) /\ pc \in {"alloc", "retry"}
    BY <1>3 DEF LmakeString_return, leave, leave_with
  <2>2. ASSUME called({"LmakeString"}) PROVE c \in Seq(Nat) /\ Len(c) = req.len
    <3>1. n \in Nat
      BY <2>1, <2>2, ReturnOf
    <3>2. c = [i \in 1 .. n |-> c[i]] /\ \A i \in 1 .. n : c[i] \in Nat
      OBVIOUS
    <3> QED BY <3>1, <3>2, FunctionIsSeq
  <2> QED BY <1>1, <2>1, <2>2, Ready
<1>4. CASE Lclone_string_return
  <2> PICK p : p = locals.Bstring_p OBVIOUS
  <2> PICK n : n = req.len OBVIOUS
  <2> PICK s : s = object_at(p).words OBVIOUS
  <2> PICK c : c = strncpy(s, n) OBVIOUS
  <2> PICK o : o = new_object(c) OBVIOUS
  <2>1. leave("Lclone_string", o, 1, <<buffer, arg_cell(1)>>) /\ pc \in {"alloc", "retry"}
    BY <1>4 DEF Lclone_string_return, leave, leave_with, buffer
  <2>2. ASSUME called({"Lclone_string"}) PROVE c \in Seq(Nat) /\ Len(c) = req.len
    <3>1. Idle /\ RootsShown /\ n \in Nat
      BY <2>1, <2>2, ReturnOf
    <3>2. shown_cell(3) = shown_arg(1) /\ string_shown(shown_arg(1))
      BY <2>2 DEF Requested
    <3>3. extra = <<sysargs, arg_cell(1), buffer>>
      BY <2>2 DEF Frames, CallPool, called, arg_and_buffer
    <3>4. cell_word(extra[3]) = p /\ 3 \in 1 .. Len(extra)
      BY <3>3 DEF cell_word, buffer, local_cell
    <3> PICK v : v = shown_cell(3) OBVIOUS
    <3>5. shows(v, p) /\ string_shown(v)
      BY <3>1, <3>2, <3>4 DEF RootsShown
    <3>6. s \in Seq(Nat)
      BY <3>1, <3>5, SeenString
    <3> QED BY <3>1, <3>6, Strncpy
  <2> QED BY <1>1, <2>1, <2>2, Ready
<1>5. CASE Li__Infix_4343_return
  <2> PICK x, y : x = object_at(arg(1)) /\ y = object_at(arg(2)) OBVIOUS
  <2> PICK a, b : a = strncpy(x.words, x.len) /\ b = strncpy(y.words, y.len) OBVIOUS
  <2> PICK c : c = a \o b OBVIOUS
  <2> PICK o : o = new_object(c) OBVIOUS
  <2> PICK pops : pops = <<arg_cell(2), arg_cell(1)>> OBVIOUS
  <2>1. leave("Li__Infix_4343", o, 2, pops) /\ pc \in {"alloc", "retry"}
    BY <1>5 DEF Li__Infix_4343_return, leave, leave_with, pops_of_4343
  <2>2. called({"Li__Infix_4343"}) => ready(2, pops)
    BY Ready
  <2>3. ASSUME called({"Li__Infix_4343"}) PROVE c \in Seq(Nat) /\ Len(c) = req.len
    <3>1. arguments(2) /\ 2 \in Nat /\ 1 \in 1 .. 2 /\ 2 \in 1 .. 2
      BY <2>2, <2>3 DEF ready
    <3>2. Idle /\ shows(shown_arg(1), arg(1)) /\ shows(shown_arg(2), arg(2))
      BY <1>2, <2>1, <2>3, <3>1
    <3>3. /\ string_shown(shown_arg(1)) /\ string_shown(shown_arg(2))
          /\ req.len = shown_object(shown_arg(1)).len + shown_object(shown_arg(2)).len
      BY <2>3 DEF Requested
    <3>4. x.words \in Seq(Nat) /\ x.len \in Nat /\ x.len = shown_object(shown_arg(1)).len
      BY <3>2, <3>3, SeenString
    <3>5. y.words \in Seq(Nat) /\ y.len \in Nat /\ y.len = shown_object(shown_arg(2)).len
      BY <3>2, <3>3, SeenString
    <3>6. a \in Seq(Nat) /\ Len(a) = x.len
      BY <3>4, Strncpy
    <3>7. b \in Seq(Nat) /\ Len(b) = y.len
      BY <3>5, Strncpy
    <3> QED BY <3>3, <3>4, <3>5, <3>6, <3>7, Joined
  <2> QED BY <1>1, <2>1, <2>2, <2>3
<1>6. CASE Lsubstring_return
  <2> PICK x : x = object_at(arg(1)) OBVIOUS
  <2> PICK pp : pp = UNBOX(arg(2)) OBVIOUS
  <2> PICK n : n = req.len OBVIOUS
  <2> PICK s : s = SubSeq(x.words, pp + 1, x.len) OBVIOUS
  <2> PICK c : c = strncpy(s, n) OBVIOUS
  <2> PICK o : o = new_object(c) OBVIOUS
  <2>1. leave("Lsubstring", o, 3, <<arg_cell(1)>>) /\ pc \in {"alloc", "retry"}
    BY <1>6 DEF Lsubstring_return, leave, leave_with, substring
  <2>2. called({"Lsubstring"}) => ready(3, <<arg_cell(1)>>)
    BY Ready
  <2>3. ASSUME called({"Lsubstring"}) PROVE c \in Seq(Nat) /\ Len(c) = req.len
    <3>1. arguments(3) /\ 3 \in Nat /\ 1 \in 1 .. 3 /\ 2 \in 1 .. 3
      BY <2>2, <2>3 DEF ready
    <3>2. Idle /\ shows(shown_arg(1), arg(1)) /\ shows(shown_arg(2), arg(2)) /\ n \in Nat
      BY <1>2, <2>1, <2>3, <3>1
    <3>3. /\ string_shown(shown_arg(1))
          /\ \E k \in 0 .. shown_object(shown_arg(1)).len :
               /\ integer_shown(shown_arg(2), k)
               /\ k + req.len <= shown_object(shown_arg(1)).len
      BY <2>3 DEF Requested
    <3>4. x.words \in Seq(Nat) /\ x.len \in Nat /\ Len(x.words) = x.len /\ x.len = shown_object(shown_arg(1)).len
      BY <3>2, <3>3, SeenString
    <3>5. PICK k \in 0 .. x.len : integer_shown(shown_arg(2), k)
      BY <3>3, <3>4
    <3>6. pp = k
      <4>1. arg(2) = BOX(k) /\ k \in Nat
        BY <3>2, <3>4, <3>5 DEF shows
      <4> QED BY <4>1 DEF UNBOX, BOX
    <3>7. s \in Seq(Nat)
      <4> PICK w, l : w = x.words /\ l = x.len OBVIOUS
      <4>1. w \in Seq(Nat) /\ l \in Nat /\ Len(w) = l /\ k \in 0 .. l /\ s = SubSeq(w, k + 1, l)
        BY <3>4, <3>6
      <4>2. SubSeq(w, k + 1, l) \in Seq(Nat)
        BY ONLY <4>1, SubSeqProperties
      <4> QED BY <4>1, <4>2
    <3> QED BY <3>2, <3>7, Strncpy
  <2> QED BY <1>1, <2>1, <2>2, <2>3
<1> QED BY <1>3, <1>4, <1>5, <1>6

\* The strings made of a C buffer or of a file.
LEMMA TextObject ==
  ASSUME Frames, HeapInv, Requested, NEW f \in the_buffer \cup {"Lstring", "Lstringcat", "Lfread"},
         called({f}), pc \in {"alloc", "retry"}, NEW s \in Texts, Len(s) = req.len,
         NEW o, o = new_object(s)
  PROVE  sound_object(o)
<1>1. called(the_buffer \cup {"Lstring", "Lstringcat", "Lfread"})
  BY DEF called
<1>2. req.type = "STRING"
  BY <1>1 DEF Requested
<1>3. req.len \in Nat /\ cur_id \in Nat
  BY ReturnOf
<1>4. s \in Seq(Nat)
  <2>1. s \in Seq(Nat \ {0}) /\ Nat \ {0} \subseteq Nat
    BY TextCharacters
  <2> QED BY ONLY <2>1, SeqGrows
<1> QED BY <1>2, <1>3, <1>4, NewString

LEMMA BufferReturn ==
  ASSUME Frames, HeapInv, Requested,
         NEW f \in the_buffer \cup {"Lstring", "Lstringcat"}, NEW n, NEW pops,
         bstring_leave(f, n, pops),
         \/ f \in {"Bstring", "LreadLine"} /\ n = 0 /\ pops = << >>
         \/ f = "LgetEnv" /\ n = 1 /\ pops = << >>
         \/ f \in {"Lstring", "Lstringcat"} /\ n = 1 /\ pops = <<arg_cell(1)>>
  PROVE  HeapInv' /\ Requested' /\ running' = "program" /\ statics' = statics
<1> PICK all : all = <<buffer>> \o pops OBVIOUS
<1>1. PICK s \in Texts : Len(s) = req.len /\ leave(f, new_object(s), n, all)
  BY DEF bstring_leave, buffer
<1> PICK o : o = new_object(s) OBVIOUS
<1>2. pc \in {"alloc", "retry"} /\ f \notin {"set_args", "set_args_bstring"}
  BY DEF bstring_leave, the_buffer
<1>3. called({f}) => ready(n, all)
  <2>1. all = IF f \in {"Lstring", "Lstringcat"} THEN <<buffer, arg_cell(1)>> ELSE <<buffer>>
    BY Concatenated
  <2> QED BY <2>1, Ready DEF the_buffer
<1>4. called({f}) => sound_object(o)
  BY <1>1, <1>2, TextObject
<1> QED BY <1>1, <1>2, <1>3, <1>4, LeaveHeap

LEMMA BufferReturns ==
  ASSUME Frames, HeapInv, Requested,
         \/ Bstring_return \/ LgetEnv_return \/ LreadLine_return
         \/ Lstring_return \/ Lstringcat_return
  PROVE  HeapInv' /\ Requested' /\ running' = "program" /\ statics' = statics
<1>1. \A f \in the_buffer \cup {"Lstring", "Lstringcat"} : f \in the_buffer \cup {"Lstring", "Lstringcat"}
  OBVIOUS
<1>2. CASE Bstring_return
  BY <1>2, BufferReturn DEF Bstring_return, the_buffer
<1>3. CASE LgetEnv_return
  BY <1>3, BufferReturn DEF LgetEnv_return, the_buffer
<1>4. CASE LreadLine_return
  BY <1>4, BufferReturn DEF LreadLine_return, the_buffer
<1>5. CASE Lstring_return
  BY <1>5, BufferReturn DEF Lstring_return
<1>6. CASE Lstringcat_return
  BY <1>6, BufferReturn DEF Lstringcat_return
<1> QED BY <1>2, <1>3, <1>4, <1>5, <1>6

\* Stops of a function that has allocated.
LEMMA StopReturn ==
  ASSUME Frames, HeapInv, NEW f, f \notin {"set_args", "set_args_bstring"},
         pc \in {"alloc", "retry"}, req.op = f, NEW why, stop(f, why)
  PROVE  HeapInv' /\ Requested' /\ running' = "program" /\ statics' = statics
<1>1. called({f})
  BY WasCalled
<1>2. HeapInv' /\ pc' = "failed" /\ running' = running
  BY StopHeap DEF gc_idle
<1> QED BY <1>1, <1>2 DEF called, stop, failure, Requested, in_call

LEMMA FileReturn ==
  ASSUME Frames, HeapInv, Requested, Lfread_return \/ Bclosure_overflow
  PROVE  HeapInv' /\ Requested' /\ running' = "program" /\ statics' = statics
<1>1. CASE Bclosure_overflow
  BY <1>1, StopReturn DEF Bclosure_overflow
<1>2. ASSUME NEW s \in Strings, Len(s) = req.len, leave("Lfread", new_object(s), 1, << >>)
      PROVE  HeapInv' /\ Requested' /\ running' = "program" /\ statics' = statics
  <2> PICK o : o = new_object(s) OBVIOUS
  <2>1. pc \in {"alloc", "retry"}
    BY <1>2 DEF leave, leave_with
  <2>2. called({"Lfread"}) => sound_object(o) /\ ready(1, << >>)
    BY <1>2, <2>1, TextCharacters, TextObject, Ready
  <2> QED BY <1>2, <2>2, LeaveHeap
<1>3. CASE Lfread_return
  <2>1. pc \in {"alloc", "retry"} /\ req.op = "Lfread"
    BY <1>3 DEF Lfread_return
  <2>2. \/ \E s \in Strings : Len(s) = req.len /\ leave("Lfread", new_object(s), 1, << >>)
        \/ stop("Lfread", "failure")
    BY <1>3 DEF Lfread_return
  <2> QED BY <1>2, <2>1, <2>2, StopReturn
<1> QED BY <1>1, <1>3

LEMMA LeaveStepHeap ==
  ASSUME Frames, HeapInv, Requested, Leave
  PROVE  HeapInv' /\ Requested' /\ running' = "program" /\ statics' = statics
<1>1. ~Ls__Infix_58_return /\ ~Lsprintf_return
  <2>1. pc \in {"alloc", "retry"} => req.op \notin {"Ls__Infix_58", "Lsprintf"}
    <3>1. ASSUME pc \in {"alloc", "retry"}, NEW f \in {"Ls__Infix_58", "Lsprintf"}, req.op = f
          PROVE  FALSE
      <4>1. called({f})
        BY <3>1, WasCalled
      <4> QED BY <4>1 DEF Requested, called
    <3> QED BY <3>1
  <2> QED BY <2>1 DEF Ls__Infix_58_return, Lsprintf_return, bstring_leave, leave, leave_with
<1>2. CASE LmakeArray_return \/ Barray_return \/ Bsexp_return \/ Bclosure_return
  BY <1>2, MembersReturn
<1>3. CASE Lclone_return
  BY <1>3, CloneReturn
<1>4. CASE Lclone_string_return \/ LmakeString_return \/ Li__Infix_4343_return \/ Lsubstring_return
  BY <1>4, StringReturn
<1>5. CASE \/ Bstring_return \/ LgetEnv_return \/ LreadLine_return
           \/ Lstring_return \/ Lstringcat_return
  BY <1>5, BufferReturns
<1>6. CASE Lfread_return \/ Bclosure_overflow
  BY <1>6, FileReturn
<1> QED BY <1>1, <1>2, <1>3, <1>4, <1>5, <1>6 DEF Leave

-------------------------------------------------------------------------------
(* The heap in set_args *)

LEMMA SameRootsClean ==
  ASSUME CleanRoots, UNCHANGED <<mem, stack, statics, locals, extra>> PROVE CleanRoots'
BY DEF CleanRoots, roots_in, cells_in, cell_word, references, outside, Cell

\* One cell is registered.
LEMMA OneCellClean ==
  ASSUME NEW x, NEW P, P = references(DOMAIN mem'), stack' \in Seq(P), statics' \in Seq(P),
         extra' = <<local_cell(x)>>, x \in DOMAIN locals', locals'[x] \in P,
         locals' \in [DOMAIN locals' -> Nat]
  PROVE  CleanRoots'
<1>1. references(DOMAIN mem)' = P
  BY DEF references, outside
<1>2. DOMAIN extra' = {1} /\ extra'[1] = <<"local", x>> /\ Len(extra') = 1
  BY DEF local_cell
<1>3. <<"local", x>> \in Cell'
  BY DEF Cell
<1>4. extra' \in Seq(Cell')
  BY <1>3 DEF local_cell
<1>5. cell_word(extra[1])' \in P
  BY <1>2 DEF cell_word
<1>6. cells_in(DOMAIN extra, references(DOMAIN mem))'
  BY <1>1, <1>2, <1>5 DEF cells_in
<1>7. roots_in(references(DOMAIN mem))'
  BY <1>1, <1>6 DEF roots_in
<1> QED BY <1>2, <1>4, <1>7, PoolAssumption, ThreeCellsAssumption DEF CleanRoots

\* The array is in the cell that set_args has registered.
LEMMA HeldCell ==
  ASSUME Idle, NEW x, NEW i \in DOMAIN extra, extra[i] = local_cell(x)
  PROVE  x \in DOMAIN locals /\ locals[x] \in references(DOMAIN mem)
<1>1. extra[i] \in Cell /\ extra[i] = <<"local", x>>
  <2>1. extra \in Seq(Cell)
    BY DEF Idle, ClientTypeOK
  <2>2. extra[i] \in Cell
    BY <2>1
  <2> QED BY <2>2 DEF local_cell
<1>2. x \in DOMAIN locals
  BY <1>1 DEF Cell
<1>3. cell_word(extra[i]) \in references(DOMAIN mem)
  BY DEF Idle, roots_in, cells_in
<1> QED BY <1>1, <1>2, <1>3 DEF cell_word

\* A store of a reference to one word of an object.
LEMMA StoreHeap ==
  ASSUME HeapInv, pc = "run", pc' = "run", UNCHANGED <<heap, req, gc, cur_id>>,
         NEW a, NEW i, NEW v \in references(DOMAIN mem), mem' = [mem EXCEPT ![a].words[i] = v],
         CleanRoots'
  PROVE  HeapInv'
<1>1. Idle /\ Structure /\ Soundness /\ Numbered /\ gc_idle /\ gc_idle'
  BY IdleHeap DEF HeapInv, Identity, gc_idle
<1>2. v \in Nat
  BY DEF references
<1>3. same_layout(mem, mem')
  <2>1. memory(mem)
    BY <1>1, MemoryOf DEF Structure
  <2> QED BY <2>1, SetWord
<1>4. Structure'
  BY <1>1, <1>3, ProgramStep
<1>5. DOMAIN mem' = DOMAIN mem
  BY DEF same_layout
<1>6. ASSUME NEW b \in DOMAIN mem
      PROVE  /\ mem'[b] \in Object /\ mem'[b].id = mem[b].id
             /\ mem'[b].marked = mem[b].marked /\ mem'[b].enqueued = mem[b].enqueued
             /\ mem'[b].type = mem[b].type /\ mem'[b].len = mem[b].len
             /\ Len(mem'[b].words) = Len(mem[b].words)
             /\ \A j \in 1 .. Len(mem[b].words) : mem'[b].words[j] \in {mem[b].words[j], v}
  <2> PICK o : o = mem[b] OBVIOUS
  <2> PICK w : w = o.words OBVIOUS
  <2>1. o \in Object /\ w \in Seq(Nat) /\ DOMAIN w = 1 .. Len(w)
    BY <1>1, FieldsAreWords DEF Idle, objects
  <2>2. CASE b # a
    <3>1. mem'[b] = o
      BY <2>2
    <3> QED BY <2>1, <3>1
  <2>3. CASE b = a
    <3> PICK w1 : w1 = [w EXCEPT ![i] = v] OBVIOUS
    <3>1. w1 \in Seq(Nat) /\ Len(w1) = Len(w)
      BY <1>2, <2>1, Replacing
    <3>2. \A j \in 1 .. Len(w) : w1[j] \in {w[j], v}
      BY <2>1
    <3>3. mem'[b] = [o EXCEPT !.words = w1]
      BY <2>1, <2>3 DEF Object
    <3>4. /\ mem'[b] \in Object /\ mem'[b].words = w1 /\ mem'[b].id = o.id
          /\ mem'[b].marked = o.marked /\ mem'[b].enqueued = o.enqueued
          /\ mem'[b].type = o.type /\ mem'[b].len = o.len
      BY ONLY <2>1, <3>1, <3>3 DEF Object, Word
    <3> QED BY <3>1, <3>2, <3>4
  <2> QED BY <2>2, <2>3
<1>7. fields_in(DOMAIN mem, references(DOMAIN mem))'
  <2>1. references(DOMAIN mem)' = references(DOMAIN mem)
    BY <1>5 DEF references, outside
  <2>2. ASSUME NEW b \in DOMAIN mem, NEW j \in fields(mem'[b])
        PROVE  mem'[b].words[j] \in references(DOMAIN mem)
    <3>1. j \in fields(mem[b])
      BY <1>6, <2>2 DEF fields
    <3>2. j \in 1 .. Len(mem[b].words) /\ mem[b].words[j] \in references(DOMAIN mem)
      BY <1>1, <3>1, FieldsAreWords DEF Idle, objects, fields_in
    <3> QED BY <1>6, <3>2
  <2> QED BY <1>5, <2>1, <2>2 DEF fields_in
<1>8. Soundness'
  <2>1. objects(mem')
    BY <1>5, <1>6 DEF objects
  <2> QED BY <1>1, <1>5, <1>6, <1>7, <2>1, ProgramSound DEF Idle, ClientTypeOK
<1>9. Identity' /\ Reached'
  <2>1. Numbered'
    BY <1>1, <1>5, <1>6, SameObjectsNumbered DEF Idle, ClientTypeOK
  <2> QED BY <2>1, IdleIdentity DEF Reached, marking
<1> QED BY <1>4, <1>8, <1>9 DEF HeapInv

\* Whose call has allocated.
LEMMA SetArgsCalled ==
  ASSUME Frames, NEW f \in {"set_args", "set_args_bstring"}, pc \in {"alloc", "retry"}, req.op = f
  PROVE  /\ in_call /\ running = "set_args"
         /\ f = "set_args" => extra = << >>
         /\ f = "set_args_bstring" => extra = <<set_args_cell, buffer>>
<1>1. in_call /\ running \in {"start", "set_args", "program"} /\ running # "start"
  <2>1. in_call
    BY DEF in_call
  <2>2. running \in {"start", "set_args", "program"}
    BY DEF Frames, Ends
  <2>3. in_call => running # "start"
    BY DEF Frames, Pool
  <2> QED BY <2>1, <2>2, <2>3
<1>2. running # "program"
  BY <1>1 DEF called, Frames, CallPool, no_cells, one_arg, two_args, the_buffer, arg_and_buffer
<1> QED BY <1>1, <1>2 DEF Frames, SetArgsPool

SetArgsKept == HeapInv' /\ Requested' /\ Handing' /\ statics' = statics

\* Between calls nothing is asked for.
LEMMA NothingRequested == ~in_call => Requested
BY DEF Requested, called

LEMMA NothingNext == ASSUME pc' \in {"run", "failed"} PROVE Requested' /\ ~in_call'
<1>1. ~in_call'
  BY DEF in_call
<1>2. (~in_call => Requested)'
  BY NothingRequested, PTL
<1> QED BY <1>1, <1>2

LEMMA SetArgsHeap == ASSUME Frames, HeapInv, Handing, set_args PROVE SetArgsKept
<1>1. PICK argc \in Argc :
        /\ pc = "run" /\ running = "start" /\ request("set_args", "ARRAY", argc)
        /\ running' = "set_args" /\ UNCHANGED <<stack, statics, locals, extra, exit>>
  BY DEF set_args
<1>2. argc \in Nat /\ "ARRAY" \in lama_type /\ mem' = mem /\ gc_idle
  BY <1>1, CallsAssumption DEF lama_type, request, gc_idle
<1>3. CleanRoots'
  BY <1>1, <1>2, SameRootsClean, CleanRootsOf DEF HeapInv
<1>4. HeapInv' /\ pc' = "alloc"
  BY <1>1, <1>2, <1>3, RequestHeap
<1>5. req'.op = "set_args" /\ req'.type = "ARRAY"
  BY <1>1 DEF request
<1>6. locals' = << >>
  BY <1>1 DEF Handing
<1> QED BY <1>1, <1>4, <1>5, <1>6 DEF SetArgsKept, Requested, Handing, called, in_call

LEMMA SetArgsArrayHeap == ASSUME Frames, HeapInv, Handing, set_args_array PROVE SetArgsKept
<1> PICK R : R = references(DOMAIN mem) OBVIOUS
<1> PICK P : P = references(DOMAIN mem') OBVIOUS
<1> PICK p : p = new_address OBVIOUS
<1> PICK n : n = req.len OBVIOUS
<1> PICK c : c = [i \in 1 .. n |-> BOX(0)] OBVIOUS
<1> PICK o : o = new_object(c) OBVIOUS
<1>1. /\ req.op = "set_args" /\ place_object(o) /\ pc \in {"alloc", "retry"}
      /\ locals' = [set_args_n |-> n, set_args_i |-> 0, set_args_p |-> p]
      /\ extra' = pushed_roots(set_args_roots)
      /\ UNCHANGED <<stack, statics, req, cur_id, running, exit>>
  BY DEF set_args_array, allocated, place_object
<1>2. in_call /\ running = "set_args" /\ extra = << >>
  BY <1>1, SetArgsCalled
<1>3. req.type = "ARRAY"
  BY <1>1, <1>2 DEF Handing
<1>4. /\ gc_idle /\ Idle /\ R \subseteq P /\ P \subseteq Nat /\ p \in P
      /\ stack \in Seq(P) /\ statics \in Seq(P)
  BY <1>1, PlacedRoots
<1>5. n \in Nat /\ req.type \in lama_type /\ cur_id \in Nat
  BY <1>4 DEF Idle, ClientTypeOK
<1>6. sound_object(o)
  <2>1. c = [i \in 1 .. n |-> c[i]] /\ \A i \in 1 .. n : c[i] \in R
    BY PlainWords
  <2> QED BY <1>3, <1>5, <2>1, NewMembers
<1>7. extra' = <<local_cell("set_args_p")>>
  <2> PICK s : s = local_cell("set_args_p") OBVIOUS
  <2>1. << >> \o <<s>> = <<s>>
    BY Concatenated
  <2> QED BY <1>1, <1>2, <2>1 DEF pushed_roots, set_args_roots
<1>8. /\ "set_args_p" \in DOMAIN locals' /\ locals'.set_args_p = p
      /\ locals' \in [DOMAIN locals' -> Nat] /\ "Bstring_s" \notin DOMAIN locals'
  <2>1. p \in Nat
    BY <1>4
  <2> QED BY <1>1, <1>5, <2>1
<1>9. CleanRoots'
  <2>1. stack' \in Seq(P) /\ statics' \in Seq(P)
    BY <1>1, <1>4
  <2>2. locals'["set_args_p"] \in P
    BY <1>4, <1>8
  <2> QED BY <1>7, <1>8, <2>1, <2>2, OneCellClean
<1>10. HeapInv' /\ pc' = "run"
  BY <1>1, <1>6, <1>9, Placing
<1> QED BY <1>1, <1>2, <1>8, <1>10 DEF SetArgsKept, Requested, Handing, called, in_call

LEMMA SetArgsBstringHeap == ASSUME Frames, HeapInv, set_args_bstring PROVE SetArgsKept
<1> PICK ls : ls = [x \in {"Bstring_p"} |-> foreign_addr] OBVIOUS
<1> PICK cells : cells = <<buffer>> OBVIOUS
<1>1. PICK s \in Strings : bstring("set_args_bstring", s, << >>, << >>)
  BY DEF set_args_bstring
<1> PICK len : len = Len(s) OBVIOUS
<1>2. /\ pc = "run" /\ running = "set_args" /\ "Bstring_s" \notin DOMAIN locals
      /\ extra = <<set_args_cell>> /\ gc_idle /\ Idle
  BY IdleHeap DEF set_args_bstring, in_loop, returned, Frames, Pool, gc_idle
<1>3. enter("set_args_bstring", "STRING", len, cells, ls)
  <2>1. << >> \o <<local_cell("Bstring_p")>> = cells
    BY Concatenated DEF buffer
  <2>2. [x \in DOMAIN << >> \cup {"Bstring_p"} |-> IF x = "Bstring_p" THEN foreign_addr ELSE << >>[x]] = ls
    <3>1. DOMAIN << >> \cup {"Bstring_p"} = {"Bstring_p"}
      OBVIOUS
    <3> QED BY <3>1
  <2> QED BY <1>1, <2>1, <2>2 DEF bstring
<1>4. len \in Nat /\ "STRING" \in lama_type
  BY CallsAssumption DEF lama_type
<1>5. registers(cells, DOMAIN ls) /\ ls \in [DOMAIN ls -> references(DOMAIN mem)] /\ DOMAIN ls = {"Bstring_p"}
  <2>1. Len(stack) \in Nat /\ DOMAIN stack = 1 .. Len(stack)
    BY <1>2 DEF Idle
  <2> QED BY <2>1, Registered, PlainWords
<1>6. \A i \in DOMAIN extra : extra[i] \in {"local"} \X (DOMAIN locals \ DOMAIN ls)
  <2>1. DOMAIN extra = {1} /\ extra[1] = local_cell("set_args_p") /\ 1 \in DOMAIN extra
    BY <1>2 DEF set_args_cell
  <2>2. "set_args_p" \in DOMAIN locals
    BY <1>2, <2>1, HeldCell
  <2>3. extra[1] = <<"local", "set_args_p">> /\ "set_args_p" \notin DOMAIN ls
    BY <1>5, <2>1 DEF local_cell
  <2>4. extra[1] \in {"local"} \X (DOMAIN locals \ DOMAIN ls)
    BY <2>2, <2>3
  <2> QED BY <2>1, <2>4
<1>7. /\ HeapInv'
      /\ \/ pc' = "failed" /\ running' = running
         \/ entered("set_args_bstring", "STRING", len)
  BY <1>2, <1>3, <1>4, <1>5, <1>6, EnterHeap
<1>8. statics' = statics /\ (pc' # "failed" => locals' = with_locals(ls))
  <2>1. CASE pool_overflow(cells)
    <3>1. stop("set_args_bstring", "pool overflow")
      BY <1>3, <2>1, Zenon DEF enter
    <3> QED BY <3>1 DEF stop, failure
  <2>2. CASE ~pool_overflow(cells)
    BY <1>3, <2>2, Zenon DEF enter
  <2> QED BY <2>1, <2>2
<1>9. pc' # "failed" => "Bstring_s" \notin DOMAIN locals'
  BY <1>2, <1>5, <1>8 DEF with_locals
<1>10. running' = "set_args" /\ (in_call' => req'.op = "set_args_bstring" /\ req'.type = "STRING")
       /\ pc' # "run"
  BY <1>2, <1>7 DEF entered, in_call
<1> QED BY <1>7, <1>8, <1>9, <1>10 DEF SetArgsKept, Requested, Handing, called, in_call

LEMMA SetArgsReturnHeap == ASSUME Frames, HeapInv, Handing, set_args_bstring_return PROVE SetArgsKept
<1> PICK R : R = references(DOMAIN mem) OBVIOUS
<1> PICK P : P = references(DOMAIN mem') OBVIOUS
<1> PICK p : p = new_address OBVIOUS
<1> PICK ls : ls = [x \in (DOMAIN locals \ {"Bstring_p"}) \cup {"Bstring_s"} |->
                      IF x = "Bstring_s" THEN p ELSE locals[x]]
  OBVIOUS
<1>1. PICK s \in Strings : /\ Len(s) = req.len
                           /\ leave_with("set_args_bstring", new_object(s), <<buffer>>, stack, ls)
  BY DEF set_args_bstring_return, buffer
<1> PICK o : o = new_object(s) OBVIOUS
<1>2. /\ pc \in {"alloc", "retry"} /\ req.op = "set_args_bstring"
      /\ in_call /\ running = "set_args" /\ extra = <<set_args_cell, buffer>>
  BY SetArgsCalled DEF set_args_bstring_return
<1>3. pops_match(<<buffer>>) /\ popped_roots(<<buffer>>) = <<set_args_cell>>
  <2> PICK a, b : a = set_args_cell /\ b = buffer OBVIOUS
  <2> QED BY <1>2, OnePopped
<1>4. /\ place_object(o) /\ stack' = stack /\ extra' = <<set_args_cell>> /\ locals' = ls
      /\ UNCHANGED <<statics, req, cur_id, running, exit>>
  BY <1>1, <1>3 DEF leave_with
<1>5. req.type = "STRING"
  BY <1>2 DEF Handing
<1>6. /\ gc_idle /\ Idle /\ R \subseteq P /\ P \subseteq Nat /\ p \in P
      /\ stack \in Seq(P) /\ statics \in Seq(P)
  BY <1>4, PlacedRoots
<1>7. req.len \in Nat /\ cur_id \in Nat /\ locals \in [DOMAIN locals -> Nat]
  BY <1>6 DEF Idle, ClientTypeOK, CleanRoots
<1>8. sound_object(o)
  <2>1. s \in Seq(Nat)
    <3>1. s \in Seq(Nat \ {0}) /\ Nat \ {0} \subseteq Nat
      BY CallsAssumption
    <3> QED BY ONLY <3>1, SeqGrows
  <2> QED BY <1>1, <1>5, <1>7, <2>1, NewString
<1>9. "set_args_p" \in DOMAIN locals /\ locals.set_args_p \in R
  <2>1. DOMAIN extra = {1, 2} /\ extra[1] = local_cell("set_args_p")
    BY <1>2 DEF set_args_cell
  <2> QED BY <1>6, <2>1, HeldCell
<1>10. /\ "set_args_p" \in DOMAIN ls /\ ls["set_args_p"] = locals.set_args_p
       /\ ls \in [DOMAIN ls -> Nat] /\ ls["Bstring_s"] = p
  <2>1. p \in Nat
    BY <1>6
  <2> QED BY <1>7, <1>9, <2>1
<1>11. CleanRoots'
  <2>1. stack' \in Seq(P) /\ statics' \in Seq(P)
    BY <1>4, <1>6
  <2>2. locals'["set_args_p"] \in P /\ "set_args_p" \in DOMAIN locals' /\ locals' \in [DOMAIN locals' -> Nat]
    BY <1>4, <1>6, <1>9, <1>10
  <2>3. extra' = <<local_cell("set_args_p")>>
    BY <1>4 DEF set_args_cell
  <2> QED BY <2>1, <2>2, <2>3, OneCellClean
<1>12. HeapInv' /\ pc' = "run"
  BY <1>4, <1>8, <1>11, Placing
<1>13. (locals.Bstring_s \in references(DOMAIN mem))'
  BY <1>4, <1>6, <1>10 DEF references, outside
<1> QED BY <1>2, <1>4, <1>12, <1>13 DEF SetArgsKept, Requested, Handing, called, in_call

\* What the loop of set_args finds.
LEMMA LoopFinds ==
  ASSUME Frames, HeapInv, in_loop
  PROVE  /\ gc_idle /\ Idle /\ pc = "run" /\ running = "set_args" /\ extra = <<set_args_cell>>
         /\ "set_args_p" \in DOMAIN locals /\ locals.set_args_p \in references(DOMAIN mem)
         /\ locals \in [DOMAIN locals -> Nat]
<1>1. gc_idle /\ Idle /\ pc = "run" /\ running = "set_args" /\ extra = <<set_args_cell>>
  BY IdleHeap DEF gc_idle, in_loop, Frames, Pool
<1>2. DOMAIN extra = {1} /\ extra[1] = local_cell("set_args_p")
  BY <1>1 DEF set_args_cell
<1> QED BY <1>1, <1>2, HeldCell DEF Idle, CleanRoots

LEMMA SetArgsStoreHeap == ASSUME Frames, HeapInv, Handing, set_args_store PROVE SetArgsKept
<1> PICK R : R = references(DOMAIN mem) OBVIOUS
<1> PICK a, i : a = TO_DATA(locals.set_args_p) /\ i = locals.set_args_i + 1 OBVIOUS
<1> PICK v : v = locals.Bstring_s OBVIOUS
<1> PICK ls : ls = [x \in DOMAIN locals \ {"Bstring_s"} |->
                      IF x = "set_args_i" THEN locals[x] + 1 ELSE locals[x]]
  OBVIOUS
<1>1. /\ in_loop /\ "Bstring_s" \in DOMAIN locals /\ locals' = ls
      /\ mem' = [mem EXCEPT ![a].words[i] = v]
      /\ UNCHANGED <<heap, stack, statics, extra, pc, req, gc, cur_id, dump, running, exit>>
  BY DEF set_args_store, returned
<1>2. /\ gc_idle /\ Idle /\ pc = "run" /\ running = "set_args" /\ extra = <<set_args_cell>>
      /\ "set_args_p" \in DOMAIN locals /\ locals.set_args_p \in R
      /\ locals \in [DOMAIN locals -> Nat]
  BY <1>1, LoopFinds
<1>3. v \in R
  BY <1>1, <1>2 DEF Handing
<1>4. /\ "set_args_p" \in DOMAIN ls /\ ls["set_args_p"] = locals.set_args_p
      /\ ls \in [DOMAIN ls -> Nat] /\ "Bstring_s" \notin DOMAIN ls
  <2>1. \A x \in DOMAIN ls : locals[x] \in Nat /\ locals[x] + 1 \in Nat
    BY <1>2
  <2> QED BY <1>2, <2>1
<1>5. references(DOMAIN mem') = R
  BY <1>1 DEF references
<1>6. CleanRoots'
  <2>1. stack' \in Seq(R) /\ statics' \in Seq(R)
    BY <1>1, <1>2 DEF Idle
  <2>2. locals'["set_args_p"] \in R /\ "set_args_p" \in DOMAIN locals' /\ locals' \in [DOMAIN locals' -> Nat]
    BY <1>1, <1>2, <1>4
  <2>3. extra' = <<local_cell("set_args_p")>>
    BY <1>1, <1>2 DEF set_args_cell
  <2> QED BY <1>5, <2>1, <2>2, <2>3, OneCellClean
<1>7. HeapInv'
  BY <1>1, <1>2, <1>3, <1>6, StoreHeap
<1> QED BY <1>1, <1>2, <1>4, <1>7 DEF SetArgsKept, Requested, Handing, called, in_call

LEMMA SetArgsDoneHeap == ASSUME Frames, HeapInv, Handing, set_args_done PROVE SetArgsKept
<1> PICK R : R = references(DOMAIN mem) OBVIOUS
<1> PICK p : p = locals.set_args_p OBVIOUS
<1>1. /\ gc_idle /\ Idle /\ pc = "run" /\ running = "set_args" /\ extra = <<set_args_cell>>
      /\ "set_args_p" \in DOMAIN locals /\ p \in R
  <2>1. in_loop
    BY DEF set_args_done
  <2> QED BY <2>1, LoopFinds
<1>2. CASE stop("set_args", "pool mismatch")
  <2>1. HeapInv' /\ pc' = "failed" /\ running' = "set_args"
    BY <1>1, <1>2, StopHeap
  <2>2. Requested' /\ ~in_call'
    BY <2>1, NothingNext
  <2>3. statics' = statics
    BY <1>2 DEF stop, failure
  <2> QED BY <2>1, <2>2, <2>3 DEF SetArgsKept, Handing
<1>3. CASE /\ locals' = [global_sysargs |-> p] /\ running' = "program"
           /\ extra' = Append(popped_roots(set_args_roots), local_cell("global_sysargs"))
           /\ UNCHANGED <<heap, mem, stack, statics, pc, req, gc, cur_id, dump, exit>>
  <2> PICK s : s = set_args_cell OBVIOUS
  <2>1. popped_roots(set_args_roots) = << >>
    <3>1. set_args_roots = <<s>> /\ extra = <<s>>
      BY <1>1 DEF set_args_roots, set_args_cell
    <3>2. extra \in Seq({s}) /\ Len(extra) = 1 /\ DOMAIN <<s>> = 1 .. 1 /\ Len(<<s>>) = 1
      BY <3>1
    <3>3. SubSeq(extra, 1, 0) = << >>
      BY <3>2
    <3> QED BY <3>1, <3>2, <3>3 DEF popped_roots
  <2>2. extra' = <<local_cell("global_sysargs")>>
    BY <1>3, <2>1
  <2>3. references(DOMAIN mem') = R
    BY <1>3
  <2>4. locals'["global_sysargs"] \in R /\ "global_sysargs" \in DOMAIN locals' /\ locals' \in [DOMAIN locals' -> Nat]
    <3>1. p \in Nat
      BY <1>1 DEF references
    <3> QED BY <1>1, <1>3, <3>1
  <2>5. stack' \in Seq(R) /\ statics' \in Seq(R)
    BY <1>1, <1>3 DEF Idle
  <2>6. CleanRoots'
    BY <2>2, <2>3, <2>4, <2>5, OneCellClean
  <2>7. HeapInv'
    BY <1>1, <1>3, <2>6, QuietHeap
  <2>8. Requested' /\ ~in_call'
    BY <1>1, <1>3, NothingNext
  <2> QED BY <1>1, <1>3, <2>7, <2>8 DEF SetArgsKept, Handing
<1> QED BY <1>2, <1>3 DEF set_args_done

LEMMA SetArgsStepHeap == ASSUME Frames, HeapInv, Handing, SetArgs PROVE SetArgsKept
BY SetArgsHeap, SetArgsArrayHeap, SetArgsBstringHeap, SetArgsReturnHeap, SetArgsStoreHeap,
   SetArgsDoneHeap DEF SetArgs

-------------------------------------------------------------------------------
(* The collector, and steps that change nothing *)

LEMMA RequestedKept ==
  ASSUME Requested, UNCHANGED <<shown_roots, shown_graph, req, running>>, in_call' = in_call,
         Len(stack') = Len(stack), Len(statics') = Len(statics)
  PROVE  Requested'
<1>1. /\ \A k : shown_arg(k)' = shown_arg(k)
      /\ \A j : shown_cell(j)' = shown_cell(j)
      /\ \A ops : called(ops)' = called(ops)
      /\ \A v : refers(v)' = refers(v)
      /\ \A v : shown_object(v)' = shown_object(v)
  BY DEF shown_arg, shown_cell, called, refers, shown_object
<1>2. /\ \A v : string_shown(v)' = string_shown(v)
      /\ \A v : text_of(v)' = text_of(v)
  BY <1>1 DEF string_shown, text_of
<1> QED BY <1>1, <1>2 DEF Requested, integer_shown

LEMMA CollectorHeap ==
  ASSUME Frames, HeapInv, Requested, Handing, Statically, CollectStep, UNCHANGED <<running, exit>>
  PROVE  HeapInv' /\ Requested' /\ Handing' /\ Statically'
<1>1. /\ pc \notin {"run", "failed"} /\ pc' \notin {"run", "failed"}
      /\ req' = req /\ DOMAIN statics' = DOMAIN statics /\ DOMAIN locals' = DOMAIN locals
  BY CollectorKeeps DEF marking, compacting
<1>2. Structure' /\ Soundness' /\ Reached' /\ Identity'
  BY CollectorStep, CollectorSound, CollectReached, CollectorIdentity DEF HeapInv
<1>3. Len(stack') = Len(stack)
  BY CollectorFrame DEF Frames
<1>4. Len(statics') = Len(statics)
  <2>1. statics \in Seq(Word) /\ statics' \in Seq(Word)
    BY <1>2 DEF HeapInv, Soundness, Typed, ClientTypeOK, Word
  <2> QED BY <1>1, <2>1, SameLength
<1>5. UNCHANGED <<shown_roots, shown_graph>>
  BY <1>2, CollectorShows DEF HeapInv
<1>6. Requested'
  BY <1>1, <1>3, <1>4, <1>5, RequestedKept DEF in_call
<1>7. Handing'
  <2>1. in_call /\ in_call' /\ running # "start"
    BY <1>1 DEF in_call, Frames, Pool
  <2> QED BY <1>1, <2>1 DEF Handing
<1> QED BY <1>2, <1>4, <1>6, <1>7 DEF HeapInv, Statically

LEMMA StutterShows ==
  ASSUME HeapInv, UNCHANGED clientVars PROVE UNCHANGED <<shown_roots, shown_graph>>
<1>1. heap' = heap /\ same_roots /\ mem' = mem /\ pc' = pc /\ dump' = dump
  BY DEF clientVars, gcVars, same_roots
<1>2. CASE ~gc_idle
  BY <1>1, <1>2 DEF shown_roots, shown_graph, gc_idle
<1>3. CASE gc_idle
  <2>1. objects(mem) /\ distinct(DOMAIN mem) /\ Places
    BY <1>3, IdleHeap DEF Idle, View
  <2>2. same_words(mem, mem') /\ same_ids(mem, mem')
    BY <1>1, <2>1, SameWordsRefl DEF same_ids
  <2>3. now_roots' = now_roots /\ now_graph' = now_graph
    BY <1>1, <2>1, <2>2, FiniteHeap, SameView
  <2> QED BY <1>1, <1>3, <2>3 DEF shown_roots, shown_graph, gc_idle
<1> QED BY <1>2, <1>3

LEMMA StutterHeap ==
  ASSUME Frames, HeapInv, Requested, Handing, Statically, UNCHANGED callVars
  PROVE  HeapInv' /\ Requested' /\ Handing' /\ Statically'
<1>1. UNCHANGED clientVars /\ UNCHANGED gcVars /\ UNCHANGED <<cur_id, running>>
  BY DEF callVars, clientVars
<1>2. UNCHANGED <<heap, mem, stack, statics, locals, extra, pc, req, gc>>
  BY <1>1 DEF clientVars, gcVars
<1>3. Structure' /\ Soundness'
  BY <1>1, <1>2, StutteringStep, StutteringSound DEF HeapInv
<1>4. Reached' /\ Identity'
  BY <1>1, <1>3, StutteringReached, StutteringIdentity DEF HeapInv
<1>5. Requested'
  BY <1>1, <1>2, StutterShows, RequestedKept DEF in_call
<1>6. Handing'
  BY <1>1, <1>2 DEF Handing, in_call, references, outside
<1> QED BY <1>2, <1>3, <1>4, <1>5, <1>6 DEF HeapInv, Statically

-------------------------------------------------------------------------------
(* The invariant of the heap *)

LEMMA InitHeap == ASSUME RuntimeInit PROVE RuntimeInv
<1> PICK T, U : T = {0} /\ U = {BOX(0)} OBVIOUS
<1>1. /\ GcInit /\ extra = << >> /\ locals = << >> /\ pc = "run" /\ DOMAIN mem = {}
      /\ req = [op |-> "none", type |-> "ARRAY", len |-> 0, size |-> 0]
      /\ cur_id = 0 /\ running = "start"
  BY DEF RuntimeInit, GcInit
<1>2. stack \in Seq(T) /\ statics \in Seq(U) /\ Len(statics) = Statics
  <2> PICK s, t, m, n : s = stack /\ t = statics /\ m = FrameWords /\ n = Statics OBVIOUS
  <2>1. /\ m \in Nat /\ s = [i \in 1 .. m |-> 0]
        /\ n \in Nat /\ t = [i \in 1 .. n |-> BOX(0)]
    BY CallsAssumption DEF RuntimeInit
  <2>2. s = [i \in 1 .. m |-> s[i]] /\ \A i \in 1 .. m : s[i] \in T
    BY <2>1
  <2>3. t = [i \in 1 .. n |-> t[i]] /\ \A i \in 1 .. n : t[i] \in U
    BY <2>1
  <2>4. s \in Seq(T)
    BY ONLY <2>1, <2>2, FunctionIsSeq
  <2>5. t \in Seq(U) /\ Len(t) = n
    BY ONLY <2>1, <2>3, FunctionIsSeq
  <2> QED BY <2>4, <2>5
<1>3. roots_in(references({}))
  <2> PICK R : R = references({}) OBVIOUS
  <2>1. T \subseteq R /\ U \subseteq R
    BY PlainWords
  <2>2. stack \in Seq(R) /\ statics \in Seq(R)
    BY <1>2, <2>1, SeqGrows
  <2> QED BY <1>1, <2>2 DEF roots_in, cells_in
<1>4. Structure /\ Soundness
  BY <1>1, <1>3, GcInitStructure, GcInitSound
<1>5. Identity /\ Reached
  BY <1>1 DEF Reached, Identity, Numbered, distinct, Rooted, Unchanged, Kept, DumpsAgree,
              GarbageReclaimedInOrder, gc_idle, marking
<1>6. ~in_call
  BY <1>1 DEF in_call
<1> QED BY <1>1, <1>2, <1>4, <1>5, <1>6, InitFrames, NothingRequested
        DEF RuntimeInv, HeapInv, Handing, Statically

LEMMA NextHeap ==
  ASSUME ProperCalls, RuntimeInv, [RuntimeNext]_callVars PROVE RuntimeInv'
<1>1. Frames /\ HeapInv /\ Requested /\ Handing /\ Statically /\ Frames'
  BY NextFrames DEF RuntimeInv
<1>2. ASSUME HeapInv', Requested', running' = "program", statics' = statics PROVE RuntimeInv'
  BY <1>1, <1>2 DEF RuntimeInv, Handing, Statically
<1>3. CASE Program
  <2>1. HeapInv' /\ pc' = "run" /\ running' = "program"
    BY <1>1, <1>3, ProgramHeap
  <2>2. Requested' /\ Handing'
    BY <2>1, NothingNext DEF Handing
  <2>3. Statically'
    <3>1. CASE STORE
      <4>1. PICK i \in DOMAIN statics : statics' = [statics EXCEPT ![i] = operand(1)]
        BY <3>1 DEF STORE
      <4>2. DOMAIN statics' = DOMAIN statics
        BY <4>1
      <4>3. statics \in Seq(Word) /\ statics' \in Seq(Word)
        BY <1>1, <2>1 DEF HeapInv, Soundness, Typed, ClientTypeOK, Word
      <4> QED BY <1>1, <4>2, <4>3, SameLength DEF Statically
    <3>2. CASE ~STORE
      <4>1. statics' = statics
        BY <1>3, <3>2 DEF Program, PUSH, DROP, DUP, LOAD
      <4> QED BY <1>1, <4>1 DEF Statically
    <3> QED BY <3>1, <3>2
  <2> QED BY <1>1, <2>1, <2>2, <2>3 DEF RuntimeInv
<1>4. CASE Enter
  BY <1>1, <1>2, <1>4, EnterStepHeap
<1>5. CASE Leave
  BY <1>1, <1>2, <1>5, LeaveStepHeap
<1>6. CASE SetArgs
  BY <1>1, <1>6, SetArgsStepHeap DEF SetArgsKept, RuntimeInv, Statically
<1>7. CASE CollectStep /\ UNCHANGED <<running, exit>>
  BY <1>1, <1>7, CollectorHeap DEF RuntimeInv
<1>8. CASE Exited \/ UNCHANGED callVars
  BY <1>1, <1>8, StutterHeap DEF RuntimeInv, Exited
<1> QED BY <1>3, <1>4, <1>5, <1>6, <1>7, <1>8 DEF RuntimeNext, Calling

\* The inductive invariant: in a program that calls neither Ls__Infix_58 nor
\* Lsprintf, whatever its functions register, copy before the request and write
\* into the new object after it, the heap keeps its shape, its contents and the
\* identity of its objects.
THEOREM RuntimeInvHolds == ASSUME ProperCalls PROVE RuntimeSpec => []RuntimeInv
<1>1. RuntimeInit => RuntimeInv
  BY InitHeap
<1>2. RuntimeInv /\ [RuntimeNext]_callVars => RuntimeInv'
  BY NextHeap
<1> QED BY <1>1, <1>2, PTL DEF RuntimeSpec

LEMMA RuntimeInvImplies ==
  RuntimeInv =>
    /\ HeapParsable /\ SlidesDown /\ CollectionMakesRoom
    /\ NoDanglingPointers /\ QueueInvariant /\ BitsClearOutsideCollection
    /\ MarkedAreReachable /\ DumpsAgree /\ GarbageReclaimedInOrder
    /\ RuntimeTypeOK
<1> SUFFICES ASSUME RuntimeInv
             PROVE  /\ HeapParsable /\ SlidesDown /\ CollectionMakesRoom
                    /\ NoDanglingPointers /\ QueueInvariant /\ BitsClearOutsideCollection
                    /\ MarkedAreReachable /\ DumpsAgree /\ GarbageReclaimedInOrder
                    /\ RuntimeTypeOK
  OBVIOUS
<1>1. Structure /\ Soundness /\ Reached /\ Identity /\ Frames /\ Statically
  BY DEF RuntimeInv, HeapInv
<1>2. /\ NoDanglingPointers /\ QueueInvariant /\ BitsClearOutsideCollection /\ ClientTypeOK
  BY <1>1, SoundnessImplies
<1>3. DumpsAgree /\ GarbageReclaimedInOrder
  BY <1>1 DEF Identity
<1>4. RuntimeTypeOK
  <2>1. /\ Len(stack) >= FrameWords /\ running \in {"start", "set_args", "program"}
        /\ exit.why = "none" <=> pc # "failed"
    BY <1>1 DEF Frames, Frame, Ends
  <2> QED BY <1>1, <1>2, <2>1 DEF RuntimeTypeOK, Statically
<1> QED BY <1>1, <1>2, <1>3, <1>4, StructureImplies, MarkedIsLive

\* What follows is of programs that call neither Ls__Infix_58 nor Lsprintf.

\* The registers of the collector, the stack, the statics, the roots and the pool
\* have their types while such a program runs the functions of the runtime.
THEOREM RuntimeTypeOKHolds == ASSUME ProperCalls PROVE RuntimeSpec => []RuntimeTypeOK
BY RuntimeInvHolds, RuntimeInvImplies, PTL

\* Whichever of the other functions the program calls, the used part of the heap
\* is a row of whole objects from heap.begin to heap.current, so that the scans
\* of gc.c that step over one object at a time end where they should.
THEOREM RuntimeHeapParsableHolds == ASSUME ProperCalls PROVE RuntimeSpec => []HeapParsable
BY RuntimeInvHolds, RuntimeInvImplies, PTL

\* During a compaction that a function of the runtime started, every new place is
\* at or below the object's old one and no two overlap.
THEOREM RuntimeSlidesDownHolds == ASSUME ProperCalls PROVE RuntimeSpec => []SlidesDown
BY RuntimeInvHolds, RuntimeInvImplies, PTL

\* A collection that a function of the runtime starts leaves room for the object
\* that it asked for, so that the second attempt of alloc succeeds.
THEOREM RuntimeCollectionMakesRoomHolds == ASSUME ProperCalls PROVE RuntimeSpec => []CollectionMakesRoom
BY RuntimeInvHolds, RuntimeInvImplies, PTL

\* Outside a collection every word of the stack, of the statics, of the cells that
\* a function of the runtime has registered and of the fields of any object that
\* looks like a heap pointer leads to the contents of an object.
THEOREM RuntimeNoDanglingPointersHolds == ASSUME ProperCalls PROVE RuntimeSpec => []NoDanglingPointers
BY RuntimeInvHolds, RuntimeInvImplies, PTL

\* The queue that marking threads through the headers holds exactly the objects
\* it should, when the roots include the cells a function has registered.
THEOREM RuntimeQueueInvariantHolds == ASSUME ProperCalls PROVE RuntimeSpec => []QueueInvariant
BY RuntimeInvHolds, RuntimeInvImplies, PTL

\* No function of the runtime meets a mark bit or a queue link in a header.
THEOREM RuntimeBitsClearHolds == ASSUME ProperCalls PROVE RuntimeSpec => []BitsClearOutsideCollection
BY RuntimeInvHolds, RuntimeInvImplies, PTL

\* Marking from the stack, the statics and the registered cells marks nothing that
\* the function and its callers could not reach.
THEOREM RuntimeMarkedAreReachableHolds == ASSUME ProperCalls PROVE RuntimeSpec => []MarkedAreReachable
BY RuntimeInvHolds, RuntimeInvImplies, PTL

\* A collection in the middle of a function of the runtime leaves the graph of the
\* objects as it was: the statics, the stack and the cells that the function has
\* registered lead to the same objects as before, at their new places.
THEOREM RuntimeDumpsAgreeHolds == ASSUME ProperCalls PROVE RuntimeSpec => []DumpsAgree
BY RuntimeInvHolds, RuntimeInvImplies, PTL

\* A collection under the runtime functions keeps the live objects, and those
\* only, in the order they were in.
THEOREM RuntimeGarbageReclaimedInOrderHolds == ASSUME ProperCalls PROVE RuntimeSpec => []GarbageReclaimedInOrder
BY RuntimeInvHolds, RuntimeInvImplies, PTL
===============================================================================
