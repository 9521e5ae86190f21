# Verification of the Lama bytecode interpreter and its runtime

This directory specifies, in TLA+, the parts of this repository in which a
mistake would be hard to find by running programs: the compacting garbage
collector of the Lama runtime (`lama-v1.20/runtime/gc.c`), its two clients,
which are the data instructions of the iterative interpreter
(`interpreter/iterinter.c`) and the functions of `runtime.c` that compiled
programs call; the calls and returns of the interpreter; the three programs
that read bytecode files (the interpreter, the disassembler
`lama-v1.20/byterun/byterun.c` and the frequency counter
`frequency/freq_count.cpp`); and the primitives of the runtime that compute
without allocating. TLC checks the modules on small instances. TLAPS proves for
every instance that the heap keeps its structure, that no reference dangles and
a collection changes nothing that the program sees, that the instructions and
the functions of the runtime implement graphs of objects without addresses, that
calls and returns implement activation records, that the pool of extra roots is
balanced, that instructions are counted and reported exactly, that the readers
agree, that both copies of the arithmetic are modular, that patterns match what
they name, and that a string buffer holds what was printed.

Paths below are relative to `src/`.

## 1. The system

| component | state | operations | interacts with |
|---|---|---|---|
| memory manager, `lama-v1.20/runtime/gc.c` | `heap` (begin, end, current, size), two bits and an address in the `forward_address` of every header, the pool of extra roots | `alloc`, `gc_alloc`, `mark_phase`, `compact_phase`, iterators, `push_extra_root`, `pop_extra_root`, `__init` | reads and rewrites the stack of its client between `__gc_stack_top` and `__gc_stack_bottom`, the static area of a compiled program, and C locals through extra roots |
| object representation, `runtime_common.h` | none | boxing, headers, sizes | everything |
| data instructions, `interpreter/iterinter.c`, `runtime.c` | globals and operand stack (the memory of the collector), objects | `interpret` and the functions it calls: `ld`, `st`, `lda`, `sta`, `closure`, `call_barray`, `call_bsexp`, `Bstring`, `Lstring`, `Belem`, `Bsta`, `Llength` | call `alloc` and are interrupted by a collection inside |
| allocating runtime functions, `runtime.c` | C locals registered as extra roots | `Barray`, `Bsexp`, `Bclosure`, `Bstring`, `Lsubstring`, `Lclone`, `Li__Infix_4343`, `Ls__Infix_58`, `LmakeArray`, `LmakeString`, `Lstring`, `Lstringcat`, `Lsprintf`, `LreadLine`, `Lfread`, `LgetEnv`, `set_args` | compiled programs, `gc.c` |
| calls, `interpreter/iterinter.c` | operand stack, call stack, `fp`, `n_args`, `n_locals`, `is_closure`, `ip` | `call`, `call_closure`, `begin`, `end`, `get_addr` | share the operand stack with the data instructions |
| bytecode reader, `interpreter/iterinter.c` | `ip`, `eof` | `next_byte`, `next_int`, `update_ip`, dispatch | feeds the interpreter |
| disassembler, `lama-v1.20/byterun/byterun.c` | `ip` | `disassemble` | the same files |
| frequency counter, `frequency/freq_count.cpp` | `ip`, a `std::map` from instructions to counts | `read_instruction`, `operator<`, `calculate_codes`, `print_frequency` | decodes the same format with a copy of the switch of `byterun.c` |
| runtime primitives, `runtime.c` | string buffer | comparison, hashing, patterns, boxed arithmetic, tag hashes, printing | read the heap; the interpreter has copies of the arithmetic and of some patterns |
| input and output, `runtime.c` | none of its own | files, processes, regular expressions, clock | libc |
| `virt_stack.c`, `test_main.c`, regression and performance suites | | tests | |

Everything runs in one thread. What is hard is not concurrency of threads but
of *roles*: an allocation in the middle of an instruction or of a C function
runs the collector, which renames every address the code might hold; the
collector stores its queue and its destinations in the very headers it is
walking over; and `mremap` may move the heap between two passes that exchange
addresses. On the side of the calls, one flat stack holds the globals,
arguments, locals and operands of all frames, another holds their registers by
position, and one bit decides whether a return drops a closure. Three programs
decode one format with three switches and three ways to check bounds. Resources
run out: heap, both stacks, the pool of extra roots, the string buffer.

What makes each component correct:

- memory manager: the heap can always be parsed; marking marks exactly what the
  roots reach, with a queue that fits; compaction slides objects without
  overwriting any not yet moved; after it every reference denotes the same
  object as before and there is room for the request; every call returns.
- data instructions and runtime functions: no word they keep across an
  allocation goes stale; together with the collector they behave as a graph of
  objects without addresses; what they register they unregister in order.
- calls: frames are disjoint, registers come back, the closure is where the
  captured variables are read; together they behave as activation records.
- readers: all three see the same instructions; every instruction of the file is
  counted once, and two share a count exactly when their bytes are equal.
- primitives: arithmetic is the same in both copies and modular, comparison is an
  order, equal values hash equal wherever they lie, patterns partition the
  values and are the same in the interpreter, printed text is whole.

`PROJECT.json` lists the hazards at their lines with the properties that cover
them.

## 2. Modules

| module | stands for | kind |
|---|---|---|
| `LamaWords` | words, boxing, headers and sizes of objects | operators |
| `Gc` | `gc.c`: heap, allocation, marking, compaction, extra roots, static area | component |
| `HeapClient` | what both clients of the collector share: the operand stack, the request of an object, and the dumps of the `DEBUG_VERSION` build | composition |
| `InterpHeap` | the data instructions over the collected heap | component, has `Init`, `Next`, `Spec`, `FairSpec` |
| `ObjectGraph` | what the memory manager promises to the interpreter | abstract specification |
| `RuntimeCalls` | the functions of `runtime.c` that allocate, as compiled code calls them | component, has `RuntimeSpec`, `FairRuntimeSpec` |
| `RuntimeGraph` | what these functions promise to compiled programs | abstract specification |
| `HeapProperties` | properties of the collector and any client | properties |
| `InterpHeapProperties`, `RuntimeProperties` | properties of each client, with its refinement mapping | properties |
| `HeapStructure` | the inductive invariant `Structure`: where objects lie | properties |
| `HeapSoundness` | the inductive invariant `Soundness`: what words point at, the queue, and what is marked | properties |
| `HeapIdentity` | the inductive invariant `Identity`: which object of the dump each object and word stands for | properties |
| `HeapSoundness_proofs`, `HeapIdentity_proofs` | the steps of the collector keep all three | proofs |
| `InterpHeap_proofs` | the instructions keep all three; the steps of the refinement; the theorems | proofs |
| `RuntimeCalls_proofs` | theorems about the pool of extra roots and the heap under the runtime functions | proofs |
| `RuntimeGraph_proofs` | the steps of the refinement by the runtime functions | proofs |
| `CallStack` | calls and returns, both stacks | component |
| `Activations` | activation records | abstract specification |
| `CallStackProperties` | properties, refinement mapping | properties |
| `CallStack_proofs` | invariants of both stacks and the steps of the refinement | proofs |
| `Bytecode` | bytes, opcodes and numbers of the format | operators |
| `FreqCount` | decoder, ordering and counting of instructions | component and properties |
| `Disassembler` | the loop of `disassemble` | component |
| `InterpReader` | how `interpret` reads and where it jumps | component |
| `BytecodeTools` | the three readers on one file | composition and properties |
| `BytecodeTools_proofs` | theorems about the counter and the readers | proofs |
| `Arithmetic` | words, boxing, `binop` and the synonyms of the operators | operators |
| `Patterns` | objects of the heap, tag hashes, patterns | operators |
| `Primitives` | comparison and hashes of values | operators |
| `Printing` | the text of a value | operators |
| `StringBuf` | the string buffer | component |
| `PrimitiveProperties` | properties of arithmetic, patterns and the buffer | properties |
| `PrimitiveCalls` | a program that calls the primitives | composition and properties |
| `Primitives_proofs` | theorems about arithmetic, patterns and the buffer | proofs |
| `MCHeap`, `MCRuntime`, `MCCallStack`, `MCBytecode`, `MCPrimitives` | instances for TLC | model checking |

A definition whose name ends in words like `_early`, `_late`, `_raw` next to its
plain twin is a defective variant with which the properties are tested:
replacing the plain definition by it makes the property fail.

### 2.1 Heap: `Gc`, `HeapClient` and `InterpHeap`

State and code:

| variable | code |
|---|---|
| `heap` | `memory_chunk heap` (`begin`, `current`, `size`; `end` is `heap_end`) |
| `mem` | the headers and contents in `[heap.begin, heap.current)`: address of a header to object with `type`, `len`, `words`, the two bits and the address of `forward_address`; `id` is `cur_id`'s number of the object, as in the `DEBUG_VERSION` build |
| `stack` | the words from `__gc_stack_bottom` down to `__gc_stack_top`, globals first |
| `extra` | the cells registered with `push_extra_root` |
| `pc` | the place in `alloc`/`gc_alloc`, `"run"` between instructions |
| `req` | the instruction that allocates, and type, length and words of the object |
| `gc` | the locals of the collector: root index, queue head and tail, object and field under `mark`, scanner, free address, live bytes, the old chunk |
| `dump` | what the snapshots of `gc_alloc` under `DEBUG_VERSION` record |

An instruction that does not allocate is one step. One that does is a request
(everything before the call of `alloc`) and a return (everything after it);
between them lie, if the heap is full, the steps of the collector: one per root
examined, per object dequeued, per field followed, per object given a
destination, per object whose fields are rewritten, one for the stack, one per
extra root, one per object moved. So a value that the code reads before `alloc`
is read in the request and one it reads after in the return. `mremap` chooses
any base of the constant `Bases`, so the heap may stay or move either way.
Words are numbers, addresses advance by four bytes, and the layout (two header
words, tag and code words that the collector must skip, strings in bytes
rounded up to words, objects with no members) is that of the 32-bit build the
Makefiles choose.

The programs that TLC tries are all programs over the instructions in `Ops`
that are well typed: the interpreter does not check that an operand is an
object, an index is in bounds or an operand belongs to the running frame, and
programs of the compiler keep to it. The errors the code does check (`Belem`,
`Bsta`, `Llength` of an integer) are steps to `"failed"`. Which integer a BINOP, TAG, ARRAY or PATT pushes is any of
those it can push; which one it is, is the business of `Arithmetic` and `Patterns`.

### 2.2 Compiled programs: `RuntimeCalls`

The collector of `gc.c` has a second client: programs that the Lama compiler
makes, linked with `runtime.c`. `RuntimeCalls` models each function of
`runtime.c` that allocates as a call by such a program: its checks and the cells
it registers before the allocation are one step, what it does with the new
object and the cells it unregisters another, and between them runs the
collector of `Gc` with its extra roots and the static area. `Bclosure` and
`Li__Infix_4343` unregister in loops or orders of their own, which `pops_match`
checks as `pop_extra_root` does; a push into a full pool, or a wrong pop, stops
the program. `set_args` runs first and makes one string per argument. Compiled
code itself is external: it pushes, drops, duplicates, loads and stores words
(`PUSH`, `DROP`, `DUP`, `LOAD`, `STORE`), and calls a function only with
operands whose types it declares, integers as positions and lengths being
natural numbers. What a function reads from a file or formats is any text of
`Strings`, or nothing; `stringcat` prints nothing for an integer and some text for
any object, a message if it is no list. The text that `Lstring` builds is in
`Printing`, its buffer in `StringBuf`.

`RuntimeGraph` says the same without addresses: `Lclone` makes an object with
the same members, `Li__Infix_4343` one with the characters of both arguments,
and so on. `Ls__Infix_58` is not in it: see 5.

### 2.3 Calls: `CallStack`

`stack` and `call_stack` are sequences that grow as the pointers go down;
positions stand for addresses. One step is one instruction: `CALL`, `CALLC`,
`BEGIN` (also `CBEGIN`), `END`, and the instructions that matter to calls
because they grow, shrink or write the operand stack. `Init` assumes that main
takes no arguments: nothing is under its frame, and `end` moves `sp` over as many
arguments as `BEGIN` has declared without a check (see 6). `goes_on` lets every
other instruction jump anywhere: conditions and targets of jumps do not matter
to any property here. Both stacks have their assertions, with their place one
word before the end and after the write. `Verified` says whether programs pop
operands of their own frame only, as the compiler's do.

### 2.4 Readers of bytecode: `Bytecode`, `FreqCount`, `Disassembler`, `InterpReader`

The code is any sequence of bytes up to a bound over a small alphabet that
contains opcodes; an integer takes `SIZEOF_INT` bytes. Each of the three
programs has its own switch, and so has its module: the groups of opcodes, the
bounds and what happens when one fails are translated three times.

`FreqCount`: `can_read` says whether `read_instruction` returns or stops the
program, `insn_end` what it returns; `less` is `operator<`, a `memcmp` as long as
its left operand; the map is the sequence of its entries in order, and a search
in it counts the entries that are less, which is what any search tree finds if
`less` is a strict weak order, as `OrderIsStrictWeak` checks. One step is one
round of the loop of `calculate_codes`, or the whole report. `has_name` says which
operators and patterns have a place in `ops` and `pats`. The counter evaluates
`ops[l - 1]` and `pats[l]` for the others as well, but does nothing with the word
while it counts; when it prints, the word is the address of a name, and the report
ends before that line in the status `"outside"`.

`Disassembler`: one step is one round of `disassemble`. It checks no bound; a
round that reads bytes behind the file, a name behind `ops` or `pats`, or a
string behind its table has undefined results, and ends in the status
`"outside"`.

`InterpReader`: one step is one round of `interpret`, as far as bytes are
concerned. `can_fetch` are the assertions of `next_byte` and `next_int`,
`update_ip` that of `update_ip`; `end` sets `ip` without one. Conditions of jumps
go either way, any closure that was made may be called, and any instruction may
stop the program because of its operands.

`BytecodeTools` gives one file either to the counter, or to the disassembler and,
when that has come to `<end>`, to the interpreter.

### 2.5 Primitives: `Arithmetic`, `Patterns`, `Primitives`, `Printing`, `StringBuf`

Words are naturals below `2^WORD_SIZE`, `word` cuts off what does not fit. The
heap is a constant: which objects there are, at which addresses, and what they
hold; headers, packed tags and the raw first words of closures and
s-expressions follow from that as the allocating functions write them
(`HeapAssumption`: contents are aligned, and `LtagHash` has accepted the tag of
each s-expression, since it stops the program otherwise). All of
`runtime.c` that computes on it is an operator of the same name. `PrimitiveCalls`
holds three words and calls any primitive on them, with the result in the first,
so that results of one are operands of the next. A call of `printStringBuf`
writes a piece of text; one step of `VprintStringBuf` is one pass through
`again:`, and a symbol of the model is a character of a string or a whole number.

What follows the structure of values is recursive in the code and here
(`Primitives`, `Printing`). What theorems are about, which goes over a number or
a sequence only, is written with recursive functions and kept in modules of its
own; `StringBufSpec` is the buffer alone, with any texts to print.

## 3. Runs

Constants are in the `.cfg` files. Deadlock is checked in every run.

| run | question | bounds and why they are enough |
|---|---|---|
| `heap_arrays` | Do the loops of mark and compact keep their invariants? | a heap that starts with four words, four allocations of arrays of up to two members, three operands and a global: at least two collections with growth in between, cyclic and shared arrays, garbage below, between and above live objects, arrays of length zero at the very end of the heap |
| `heap_boxed` | Does a collection change any value, whatever the object kinds and wherever the heap goes? | two bases sixteen bytes apart, so that the old and the new mapping overlap and an address not shifted, or shifted twice, denotes another object; s-expressions and closures whose raw first word looks like a heap pointer; strings under extra roots |
| `heap_refinement` | Do the instructions implement the object graph, and does every allocation return? | three allocations, one base, all kinds of objects and stores |
| `captured_variables` | With every instruction of the model, do words stay words, and where do the addresses go that `lda` pushes for captured variables? | a heap large enough never to be collected, since a collection breaks those addresses (see 5) |
| `interior_reference` | Are the words handed to `mark` contents of objects? (violated, see 5) | |
| `runtime_objects` | Do the runtime functions have their effect, whatever is collected in them? | a heap of six words that any third object makes grow, and move to a second base; three allocations, a static cell, strings of one and two characters, no or two arguments of the program: arguments move inside `Li__Infix_4343`, `Lsubstring` and `Lclone` and the array inside `set_args`, and static cells are scanned and fixed; without `Ls__Infix_58`, for which this fails (5) |
| `runtime_calls` | All functions: is the pool popped as it was pushed, who overflows it, does a program start? | a pool of three cells, one of which `global_sysargs` keeps, so that the functions with two roots fill it; no or two arguments for `set_args`, whose array is collected and kept before the program starts; one base and too few allocations for an object to move, which is for `runtime_objects` to show |
| `cons_synonym` | Does the function for `:` make its object of its operands? (violated, see 5) | |
| `calls` | Do the frames stay apart and come back? | nine words of stack and sixteen of call stack: three nested frames, and both overflows occur |
| `empty_operands` | Does an access to an empty operand stack stop the program? (violated, see 5) | the instance of `calls` with `Verified = FALSE` |
| `bytecode` | Is each instruction counted once under its own bytes, and do the three readers agree? | every code of up to six bytes, of six bytes with operands, strings and closures for the counter, and of eight with calls, jumps, closures and returns for the interpreter; integers of one byte: closures that capture nothing, one variable or a negative number of them, equal and different instructions, truncated and broken files, jumps into instructions and out of the file, two nested calls |
| `primitives` | Do the primitives compute what they mean? | words of six bits: every operator overflows and every difference that loses its sign occurs; nineteen objects, among them equal ones at different addresses, nested five deep, a string with a zero, tags that agree in all characters that count; a buffer of two symbols, extended up to five times |

What the properties say:

- `HeapParsable`: the object iterator goes from header to header and ends at
  `heap.current` in every state in which anybody uses it.
- `NoDanglingPointers`: outside a collection, what looks like a heap pointer in
  a root or field is the address of contents.
- `BitsClearOutsideCollection`, `QueueInvariant`, `MarkedAreReachable`: the two
  bits, the intrusive queue (no duplicates, only unmarked objects, exactly those
  with the enqueued bit, never past the headers), and the result of marking,
  compared with reachability as a least fixed point.
- `SlidesDown`: destinations keep the order, are disjoint and lie below.
- `CollectionMakesRoom`: the untested second allocation succeeds.
- `DumpsAgree`, `GarbageReclaimedInOrder`: what the collector's own debugging
  dumps compare, and what the unit tests assert of the survivors.
- `ImplementsObjectGraph`, `ImplementsRuntimeGraph`: every step is a step of the
  object graph or a stutter; in particular no step of the collector shows.
- `AllocReturns` under `FairSpec`, `ProgramStarts` under `FairRuntimeSpec`: weak
  fairness of the steps of the collector, of the return from `alloc` and of
  `set_args`, which has no caller to wait for, and of nothing else. There is one
  thread, and once it has called `alloc` it does nothing but these steps, so the
  fairness only says that the process runs. No instruction and no call is fair:
  a program may stop for input between any two.
- `PoolBalanced`, `OverflowOnlyByClosures`: between calls the pool holds what it
  held before, no pop is refused, and a program is stopped for a full pool only
  in `Bclosure`, whose number of cells it chooses itself.
- `CapturedAddressesInside`, `MarkedRootsAreContents`: addresses of captured
  variables.
- `CallStackBalanced`, `FrameChain`, `ClosureUnderArguments`,
  `ImplementsActivations`: see the comments in `CallStackProperties`.
- `CountsAreExact`, `OrderIsStrictWeak`, `ReportIsRight`: the counts and their
  order in the report against the instructions as they follow each other. A
  report that ends at an instruction without a name has the lines of the most
  frequent ones, and lacks one that has no name.
- `StopTerminatedIsCounted`: `next_int` rejects an integer at the very end of
  the file; in a file that ends in `STOP` no whole instruction is rejected.
- `SameInstructions`: the counter reads the lines the disassembler prints, and
  what stops one stops the other, but for operators and patterns without a name,
  which the disassembler prints and the counter only counts.
- `StaysOnInstructions`, `RunsWhatIsPrinted`: in a file whose labels are
  instructions, the interpreter executes only what the disassembler prints, and
  its strict bounds reject nothing but a `STOP` that is the last byte.
- `ArithmeticIsModular`: both copies of the arithmetic. The product of two
  integers may overflow a signed `int`, which C leaves undefined and the model
  cuts off, as the multiplication of the machine does.
- `PatternsMatch`: the patterns of the runtime partition the values, `TAG` and
  `ARRAY` match what they name, and each pattern of the interpreter's own switch
  (`check_tag`, `patt`) answers as its counterpart in the runtime.
- `CompareIsOrder`, `EqualValuesHashEqual`, `BufferHoldsText`: see the comments in
  `PrimitiveCalls` and `PrimitiveProperties`. The order is claimed of values
  whose integers have a bit to spare, and the hashes of strings without a zero,
  because the code does not give more (see 5).

`captured_variables` never collects; that the heap keeps its structure with
every instruction and any collection is what the theorems say, and 4.2 has its
two properties in heaps that are collected, too.

## 4. Proofs

### 4.1 The shape of the heap

`HeapSoundness_proofs` proves that the steps of the collector keep `Structure`, and
`InterpHeap_proofs`, for every base, capacity, program and bound:

- `StructureHolds`: `Spec => []Structure`
- `HeapParsableHolds`, `SlidesDownHolds`, `CollectionMakesRoomHolds`

They rest on the named assumptions `BasesAssumption` and `CapacityAssumption`
of `Gc` and `ProgramAssumption` and `AddressAssumption` of `InterpHeap`:
addresses and bounds are naturals, bases are aligned to words, a heap starts
with at least one word, and globals lie outside the heap.

None of the three properties is inductive. That relocation does not overwrite
an object needs the destinations that an earlier pass wrote; that these are
right needs the heap to be parsable in between, although `mremap` has moved it;
and that the heap is parsable in the end needs what relocation has already
put below its scanner. `Structure` therefore adds a conjunct per phase:

- `Bounds`, `Shapes`, `AllocShape`: objects lie between `begin` and `current`
  and have sizes;
- `Computing`: up to the scanner, the destinations of marked objects are a
  `chain`: they fill the bytes from `heap.begin` up to `gc.free` without a gap,
  in order, each at or below its object;
- `Decided`, `Updating`: after `mremap` the same chain, shifted with the heap,
  and a heap that holds the live words twice and the request;
- `Relocating`: there is a frontier `f` at or below the scanner such that the
  objects below `f` fill the heap up to `f` and the destinations from the
  scanner on are a chain from `f`. One step moves one object to `f` and the
  frontier behind it, which the chain keeps below the next object.

At the end the frontier is `heap.begin + gc.live`, which is both the tiling of
the compacted heap and, with `Decided`, the room for the request. What words
the objects hold, whether they are marked rightly and whether the queue works
is nowhere used: the shape of the heap survives any marking.

`Structure` itself is an invariant of the run `heap_boxed`.

### 4.2 The contents of the heap

The same modules prove that the steps of the collector keep `Soundness`,
given `Structure`, and that the instructions do:

- `SoundHolds`: `Spec => []Sound`, with `Sound == Structure /\ Soundness /\ Callers`
- `NoDanglingPointersHolds`, `QueueInvariantHolds`, `MarkedAreReachableHolds`,
  `BitsClearHolds`, `InterpTypeOK`, `MarkedRootsAreContentsHolds`

A word is in `references(O)` if it points at an object of `O` or at nothing that a
collector would take for an object, whichever base `mremap` chooses next.
`Soundness` says, phase by phase, of which set `O` each word is a reference:

- `Clean`: while the program runs and in `mark_phase`, of all objects;
- `MarkingRoots`, `Queue`, `Traced`: the roots before the current one, and the
  fields of scanned objects, refer to objects marked or in the queue. The slots
  of the queue up to its tail hold each object visited in this call of `mark` at
  most once, which is why the tail never passes the last header; the object
  under the scanner has its fields done up to `gc.fld`;
- `Closed`: after marking, every word that is still followed refers to a marked
  object: nothing that `compute_locations` drops is needed;
- `Moved`, `UpdatingObjects`, `FixingRoots`: after `mremap` the words of what the
  pass has been over refer to destinations, all others to the places the objects
  had in the old chunk. No word is taken for the other kind: the scanner, the
  stack pass and the index in the pool say which kind each word is;
- `Relocated`: every word refers to a destination or to an object that lies at
  its own already.

`MarkedAreReachableHolds` needs the other half of `Closed`, that nothing else is
marked. `Reached` states it without counting steps: what `mark` has visited lies
in every set of objects that holds the targets of the roots and is closed under
fields. `MarkedIsLive` then identifies the marked objects with `live_objects`,
which is defined by layers, as many as there are objects: each layer holds the
one before, a layer that adds nothing is closed, so with one object more per
layer the last one is closed, and every layer lies in every closed set. That
the recursive function of the layers exists and never shrinks is proved by its
smallest counterexample, as the provers have no induction over an operator.

It takes one thing that the collector cannot know: that what it finds in a root
is an address of contents. `lda` of a captured variable breaks that (the run
`interior_reference`, see 5), and the theorems assume `NoInteriorAddresses`,
that the program does not use this instruction. `MarkedRootsAreContentsHolds`
says that it is the only cause: without it, what that run violates holds of
every program and heap. The shape (4.1) needs no such assumption.
`TwoCellsAssumption` of `InterpHeap` gives the pool the two cells that `Lstring`
and `Bstring` register.

Programs with `lda` of a captured variable have theorems of their own, for the
runs in which no such address is left in a root or in a field whenever a
collection starts (`NoneAcrossCollections`: `alloc` finds no room only where
`NoDanglingPointers` holds). That is what the collector needs of them, and every
run of a program without the instruction, and every run that never fills its
heap, is one.

- `CapturedAddressesInsideHolds`, `CapturedMarkedAreReachable`,
  `CapturedCollectionsSafe`: `Spec /\ []NoneAcrossCollections => []P`

Their invariant `HoldingInv` has two kinds of words between collections
(`Holding`): references to objects, and addresses `inside` a closure, behind its
code offset and before its end (`held` is both). Instructions that move, store or
allocate words keep them among `held` by the same lemmas as above, which are
stated for any set of words that holds the plain ones (`MovedWords`,
`StoredWord`, `RequestedWords`, `ReturnedWords`). `lda` itself needs one fact
about objects: a closure has all the words its header says (`closures_filled`), so the
address of the last one is below the next header; every step of the collector
keeps that (`CollectorFills`). An address inside a closure lies in the heap, so
where nothing dangles only references are left (`NoneCapturedNow`): the
collector starts from `Soundness`, ends with it, and `Soundness` is a case of `Holding`.

### 4.3 The identity of the objects

`HeapIdentity_proofs` proves that the steps of the collector keep `Identity`,
given `Structure`, `Soundness` and `Reached`; `InterpHeap_proofs` does the rest:

- `DumpsAgreeHolds`, `GarbageReclaimedInOrderHolds`
- `CollectorStuttersHolds`: `Spec => [][CollectStep => UNCHANGED <<abs_roots,
  abs_graph>>]_vars`, the steps of the collector in the refinement of the object
  graph.

That references do not dangle does not say that they lead to the object they
led to before. `Identity` says it, with *names*: functions from addresses to the
numbers of objects. `names_now` names the addresses of headers, `old_names` those
the marked objects had before `mremap`, `new_names` those they are moved to.
Under the right names, the heap always describes the graph in the dump:

- `Numbered`: objects have numbers of their own. While relocation is moving
  objects this holds of the survivors only, since what it has not reached yet is
  overwritten bit by bit;
- `Unchanged`: up to `compute_locations`, roots, graph and order are the dump's;
- `Kept`: from `mremap` on, each surviving object and each root describes what
  the dump has of it: by `new_names` if the pass has been over it, by `old_names`
  if not. `object_fixed`, `stack_fixed`, `cell_fixed` and `statics_fixed` say
  where the pass is; registered cells that lie on the stack are fixed with it;
- `Rooted`: no smaller part of the dump holds what its roots refer to and is
  closed under references. It brings the argument back at the end: all objects
  that relocation leaves are reached from the roots again, so that `now_graph`,
  which is the part that is reached, is the whole heap.

The steps that move something rest on what 4.1 shows of them. A reference
fixed by `new_reference` means under `new_names` what it meant under `old_names`
(`NewValue`), because destinations are distinct and aligned, so that no fixed
reference looks like an integer. Moving one object changes neither the names,
since places that have been reached keep theirs and all others lie beyond, nor
the order (`RelocateCarries`), since objects slide without passing each other.
`Identity` was checked by TLC on the instances of `heap_boxed` and `heap_arrays`.

### 4.4 The object graph

`ImplementsObjectGraphHolds`: `Spec => ImplementsObjectGraph`, in programs
without `lda` of a captured variable. What the instructions do over a heap with
addresses, in which a collection may move every object in the middle of any
allocation, is what `ObjectGraph` does with identities. `CollectorStuttersHolds`
gives the steps of the collector; the others are proved where the program runs,
before and after an instruction or the return from `alloc`:

- `View` gathers what `Soundness` and `Numbered` say of such a state. Two facts
  carry the argument: `live_objects` is the least set of objects that holds what
  the roots refer to and is closed under fields, and `now_graph` is `whole`, with
  no object that the roots do not lead to. Headers are aligned
  (`HeadersAligned`), so that the address of an object is never taken for an
  integer and shows as a reference wherever it is read from;
- `LivePart` is the counterpart on the side of `ObjectGraph`: a graph that is
  whole, closed and agrees with a larger one is its `live_part`. With it no step
  needs to follow the layers of `reachable`; it is enough that no root and no
  field of a surviving object points elsewhere;
- `GraphMoves` (instructions that move words, failures, requests), `GraphStored`
  (`STA`, `ST_C`: a store to an object that dies with the same step is a `Move`)
  and `GraphExtended` (the returns) apply it. `ReturnedNew` takes a new object
  that is filled with its operands to `New`: `NewValues` shows that an address
  for which there was no object yet means nothing else afterwards,
  `ReturnedRoots` that the operands and the registered cells are what the roots
  lose, and `ArrayTakes`, `SexpTakes`, `ClosureTakes` and `StringTakes` that the
  object holds what the roots showed, in their order.

### 4.5 The pool of extra roots

`RuntimeCalls_proofs` proves, for every program of the compiler and every size
of the pool, `PoolBalancedHolds` and `OverflowOnlyByClosuresHolds`. The
invariant `Frames` states for each function which cells are registered between
its request and its return, above those of its caller: `CallPool` for the
program's calls, `SetArgsPool` during `set_args`; `Arguments` says that the words
whose cells are registered are on the stack, and `PoolLoop` where the loop over
the pool in `update_references` stands, since its indices are cells too. It
assumes nothing about the program.

### 4.6 The heap under the functions of the runtime

Also in `RuntimeCalls_proofs`:

- `RuntimeInvHolds`: `RuntimeSpec => []RuntimeInv`, with
  `RuntimeInv == Frames /\ HeapInv /\ Requested /\ Handing /\ Statically`
- from it `RuntimeTypeOKHolds`, and of `RuntimeSpec` all that 4.1 to 4.3 show of
  the interpreter: `RuntimeNoDanglingPointersHolds`, `RuntimeDumpsAgreeHolds`,
  `RuntimeGarbageReclaimedInOrderHolds`, `RuntimeMarkedAreReachableHolds`,
  `RuntimeQueueInvariantHolds`, `RuntimeBitsClearHolds`,
  `RuntimeHeapParsableHolds`, `RuntimeSlidesDownHolds`,
  `RuntimeCollectionMakesRoomHolds`

`HeapInv` is `Structure`, `Soundness`, `Reached` and `Identity`; the lemmas about
the collector are those that serve the interpreter. The functions are harder
than its instructions, for two reasons.

What they write into a new object comes partly from before the allocation and
partly from after it. `Bstring` has the length from before and copies from a
cell that the collection has updated; `Li__Infix_4343` asks for the sum of two
lengths and reads both strings again; `Lsubstring` has checked its range
against an object that has moved since; `Lclone` copies an object bit by bit,
its header included. That none of them writes beyond its object, that a copy
has the size that was asked for and that its mark bits are clear needs the
collection in between to have kept type, length and text of the arguments.
Addresses do not say that, since they have changed. `Requested` says it with
what does not change: it relates the request to what the arguments show
(`shown_arg`), which are values of the graph of the dump and not words. `Shows`
relates the two for a root, and while no collection is under way the words of
the stack, the static area and the registered cells are all shown.

And there are words that the collector does not scan. The C variables of a
function in the middle of its call are all registered, which `Frames` (4.5)
says. `set_args`, which runs before the program, also holds the string that
`Bstring` has returned to it, which nothing registers: `Handing` says that it
does so only between two allocations, where it stores the string in its array.

The theorems assume `ProperCalls`, that the program calls neither
`Ls__Infix_58` nor `Lsprintf`, as the run `runtime_objects` does. Without it they
are false (5): the first makes its object of words that it has not registered,
the second leaves raw integers where the collector scans for pointers. That
every other function of the module keeps the heap says that there is no third.

### 4.7 The object graph under the functions of the runtime

`RuntimeGraph_proofs` proves `ImplementsRuntimeGraphHolds`:
`RuntimeSpec => ImplementsRuntimeGraph`, under `ProperCalls` again. That the heap
is sound does not say that a function makes the right object: `Lsubstring` could
copy from the place its argument had before the collection and still leave a
string of the right length. Here the object that a return leaves is the
`result` of the arguments as the call found them.

The state of `RuntimeGraph` is what the variables of the program lead to, and not
what the registered cells do: a cell of the stack is seen already, the buffer of
`Bstring` is not. The argument has four parts.

- `SeenHolds`: while no collection is under way, what is seen is the part of
  `now_graph` that `global_sysargs`, the static area and the stack reach, and is
  `whole`. `CollectorSeen`: it is the same before and after every step of the
  collector, in the middle of a collection too.
- `MoveShown`, `CallShown`: instructions of the program move values that it
  knows, and a call pushes and pops cells, which do not show. `FirstSeen` needs
  that the array of the arguments stays alive, which `Held` says.
- `ReturnShown`: a return replaces the arguments on the stack by the new object,
  whose fields show what the arguments showed. What each function fills it with
  is a lemma of its own (`CloneShown`, `SubstringShown`, ...), which takes
  lengths and texts from the request by `Requested` (4.6).
- `set_args` runs before the program and is a single step of `RuntimeGraph`, its
  last. That it leaves an array of different strings is an invariant of its
  loop, `Filling`: the first `i` words of the array are different strings, the
  others still 0, and the string that `Bstring` returns is none of them. Since a
  collection may move all of them at any iteration, it too is stated of what the
  registered cell of the array shows (`FilledShown`, `CollectorFills`).

The inductive invariant is `GraphInv == RuntimeInv /\ Filling /\ Unseen`, where
`Unseen` says that the program sees no object until it runs.

### 4.8 The call stack

`CallStack_proofs` proves, for stacks of every size and all functions a program
may have:

- `CallStackTypeOK`, `CallStackAlwaysBalanced`, `FramesAreDisjoint`,
  `ClosuresStayUnderArguments`
- `CallStackImplementsActivations`: `Spec => ImplementsActivations`

They assume `Verified`: a program pops operands of its own frame only, which the
compiler's programs do and the interpreter does not check (`empty_operands`,
see 5). The invariant `CInv` reads the call stack as blocks of saved registers,
compares each frame with all frames above it and not with the next only, says
what lies under each frame entered through a closure, and says what `BEGIN`
will find while a call is under way: the return address on top of the one
stack, the arguments and the closure on top of the other. The refinement maps
each block to a record with the variables and operands between its registers;
initial states map to initial states and each of the instructions to a step of
`Activations` or a stutter, frames that are not the running one being the same
words at the same places.

### 4.9 Counting instructions

`BytecodeTools_proofs` proves, from `CodeAssumption` (bytes are bytes, an integer
takes at least one) and for every code:

- `TypeOKHolds`: `Spec => []TypeOK`, in which the entries of the map lie in the
  part of the code already read;
- `PrefixFreeHolds`, `OrderIsStrictWeakHolds`
- `CountsAreExactHolds`, `ReportIsRightHolds`
- `StopTerminatedIsCountedHolds`

The invariant `IInv` adds that each entry is an instruction where it begins.
`InsnInside` shows that an instruction the decoder accepts ends inside the
code; `PrefixCode` that two of them that agree on the bytes of the first are
of one length: one byte decides the group of the opcode, the group decides the
length, and the number of captured variables of a closure lies in the bytes
before the first of them. On that rests the order: two instructions are equal
or `operator<` is decided at their first difference, which lies inside both, so
it is asymmetric, transitive and total up to equal bytes, and the entries less
than a new instruction are an initial segment of the map (`Ordered`,
`LowerIsPrefix`).

The counts are exact (`Counted`) because `increment` finds the entry with equal
bytes, if there is one, at the place of the search. What they are compared with
is `starts`, a recursive function from places to whether an instruction begins
there: `StartMapExists` takes the least set of places closed under what follows
what, and `StartMapUnique` the least place where two such functions would
differ. `Chained` says that the instructions read lie behind each other without a gap, so
that a step adds exactly `ip`. The report is a permutation of the map in the
order of counts (`SortedIsRight`), cut off in front of the first entry without a
name; equal instructions both have a name or have none (`SameName`), so that the
name of an entry is that of every instruction it counts. A code that goes on to a `STOP` at its end is never refused
(`StoppedInFront`): an instruction that could not be read would have to end
where the code ends, and then none would end in front of the `STOP`.

### 4.10 The readers

The same module proves, from the same assumption and any bound on the
depth of calls:

- `SameInstructionsHolds`, `StaysOnInstructionsHolds`, `RunsWhatIsPrintedHolds`,
  `ReadersTypeOKHolds`: `FileSpec => []` of the properties of the readers.

Lemmas compare the three switches group by group (`SameGroups`,
`HandlersAreCases`, `PlacesAreCases`) and instruction by instruction
(`BehindLine`: a handler that goes on reads exactly the line, the others no
more). The invariant `FileInv` has two parts: `Disassembled`, that the lines
printed are whole instructions, the next beginning where the last ended, and
`Executed`, that `ip`, all return addresses and all labels of closures are among
them if those in the code are. It takes both: a return address is the place
behind a call, which is an instruction because the call is a printed line.
`ReadersTypeOK` holds of files that are not linked too: an address is compared
with the end of the area where it is read, before a call makes the place behind
it a return address. A label is a number because the recursive functions that
put its bytes together are: of two candidates for such a function the least
argument where they differ, or where the value is no number, gives a
contradiction.

### 4.11 The primitives

`Primitives_proofs` proves:

- `ArithmeticIsModularHolds`: `RegsTypeOK => ArithmeticIsModular`, for every even
  number of bits (`WordAssumption`);
- `PatternsMatchHolds`: `PatternsMatch`, of the runtime's patterns and those of the
  interpreter, for every heap (`HeapAssumption`) and
  every table of characters and length of hashed tags (`TagAssumption`: the hash
  of a tag fits into a boxed integer);
- `BufferHoldsTextHolds`: `StringBufSpec(Symbols) => []BufferHoldsText`, for every
  set of symbols and every initial size (`StringBufAssumption`).

The first two are about every state, of whatever words the program holds: they
need no step. Boxing an integer keeps it up to a multiple of `half`, the number
of boxed integers (`UnboxBox`), and does not see such a multiple (`BoxModulo`),
so a law of the integers is one of words. That sizes are powers of two rests on
`FS_SUBSET`, which counts the subsets of an interval: the library has no theorem
about powers, and `PowerDoubles` is that a further element doubles the subsets.

A tag is matched by the hash that `TAG` computes for its name. `HashFits` shows
that the hash is below `2^(CHAR_BITS * TAG_CHARS)`, so that boxing does not cut it
off, `SameHash` that two tags that `LtagHash` accepts have the same hash exactly
if they have the same first characters, for which it compares with `de_hash`;
`HeaderOf` reads type and length from a header. The hash and the bound are
recursive: as in 4.9, the least place where a function would go wrong gives a
contradiction.

The buffer: `BufferInv` adds to the property that the pieces still to be written
are texts. A pass of `again:` either writes the first of them, or cuts it off and
leaves `ptr` where it was; `FlattenHeadTail` takes a piece off a text that is
concatenated from the left.

### 4.12 What is only model-checked

- Liveness under fairness (`AllocReturns`, `ProgramStarts`), which is out of the
  prover's reach.
- `RuntimeTypeOK` in programs that call `Ls__Infix_58` or `Lsprintf`, which the
  run `runtime_calls` has; 4.6 says why the theorems do not.
- `CompareIsOrder` and `EqualValuesHashEqual`, which are about operators that are
  recursive over the heap, as the C functions are.

## 5. Findings

- `interior_reference`: `lda` of a captured variable pushes an address inside
  the closure (`interpreter/iterinter.c:290`). If the next allocation collects,
  `mark` is handed an address that is no object's contents, contrary to its
  comment (`lama-v1.20/runtime/gc.c:512`).
- `cons_synonym`: `Ls__Infix_58` registers its parameters and passes copies of
  them to `Bsexp`, which registers nothing; if the allocation in `Bsexp`
  collects, the addresses the operands had before go into the new object
  (`lama-v1.20/runtime/runtime.c:98`).
- `empty_operands`: the assertion of `pop_op` compares with the place above the
  globals and not with the bottom of the operand stack, so an access to an empty
  operand stack first eats the globals (`interpreter/iterinter.c:171`).

Things met while modelling that are modelled as they are, without a run, since
nothing in the repository says otherwise:

- `fix_unboxed` leaves raw integers among the arguments of `Lsprintf`, which the
  collector scans as words (`runtime.c:973`).
- `next_byte` of the interpreter never reads the last byte of the file, so a
  `STOP` there is an error (`iterinter.c:214`); `RunsWhatIsPrinted` names it.
- The interpreter reads the column of FAIL as a byte (`iterinter.c:662`), the
  other two as an integer (`byterun.c:227`); it stops there anyway.
- `Lcompare` boxes differences: of two integers more than 2^30 apart the sign is
  lost (`runtime.c:624`). Strings are compared and hashed up to their first
  zero, although their length is hashed too (`runtime.c:559`), so two that
  compare equal may hash differently.
- `~UNBOXED(q)` in `LflatCompare` is never zero (`runtime.c:610`).
- BINOP `==` of the interpreter unboxes both operands, so an address equals the
  integer of half its size (`iterinter.c:396`); `Ls__Infix_6161` compares words.

## 6. Not modelled

The tables of `PROJECT.json` say why for each component. In short: files,
processes, regular expressions and the clock have no state of their own and
nothing a collection could disturb beyond what `LreadLine` and `Lfread` show;
the binary layout of a bytecode file (`read_file`) is data; the text of a line
of the counter and its buffer, `Luppercase`, `Llowercase`, `LstringInt` and
`LmatchSubString` are calls of libc. Lists and arrays that are cyclic, on which
the primitives do not end, are not in the instance. The code that the compiler
generates is not in the repository.

Smaller deviations from the code, none of which a property depends on:

- Main takes no arguments (`CallStack.Init`). The compiler decides it, and nobody
  pushes any. The `END` of a main that declares some would move `sp` over the
  globals or behind them (`iterinter.c:377`), write the result there and end the
  program. `FrameChain` says nothing about that; in nested calls the arguments are
  there.
- `mremap` succeeds: that it may fail and stop the program (`gc.c:269`) is left out.
- `scan_and_fix_region` is called with a bound one word behind the bottom of the
  stack (`gc.c:441`); `fix_stack` rewrites the stack only.
- The cells of the static area that `scan_and_fix_region_roots` skips
  (`gc.c:342`) do not occur: no function of the runtime registers one.

## 7. Plan

1. Done: heap and collector with both of their clients, refinements to object
   graphs, structure theorems; calls and returns; the three readers with the
   theorems about their agreement; the primitives with theorems about arithmetic,
   patterns and the buffer. Theorems about the contents of
   the heap, the queue, what is marked and what a collection keeps, the
   refinements of both object graphs, the call stack and its refinement, the pool
   of extra roots, the heap under the functions of the runtime that register what
   they use, the order of the map, the counts and the report.
2. Proofs: the identity of objects (4.3) in programs that take addresses of
   captured variables, between collections as 4.2 describes.
