# ChaiVM in TLA+

ChaiVM is a virtual machine for chai bytecode: an assembler writes a `.chai`
file, the code manager loads it, an executor interprets it with a register
frame per call, an accumulator, a heap of objects collected by mark and
sweep, and a buffer of arrays of numbers that is never collected. This
directory models the machine, checks the models with TLC and proves many of the
results with TLAPS. Sections: inventory, modules, what the
checks show, what is proved, what the code does differently from its documents,
plan.

## Inventory

| Component | State | Operations | What makes it correct |
|---|---|---|---|
| Executor (`executor.cpp`, `frame.cpp`) | `currentFrame_` chain, registers and their reference bits, `acc_`, `isAccRef_` | one handler per opcode, `run()`, `triggerGC()` before each | no reference dangles; no handler reads memory that is not an object; calls and returns nest |
| Collector (`garbage-collector.cpp`) | `roots_`, marks in object headers | `collect()` = collectRoots, mark, sweep | frees exactly what the program cannot reach; leaves no marks or roots; ends |
| Objects (`objects.hpp`, `klass.cpp`) | a block: header, members | get, set, index | an index names an element or throws |
| Traced allocator (`traced-allocator.hpp`) | trace of blocks, byte count, capacity | allocate, deallocate | trace and count agree with the blocks in use |
| Linear buffer (`linear-buffer.cpp`, `linear-allocator.hpp`) | a mark | allocate, deallocate | blocks in use do not overlap |
| Frames buffer (`executor.cpp`, `frame.cpp`) | the mark and the chain | run, call, ret, exceptions | frames nest; an exit gives everything back |
| Machine (`executor.cpp`, `func-struct.hpp`) | the code of functions, a pc per frame, the native stack | fetch, dispatch, branch, call, ret | a pc stays in its function, a return goes on after its call; runs end |
| Integers (`executor.cpp`) | none: registers are unsigned words | add ... modi, `If_icmp*`, sizes of arrays | signed where the handler converts, and only there |
| Primitive arrays (`executor.cpp`) | the primitives buffer, a mark that only rises | new, get, set by raw byte address | an access by reference and index meets that element and no other array (nothing checks) |
| Code manager (`code-manager.cpp`) | klasses, functions, constant and string pools | load, getters, `addCnstString` | an id names one constant for ever (16 bits) |
| File format (`chai-file.cpp` ...) | the pool and lists being built | add, write | what is written is what is read |
| Encoding (`instr2Raw.cpp`, `decoder.cpp`) | none | encode, parse | parse undoes encode |
| Assembler (`assembler.hpp`, `asmlex`) | current lexeme, function ids, the file being built | two passes, an error anywhere | each source instruction becomes the instruction it names, each call reaches the function it names; ends on every text |

Interactions are calls on one thread. The executor asks the code manager for
constants, klasses and functions; frames live in one linear buffer, primitive
arrays in another, objects in the traced allocator; the collector walks back
into the executor for roots and into the allocator to free. Nothing runs
concurrently and nothing is persisted at run time: what is hard is the *order*
of legal calls. A reference bit set a thousand instructions ago decides whether
an object is a root today; a collection may come before any instruction; an
exception thrown in a handler leaves `run()` with the frames in place. The
hazards are listed line by line in `PROJECT.json`.

Assertions are part of the model: both build types of `CMakeLists.txt` leave
`NDEBUG` undefined, so a failed `assert` ends the process.

## Modules

- **`Heap`**: objects and arrays as functions from addresses to blocks of
  members, klasses as the tuple of their `isObject_` flags, `Reach` (least
  closed set, so that proofs can use it without recursion), and the three shapes
  of graphs that marking cannot digest: an array in a member, a cycle, and a
  chain longer than the native stack.
- **`Executor`** (extends `Heap`): frames, accumulator, heap, `allocated_`, and
  one action per handler. The instruction executed next is *any* instruction:
  every program is a behaviour. `DO_NEXT_INS` is two steps, `TriggerGC` and the
  handler. `mode` records how `run()` ended: returned, threw, failed an
  assertion, reached undefined behaviour, overflowed the native stack.
- **`Bytecode`** (extends `Executor`): `DisciplinedNext` restricts the programs
  by the few rules the executor does not check, and states the properties.
- **`ObjectStore`**: the abstract specification. Programs hold references, make
  objects, copy and store references; objects that no held reference leads to
  may disappear.
- **`Collector`**: `collect()` loop iteration by loop iteration, with the
  recursion of `markObjects()` as an explicit stack, over an abstract program
  that respects the store. It is shown to implement `ObjectStore` by itself.
- **`Interpreter`** (extends `Bytecode`, with an instance of `Collector`): the
  two together. The collector's slots are what `collectRoots()` reads off the
  chain of frames and the accumulator, its trace is what the handlers'
  allocations left, and `triggerGC()` is its loops. It implements `Bytecode`,
  where a collection is one step, under a mapping in which sweeping happens at
  once when marking ends.
- **`LinearBuffer`**: the bump allocator, with its blocks in use as history, and
  clients that free last in, first out.
- **`FrameStack`** (extends `LinearBuffer`): frames as two blocks each, the
  `Frame` and its registers. `Call` and `Construct` take them, each of which may
  fail, `Destroy` and `Ret` give them back: one step for every block, since
  `deallocate()` ignores its pointer and only the order of the calls keeps
  blocks apart. That this order is last in, first out is a property of it.
- **`Arithmetic`**: words of a width, the conversions to signed integers the
  handlers make, division towards zero as C++ defines it, comparison, and the
  size of an array, which wraps.
- **`Primitives`** (extends `Arithmetic`, `LinearBuffer`): arrays of numbers in
  a buffer nobody frees, under any program of integer instructions with a small
  set of registers. Accesses are to whatever byte address the accumulator and
  the scaled index add up to, modulo a word: between two words they reach the
  end of one and the beginning of the next, outside the buffer they are
  undefined.
- **`ArrayStore`**: what they promise: arrays that start with zeros, and stores
  that reach one element, or parts of two that are neighbours (of one array, or
  of two made one after the other). `Primitives` implements it.
- **`Encoding`**, **`ChaiFile`** (extends `Encoding`), **`CodeManager`**
  (extends `ChaiFile`, `FunctionTable`): instruction words and their decoding,
  the builder of a file and what it writes, and the loader, the pools and the
  string instructions of the loaded program. Ids and counts are narrowed where the
  code narrows them, at a byte of `ByteSize` values.
- **`FunctionTable`**: `funcs_`, which the loader fills and the executor runs.
- **`Assembler`** (extends `CodeManager`): `assemble()` over a stream of
  lexemes: the pass that collects names, then an action per instruction,
  function header, closing bracket and end of text, each with its error paths,
  building with the operations of `ChaiFile`, writing with its `File`.
- **`Machine`** (extends `FunctionTable`): control flow over given code. One
  action per kind of handler, each ending with `Dispatch`, which is a jump or
  takes native stack, as the compiler decided for that handler; data is
  abstract, so a conditional branch goes either way, and the assertion of the
  handlers of `If_acmp*` holds or fails.
- **`Pipeline`** (extends `Assembler`, `Machine`): from a text to the end of its
  run. The functions `Machine` runs are those the loader appended, so that
  statements about code become statements about texts.
- **`MC...`** modules give constants values; each `.cfg` is one run.
- **`...Proofs`** modules hold the theorems about the module they extend; those
  on the linear buffer are in `PrimitivesProofs`, those on the decoder, the file
  and the loader in `LoaderProofs`, those on the assembler and the machine in
  `PipelineProofs`. `HeapProofs` has the lemmas on heaps that `BytecodeProofs` and
  `CollectorProofs` share.

How state corresponds to the code:

| Module variable | Code |
|---|---|
| `frames` | the `Frame` chain from `currentFrame_`, its `registers_` and `isRegRef_` |
| `acc`, `isAccRef` | `Executor::acc_`, `isAccRef_` |
| `heap` | blocks of the objects allocator, by address; the domain is also `allocations_` (separate in `Collector`) |
| `allocated` | `TracedByteAllocator::allocated_` |
| `triggered` | whether `DO_NEXT_INS` has called `triggerGC()` for the instruction about to run |
| `roots`, `stack`, `cursor`, `phase` (`Collector`) | `roots_`, the C++ stack of `markObjects()`, the loop indices, the function being executed |
| `offset`, `live` (`LinearBuffer`, `FrameStack`) | `offset_`, and the blocks in use (history: the buffer only counts) |
| `frames`, `callee`, `start`, `mode` (`FrameStack`) | the `Frame` chain by the places of its blocks in `live`, the function whose `Frame` is being constructed, the mark an executor found, how far `run()`, a call or a return is |
| `pool`, `klasses`, `functions`, `rawInstrs` (`ChaiFile`) | the vectors of `ChaiFile` |
| `memory`, `live`, `offset`, `registers` (`Primitives`) | `primitivesBuffer_` in words (addresses count bytes), the arrays in it (history: nothing in the code lists them), its mark, the registers of the one frame |
| `funcs` | `CodeManager::funcs_` |
| `frames`, `native`, `mode` (`Machine`) | the `Frame` chain as functions and pcs, handlers on the native stack, how `run()` stands |
| `source`, `pos`, `asm`, `ids`, `header` (`Assembler`) | the input, the place of `currentLexem_`, the function being executed, `funcsIdByName_`, locals of `processFunction()` |
| `meantMain`, `meantBodies`, `meant`, `names` (`Assembler`) | history: the lexemes of each instruction, and the names of functions |
| `istream`, `left`, `stage` (`CodeManager`) | what is left of the file, the loop counter, the function being executed |
| `constantOf`, `bodyOf`, `fieldAt` | history: the numbers clients were given |

Three decisions shape the models. *Every program*: the executor picks any
instruction with any operands, so a property of the model is a property of all
programs; the program counter, whose only effect is to pick, is left to
`Machine`, where it is the subject.
*Failure is an outcome*: an assertion that fails, undefined behaviour and a
native stack overflow are modes in which nothing more happens; an exception
leaves `run()` and may be followed by another `run()`. *Data as far as it
matters*: integers are scalars that are not addresses, arithmetic yields some
scalar, sizes count 8-byte words, and 16-bit ids are ids below `ByteSize` squared.

`DisciplinedNext` in `Bytecode` lists what a program must not do because
nothing stops it: reuse a register that held a reference for a scalar, apply an
array instruction to an instance or the converse, dereference null, divide by
zero, ask for an array whose size in bytes a word cannot hold, execute an opcode
without a handler. Such a length is negative or at least about 2^61; its size
wraps, the handler may get a small block and write past it, and `NewRefArr` is
undefined there. It says nothing about freed memory: that the programs never
meet it is what is proved. (The loop of that handler counts in an `int`, so that
an array of more than 2^31 elements that did fit is outside the model.)

## What the checks show

| Run | Question | Bounds |
|---|---|---|
| `bytecode` | Do references dangle, or handlers leave the heap, across calls, exceptions and collections? Is the executor an `ObjectStore`, does a handler start with garbage over the threshold? | 2 addresses, a klass with a reference field, lengths and indices -1, 0, 1 and 15 where a word measures 16 words, frames of 2 and 1 registers, 2 frames deep, 7 words of heap, a misaligned offset, marking 2 deep |
| `collector` | Does `collect()`, loop by loop, free exactly the garbage, clear marks and keep trace and count right, also half-way through a sweep? | 3 addresses, 2 roots, two reference fields per object (diamonds, cycles, nested arrays), marking 2 deep |
| `interpreter` | Do the loops of `collect()`, over the frames and the trace of a running program, do what the executor's one-step collection says, faults included; does a collection that began end? | 3 addresses, 1 klass with a reference field, arrays of 0 and 1, 2 frames of 1 register with an argument, 9 words, marking 2 deep; no symmetry |
| `frame_stack` | Do frames nest and are they given back last in, first out, do they share memory, does an exit give all back, how much does a failure leak? | 3 functions of 3, 2 and 0 registers, a `Frame` of 2 words, 24 words |
| `files` | Up to which size is a file read back as built, do ids and offsets hold, and do constants stay right while strings are made? | byte of 3 values, ids below 9; 9 constants, 3 fields and a string of 9 characters, each one past its limit; one instruction with a constant, 2 strings made |
| `primitives` | Is an array of numbers an array, under raw addresses; where do words behave as signed integers; is room ever given back? | words of 16 values (-8 .. 7), of 2 bytes of 4; a buffer of 2 words at address 2, 1 register, the literal 1, 2 arrays |
| `pipeline` | Does what runs do what the text says, whatever the text; what can control flow do? | every text of at most 2 of 18 chunks of main and 2 of 8 functions or fragments of one, many malformed; byte of 16 values, 3 frames, a native stack of 3 handlers, where `Ldia` and `Acmp` alone do not jump |
| `stale_bit`, `array_in_field`, `strings_full`, `unsigned_compare`, `number_operand` | Statements of the documents that the code does not keep (below) | as `bytecode` with one frame, `files`, `primitives`, `pipeline` |

Why the bounds are enough: a dangling reference needs an object, something
that should have kept it and a second object to take its address, so two
addresses and two frames meet every way a root can be missed. The heap sizes
put the 60% threshold and exhaustion within reach of one allocation. Diamonds,
cycles and shared children need two fields and three objects. A native stack
with room for fewer activations than there are objects lets a chain without a
cycle exhaust it, in `collector` and in `interpreter`. A length of 15, where 16
words can be measured, is the positive length whose size wraps. Frames can fail
before the first and between the two allocations, at every fill level, and the
buffer has room for what several executors leave behind. The widths of `files`
are chosen for every boundary to be met from both sides; a second string made
over a full pool is the one that has no id. `Addr` is a set of symmetric model
values wherever only safety is checked.

Two words of two bytes are enough for an array that fills the buffer, two arrays
side by side, one that does not fit, a zero length, a negative length, an index
outside on either side, an address between two elements and between two arrays,
and every pair of signs in a division, the one that overflows included. The
texts of `pipeline` contain a call of a function that comes later, comes twice,
calls another, or does not exist, a body without `Ret`, a branch back and one
out of the function, a recursion that fills the frames buffer, loops that fill
the native stack, and a constant of each kind; each error of the assembler is
met in main and in a body, or at the place where only one of them can be.

`WithinLimits` in `CodeManager` is what `files` found to be the capacity
of a file: 65535 constants, although 65536 have an id (with exactly 65536 the
count written is 0), 65534 functions beside main, 255 fields in a klass and
65535 bytes in a string. None of these is tested for in the code. What a loader
that has lost step goes on to do is left open (`misread`).

Fairness: `WF` of `Collect` in `Collector` and of `Collecting` in `Interpreter`,
and of the next-state relation of `Pipeline`. A collection is a call on the only
thread, so a step of it that can be made is made; nothing obliges a program to
start one. Likewise the thread of a process keeps executing `assemble()`,
`load()` and `run()`. The only thing these ever wait for is standard input, in
the two scanning instructions (executor.cpp:248, 255), so that `LoopFreeEnds` is
about programs without them, or whose input comes. It needs no other fairness:
which way a branch goes is left open.

What a mutant is: each property has a plausible bug of the code, a definition
marked *Mutation* beside the one it replaces, under which the same run finds
the property violated. These definitions are no part of the models.

`CHECK_DEADLOCK FALSE` is set where the system really stops: the process has
ended, or the program has filled its bound.

## What is proved

All theorems are for every value of the constants, from the named assumptions
beside them.

- **`BytecodeProofs`**. `MemorySafety`, `RootsAreLive` and `TypeSafety`: a
  disciplined program over any functions, klasses, heap and operands never
  makes a handler or a collection touch anything but allocated objects. The
  properties are not inductive. `IInv` states root safety frame by frame
  (`FramesSafe`) and for the accumulator (`AccSafe`), so that a handler, which
  changes one frame, leaves the others alone; it adds that members of objects
  do not dangle (`MembersSafe`, what makes loads safe and what a sweep needs),
  that a block has the members its klass declares (`WellFormed`, what makes an
  offset checked against the klass an offset in the block) and that a running
  program has a frame (`FramesThere`). One lemma per effect a handler may have
  (`LoadKeeps`, `FrameKeeps`, `MemberKeeps`, `AllocateKeeps`, `FramePushed`,
  `EndKeeps`), then one per group of handlers; the collection rests on
  `ReachContains` and `ReachClosed`, which say of the marked set all that
  sweeping needs.
- **`StoreProofs`**. `ExecutorIsStore`: every step of a disciplined program is a
  step of `ObjectStore`, by a lemma for each way memory changes (`CopyStep`,
  `CreateStep`, `StoreStep`, `DiscardStep`) and one per group of handlers that
  says which of them it is, from `IInv`; `RootsReplaced`, `RootsPushed` and
  `RootsPopped` say how roots follow frames. `GarbageIsCollected`: no handler
  starts over the threshold with garbage; the step that could break it is the
  sweep, and `ReachSurvives` says that what is reachable stays reachable when
  the rest is gone.
- **`FrameStackProofs`**. `FramesStacked`, `FramesNoLeak`,
  `FramesLeakIsOneFrame`, `FramesRetUndoesCall`: frames nest and a failure leaks
  what it leaks, for any functions and buffer. The properties count words, which
  is not inductive: `FrameInv` says where each frame's blocks stand in `live`
  (`InPlace`), and for each mode what lies above them, nothing, a `Frame` still
  without registers, or one whose registers are gone. `FramesLifo`: what is given
  back is always the whole of the last block, which is what `LinearBuffer` asks of
  its clients (`LifoDisjoint`).
- **`CollectorProofs`**. `SweepsExactly`, `MarksCleared`, `TraceIsTrue`,
  `DiesAsExpected`, `TypeCorrect`, and `CollectorIsStore`, the refinement of
  `ObjectStore` loop by loop: for any klasses, number of slots, capacity and
  depth of the native stack. What the collector promises holds between its loops
  only, so `IInv` says how far each loop has come. Collecting roots: every slot
  behind the cursor that is not null is in `roots` (`Rooting`). Marking: what is
  marked is reachable, and a reference in a marked object leads to a marked
  object or is still in the `todo` of an activation of that object
  (`MarkedOrPending`); the activations are a path in the heap (`StackIsPath`),
  so that one without a cycle is no longer than what is reachable
  (`DiesOnlyOnBadShapes`). When the stack and the roots are used up nothing is
  pending, the marked set is closed, and it is `Reach`. Sweeping: the marked
  blocks ahead of the cursor and the blocks behind it that are left (`Kept`) are
  together what can be reached, however many deallocations have been made. The
  trace names each block once, flags what is freed behind the cursor until
  `erase()` gets there (`FreesBehind`), and the count is the sum over the blocks
  (`SizesAddUp`).
- **`HeapProofs`**. Lemmas for both of these, among them what one more or one
  less block does to a sum over a heap.
- **`LoaderProofs`**. `ParseUndoesRaw`: the decoder undoes the encoder in all
  formats, for every width, by uniqueness of quotient and remainder.
  `InstructionsLoadTheirConstants`, `OffsetsFindTheirFields` and
  `IdsCallTheirFunctions`: within the capacity of a file, whatever instructions,
  fields and functions a client of the builder was told about are what the
  loaded program has. `LoaderKeepsItsPlace`: the loader never takes an item of one
  kind for another. The invariant `CodeInv` has two parts. `ToldRight`: what the
  clients of the builder were told holds of the file being built; it grows at the
  ends only. `LoaderInv`: there are offsets at which the klasses of the written
  file begin (`Layout`), the loader is as many items behind the beginning of its
  section as it has loaded, and what it has loaded are the first items of the
  section (`InPlace`); that the counts it reads are those written, and not those
  modulo their width, is where the limits come in. The file is a flattened
  sequence of sequences: `FlattenOffsets` locates every item of one, `FileLayout`
  those of a file. `ConcatLeavesItsResult`: `StringConcat` leaves a new string,
  the concatenation, in the accumulator, for any file, any strings and programs
  of any length, at every step where there is an id left for it. Without that
  hypothesis it is what `strings_full` refutes.
- **`PipelineProofs`**. For the machine, `CodeIsNeverLeft`, `ReturnsFollowCalls`
  and `MachineTyped`, for any code and any choice of which handlers jump. The
  invariant `MachineInv` adds that every frame's pc is in the code of its
  function (`PcInCode`): a return goes on one past a pc of the caller, which is
  in the code because a call is not its last instruction. For the assembler,
  `NamesAreCalled` (a call written with a name reaches the function written
  under it, whichever comes first in the text) and `TextIsLoaded` (each word of
  the code that is run has the operation of the text at that place, its
  registers and branch offset where they fit their fields, and for a handler
  that reads the pool its constant), for every text, mnemonic table and
  signature. What a number after an instruction that does not read the pool
  becomes is the subject of `number_operand`. `PipelineInv` joins `AsmInv` to
  `LoaderInv`: every word built so far means the lexemes it was made from, which
  a larger pool does not change (`AsmBuilt`, `MeansInstr`); the names of the
  functions built so far are those the text declares up to the current lexeme,
  in their order (`NamesKnown`); an id in the table is the ordinal of the first
  declaration of its name, or 0 for a name that was looked up in vain
  (`IdsKnown`). At the end both sequences are complete, and `LoaderInv` takes
  them through the file. Assembling and loading are stutters of `Machine` until
  it is given its code (`PipelineIsMachine`), so that what is proved of the
  machine is proved of texts. `OnlyThePcLeavesCode`: a program the assembler has
  accepted dispatches known operations and calls functions that are there, so
  that all that can take it to undefined behaviour of control is a pc outside
  its function. `PipelineTyped`.
- **`PrimitivesProofs`**. `LifoDisjoint`: the buffer's live blocks do not overlap,
  by the stronger invariant that they are back to back up to the mark;
  `FloorFits` is the division in the room test. `PrimTyped`, `PrimImplements`,
  `PrimReached`, `PrimExhaustion`: arrays of numbers are a store of arrays for
  any width, bytes per word, buffer and program of raw accesses, from `PrimInv`,
  which is the invariant of the buffer and the types of words. `StoreIsStored`
  says what a store between two words does to both, `CellsAreOwn` that no word
  is in two arrays. `PrimDivides` and `PrimArraySizes`: division and array sizes,
  for any width, from uniqueness of quotient and remainder (`NatDivision`,
  `AddWords`).

Assumptions on constants are named in the modules that declare them, and say
what is true of the program: a byte has at least two values, texts and strings
are sequences, a lexeme called an integer carries a number, opcodes of the table
are bytes and `Call` has the format with an immediate, every mnemonic has a
handler (`PipelineAssumption`), the bytes of a word are as many as it has
(`BytesAssumption`). That constants, fields and functions fit their counts is
no assumption: it is the antecedent `WithinLimits` of the properties, and
`files` shows what happens on both sides of it.

Induction. The library's induction theorems take an operator as a parameter,
which the provers cannot instantiate, but the existence of a least element takes
a set. The facts that need induction (sums over a heap, places in a flattened
sequence, ordinals of declarations) are proved by looking at the least
counterexample. What a recursive function computes for every input still cannot
be stated that way once and for all.

Only model-checked: `CollectionEnds`, `AssemblyEnds` and `LoopFreeEnds`, since
liveness under fairness and ENABLED are outside the proof system, and
`ImplementsExecutor`, for the reason in the plan. Every other property of a run
is stated by a theorem. The type invariant of `Executor` says nothing of
`allocated`: what is over the threshold does not depend on its being right.

## Where the code departs from its documents

With a run that shows it:

- `Star` and `Mov` leave a register's reference bit set: an integer can become
  a flagged reference (`stale_bit`).
- A field that holds an array, which ISA.md:67 allows, makes a later collection
  abort (`array_in_field`).
- ISA.md:60 promises a new string from `StringConcat`; once there are 65536
  constants it leaves an old constant in the accumulator (`strings_full`).
- ISA.md:37-42 describe comparisons of i64; the handlers of `If_icmpgt` and its
  three relatives compare unsigned words, while division and remainder are signed
  (`unsigned_compare`).
- The operand of every I-format instruction is made a constant and its id
  encoded, also for `Goto`, `If_null`, `AllocRef` and `GetField`, which take the
  number itself by ISA.md:3 (`number_operand`).

Met while modelling, and part of the models as the code has it:

- `SetField` aborts when the register's bit disagrees with the field's
  declaration, although ISA.md:68 says there are no checks; storing null from a
  fresh register into an object field aborts too. `GetField` on an array loads
  an unflagged reference.
- An integer literal is accepted for `Ldiaf`, and its bits are then read
  as a double.
- A call of a name that no function has is a call of main.
- Registers past 255 are narrowed to a byte without a word: `r300` is `r44`.
- A body that is not closed, or that contains anything but identifiers where an
  instruction begins, is no error but a null dereference.
- `If_acmpeq` and `If_acmpne` never advance the pc: they execute for ever.
- The maximum of iterations that the test `noStackOverflow`
  (assembler-test.cpp:114) wonders about is set by the native stack and by what
  the handlers that are not compiled to jumps keep on it.
- The mnemonic of opcode 41 (instructions.yml:216) begins with a Cyrillic
  letter, so that no text in Latin letters names it.
- The example in README.md:14 writes `fn main`: main is the text outside
  functions, so the machine runs an empty function 0. README.md:65 gives
  `attLen` two bytes and the code four.
- `deallocate()` of the linear allocator ignores its pointer, so that only
  last-in-first-out clients are safe (all clients in the code are); moving a
  `LinearBuffer` exchanges the memory and leaves the mark, but nothing moves one.

## Not modelled

The regular expressions of the lexer (the stream of lexemes is), the rows of the
operation table (one representative per kind of handler is), the A5 allocator (a
submodule that is not in the tree: it is any allocator that returns a free block
or none), the values of floating point instructions, printing and scanning,
moving a `LinearBuffer`, and `main()`, which prints a greeting. A second `load()`
into one code manager, and the values a loader reads once it has lost step with
the file.

## Plan

1. `ImplementsExecutor` as a theorem. The proofs of `CollectorProofs` say what
   each loop does for a fixed number of slots under the program of `Collector`;
   `Interpreter` takes the slots from frames that come and go, so their step
   lemmas have to be stated for any sequence of references first, and joined to
   the invariant of `BytecodeProofs`.
2. A second `load()` into the same code manager, with what it does to ids.
3. String instructions as steps of the executor, so that a discipline for
   string handles can be stated and checked as that of references is.
