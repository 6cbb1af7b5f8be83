# Hexir in TLA+

Specifications of [Hexir](../src/README.md), a tensor compiler over MLIR and the
C runtime that executes what it compiles, with TLC configurations that
model-check them on small instances and TLAPS proofs of the properties that hold
for every instance. Paths below are relative to `src/`.

    cd tla
    tlc -workers 2 -config Interpreter.cfg MCInterpreter.tla     # one run
    tlapm InterpreterProofs.tla                                  # one set of proofs

Module `M` has its instance in `MCM.tla` and the constants' values in `M.cfg`; the four
runs named after a claim reuse `MCInterpreter` (`AllocZeroed`), `MCSerializer`
(`DumpEntries`), `MCGpuKernel` (`WideElementwise`) and `MCBench` (`PartialKernels`).

`PROJECT.json` maps every definition to the lines it is translated from, lists the
runs, and names for every property a plausible bug of the code (an operator of the
module marked `Mutant`) that makes it fail.

## The system

Hexir takes a graph of `hexir.constant`, `linear`, `relu`, `add` and `print`
operations. Every operation is placed on a device, `cpu` or `cuda`. From there two
paths lead on:

- `hexir -emit=hxb` lowers each compute op to a *prim func* of a kernel-level IR
  (HexTIR), compiles the ones on cuda to device code, and serializes a module file
  (`.hxb`): symbols, a list of commands, constants, and executables. The runtime
  maps the file and replays the commands.
- every other `-emit` takes the graph through linalg, bufferization, gpu and
  LLVM dialects, and prints what the stage asked for looks like.

| Component | State | Operations | Hard behaviour | What makes it correct |
|---|---|---|---|---|
| Interpreter, `runtime/src/vm/interpreter.c` | `pc`, slot table, result slot | ALLOC, CONST, DISPATCH, PRINT, END | kernels run asynchronously on the GPU; any allocation or driver call fails with slots half bound; slots are rebound | every buffer has one owner and is released once; nothing is read under a running kernel; the answer is the sequential one |
| HAL, `runtime/src/hal/` | `cu.lib`, context, buffers | create, release, allocate, read, write, launch, wait | six steps of device creation, each may fail; the library is loaded once per process | what a failed step had taken is given back; buffers never outlive their device |
| Module file, `runtime/src/module/module.c` | a mapping, a section table | load, section lookup, release | files cut short or altered; files rewritten while mapped | what is accepted lies inside the mapping; what is refused is unmapped |
| Serializer, `compiler/Serialization/ModuleSerializer.cpp` | slots, command list, RODATA, image offsets | one step per operation, section layout | offsets are written before what they point at; slots are given while the walk goes on | commands are well formed, read what was bound earlier, and mean what the functions mean |
| Kernel lowering, `compiler/Conversion/HexirToTIR`, `HexTIRToGPU` | loop nest, axis bindings | bind rows, split columns into tiles | thousands of threads in any order; no bounds guard | the whole destination is written, each element once, with the reference sum |
| Compiler driver, `tools/hexir/hexir.cpp`, `Target/TargetInfo.cpp`, `Partition.cpp`, `Pipelines.cpp` | registry of preferences, pass list, the module | `-emit`, `-target`, `-placement`, load, one pass after another, dump | entries override each other, a bad one may follow good ones; passes fail half way | each op is where the command line puts it; the exit status tells what happened |
| Kernel path, `HexirToTIR`, `hexir.cpp` | prim funcs, the output file | lower one op, open, serialize | the file is truncated before it is known whether the module can be written; names are generated | calls and prim funcs line up; status 0 and a written module go together |
| Linalg path, `compiler/Pipelines`, `Conversion/*`, `Support/Bufferizable*` | the ops being rewritten | ten kinds of pass | rewrites drop attributes; a matmul accumulates into its destination; the order of the passes | values and placement survive every pass; the output is of the stage asked for |
| hexir-run, `runtime/tools/hexir-run` | a module, a device, a buffer | load and execute, or `--selftest` | an early return at every call | everything is released in order; exit codes as documented |
| hxb-dump, `tools/hxb-dump.py` | none | read sections, walk the program | a second reader of the same file | it reads what the runtime loads, and shows what runs |
| hexir-bench, `bench/hexir-bench.c` | options, a module, two devices in turn, a cuBLAS handle | arguments, verify, time, baseline | as above, and a verdict from a sample | no verdict or time for something else than what ran |
| Dialects and verifiers, `Dialect/*/IR` | the IR | parse, verify | what they do not look at (shapes, devices, ranks) reaches the passes | as conditions on the inputs only |
| Program builder, `Support/Builder.cpp` | the default input | `createMLPLinearFunction` | | the one program hexir builds itself |
| Affine lowering, toolkit lookup, scripts | | | | not modelled, see below |

The components meet at two formats: the kernel-level IR (`KernelModule.tla`),
between lowering and serialization, and the module file (`Format.tla` for what is
in it, `ModuleFile.tla` for where it is), between compiler and runtime. Inside the
runtime everything is calls of one thread, except that `cuLaunchKernel` returns
before the kernel has run.

## Modules

Data is abstracted to what the properties tell apart: a buffer holds one value and
a kernel is an uninterpreted table (except in `GpuKernel`, where a buffer is its
elements), names are strings that are only compared, sizes count elements (bytes in
`ModuleFile`), offsets into the program count commands.

**`Format`, `Program`, `CommandList`.** `Format` has the records of a module file;
a command that runs past its section is the member `Truncated`. `Program` says how a
command names its operands. `CommandList` is the abstract machine of
`docs/runtime.md`: slots that hold values, one command after the other, no device,
no buffers, and an error at any moment.

**`Interpreter`.** `hexir_execute_capture`, one action per command handler and per
driver call that may fail on its own: `cuda_launch` is `GetFunction`, `Launch`,
`Synchronize`, with the kernel itself (`GpuStep`) between the last two.
Bounds of the code (`HEXIR_MAX_SLOTS`, the four entries of `buffers[]`) are
constants. `heap` is the allocator: an address is free or holds a size and a value,
CPU memory comes zeroed (`calloc`), CUDA memory with any value. A kernel works on
the extents of its descriptor, not on its buffers' sizes; when they do not fit, the
C code's behaviour is undefined and the model goes to `host = "undefined"`, where
nothing more is promised. PRINT multiplies its extents in a `size_t`: `SizeLimit` is
where the product wraps (and where `byteSize` wraps it when the module is written), and
`PrintOverruns` what the loops do after a check the wrapped product has passed. At the bottom of the module it is shown to implement
`CommandList`, with `INSTANCE CommandList WITH mem <- what the bound buffers hold`.

**`KernelModule`, `HostProgram`, `Serializer`.** The serializer's walk, one action
per operation visited, against `HostProgram`, a declarative statement of the module
the same input must give: the slot of a value is the number of values stored before
it, and so on. Every rejection of the C++ code ends the walk. `WrittenModule` composes the
three: what is written against what is stated, what is refused, and what is shown of it.

**`GpuKernel`.** The bindings `HexirToTIR` chooses (rows to `blockIdx.y`, columns
split into `blockIdx.x` and `threadIdx.x` by the largest power of two up to 256 that divides them;
element-wise ops to `blockIdx.x`, `threadIdx.x`), the launch geometry `HexTIRToGPU`
derives from them and the driver accepts or not, and every thread as a process. A
value is the sequence of terms summed, so that order counts.

**`ModuleFile`.** Section layout, alignment and image offsets as bytes; the file on
disk, which may hold any prefix of a module, be of another version, or list in its section
table what the constant `Altered` says instead of what was written: any number of entries of
any kind, offset and size; mapping, validation section by section, lookup, release; a
compiler run over the same path.

**`GraphModule`, `Driver`, `KernelPath`, `LinalgPath`, `Hexir`.** The compiler as one
program. `Driver` is `main`: the `-target` and `-placement` entries applied one by one to
the registry, the input (a file, which may not open or not verify, or the program
`Builder.cpp` builds), the pass list `buildHexirPipeline` makes of the stage and of
`-opt`, and a pass manager that stops at the first failure. `KernelPath` adds what
`-emit=mlir-tir` and `hxb` do: `LowerToTIR`, one op per step, and the output file.
`LinalgPath` adds the passes of the other stages, each a rewriting of the ops with the
device attribute it copies or drops; MLIR's own (bufferization, linalg to loops,
outlining, conversion to LLVM) are modelled from what the pipeline relies on and marked
external. `Hexir` is the next-state relation of the three and the properties, and
`GraphModule` states op by op what the result must be.

**`HxbDump`.** Which files `hxb-dump.py` reads and which commands it shows, composed
with `Serializer` (in `WrittenModule`: what is shown of what was written) and with
`ModuleFile` (`ReadersAgree`: what is read of what is on disk). Where a table lists a kind
twice, the runtime takes the first entry and the tool the last.

**`CompileAndRun`** composes `GraphModule`, `HostProgram` and `Interpreter`: the
modules the interpreter is given are those the compiler makes of graphs, whatever their
shapes. `Fits` says of a graph that its shapes are as its ops mean them, that every value has
elements, and that no size or extent is beyond its integer; no verifier asks for it. (That
`Hexir` produces what `GraphModule` states and `Serializer` what `HostProgram`
states are the properties `LowersAsStated` and `WritesHostProgram`.)

**`Device`, `CommandLine`, `HexirRun`, `Bench`.** `Device` is the life of a device on
either backend; `CommandLine` says what the last option of a kind is. `HexirRun` and
`Bench` compose them with the two programs' `main`, which reads its arguments one by one and then makes one call per action whose
failure it handles, or does not: `Bench` never looks at what cuBLAS and its copies
return. Executing a module, which `Interpreter` models, is one step with any result here.
The benchmark takes the first two blocks of RODATA for the operands of the first executable and
compares their product with what the last dispatch left. `Comparable` says when that is the same
thing; when it is not, `Verify` gives either verdict, as the code may.

## Runs

| Run | States | What it shows |
|---|---|---|
| `Interpreter.cfg` | 327 k | ownership, release, waiting, capture, refinement of `CommandList`, return |
| `Serializer.cfg` | 103 k | the command list is well formed, bound before use, is `HostProgram`'s, nothing unserializable passes, and the dump shows what runs |
| `GpuKernel.cfg` | 67 k | coverage, or refusal over a limit only; containment, race freedom and the right sum in any interleaving |
| `Hexir.cfg` | 207 k | meaning kept by every pass and every step of the lowering, placement as asked, exit status true of command line, input and file, purity of the output, termination |
| `CompileAndRun.cfg` | 32 k | modules compiled from graphs that fit give the graph's answers, are never refused as invalid, and run where they are placed; only kernels of others leave their buffers |
| `ModuleFile.cfg` | 1.4 M | table and images true and disjoint, files that do not hold what they list refused, mappings released, both readers accept the same files |
| `HexirRun.cfg` | 9.6 k | nothing leaks, order of release, what runs is what was asked, exit codes |
| `Bench.cfg` | 2.0 M | the same for the benchmark, one device at a time, the driver loaded once, only whole runs timed, the verdict where it is about the kernel |
| `AllocZeroed.cfg` | | fails: see *Disagreements* |
| `DumpEntries.cfg` | | fails |
| `WideElementwise.cfg` | | fails |
| `PartialKernels.cfg` | | fails |

### Bounds

- `Interpreter`: every list of up to four commands (`MaxLength`) over an alphabet of
  six that binds, rebinds, dispatches in place and across and prints two slots, ended
  by END, and every list of up to two without it; and lists of four or five commands
  around each of 38 odd ones (too few operands, slots, executables or sizes out of
  range, arguments missing or in excess, extents that do not fit), in modules with
  sections missing, truncated or with several symbols. Three slots, three addresses,
  so that a rebinding meets full memory; three values, so that a wrong operand shows;
  result buffers that are too small, right and too large (`OutSizes`). A leak or a
  double release takes two bindings of a slot and an error, which is three commands.
  `SizeLimit = 16` stands for 2^61 elements: extents of four by four wrap to none, and so does
  an offset of 15 with a size of one.
- `Serializer`: two functions of up to four and two operations (`MaxBody`): slots, RODATA
  and symbols of the second start where the first's end. Odd operations (operands that
  are no values, irregular constants and returns, unsupported ops, prim funcs of unknown
  kind) in functions of two.
- `GpuKernel`: up to three rows of which a grid has two (`MaxGridY`, 65535 in a driver), six
  columns and two terms. A tile is the largest power of two up to 256 that divides the columns,
  so that a row is one tile (1, 2 or 4 columns), several (6) or tiles of one column (3, 5).
  Empty matrices, which the driver refuses, are among them; `MaxWork` bounds the
  interleavings of all threads.
- `Hexir`: for the kernel path, graphs of two functions of up to three and two ops
  (`MaxBody`) under two command lines; for the other stages, two constants and up to three
  ops (`MaxLinalg`), some of which do not fit their operands, and pairs of such functions;
  at every stage, with and without `-opt`, bodies of up to three odd ops (no kernel, no
  pattern, unranked results, `gpu` as a device, values that are not there) and functions
  of either kind named like a prim func. Every line of up to two `-target` or three `-placement`
  entries, with names that are unknown, aliases or empty among them, is tried on three
  graphs. Two entries are enough for one to override another and three for a bad one in between.
- `CompileAndRun`: two constants and up to two operations on both devices, an `add` placed on
  the alias `gpu` among them, and two functions of one; and graphs that do not fit: operands smaller
  than the kernel run over them, an element count that reaches `SizeLimit = 8`, an extent that reaches
  `ExtentLimit = 3`. Four addresses are fewer than the five slots some need, so memory runs out. `Buffers` is a
  symmetry set: addresses are only compared, and the run has no liveness property.
- `ModuleFile`: zero to two images of zero, less than, exactly, and more than an aligned
  size; `Uint32 = 240` stands for the 32 bit range, small enough to be outgrown. A file is never
  longer than what was written. Its table is the one written or one of six others: empty, longer than
  four entries, listing a kind twice, with entries that end past the file, and with ends that wrap
  at `Uint64 = 1000` (2^64) to where a file is.
- `HexirRun`: every command line of up to three arguments over nine.
- `Bench`: every line of up to three of ten arguments, two modules among them, and every
  choice of all options; `DefaultIterations = 2` in place of 20. Modules of 1x1, 2x3, 128x128
  and 512x512 (one element, fewer elements than samples, more samples than rows, rows as long
  as the sampling stride), one kernel or two of which main dispatches none, one, the other or both,
  RODATA with the operands, with something else in front, or too short; one or two iterations.

Deadlock is not looked for where the modelled call or process ends, which is all
of them; termination is a property where something could keep it from ending.

### Fairness

- `Interpreter`: weak fairness of the host thread, which is only ever waiting in
  `cuCtxSynchronize`, and of the kernel, whose loops have constant bounds. `Returns` says
  that the call ends, unless a kernel overran its buffers.
- `Hexir`: weak fairness of its one thread. `Terminates` says that it ends, whatever the
  command line and the input.

Nothing else is assumed fair, and the other properties are safety properties: the other
programs are sequential and have no loop that could go on.

## Proofs

Each theorem holds for every value of the constants under the `ASSUME`s in the
modules, which state the types of the inputs and of the limits; the runs evaluate them.

**`InterpreterProofs`** (any module, any number of slots and addresses, both devices).
None of the properties is inductive alone. `IInv`, which the run checks too, joins `SlotsOwnTheHeap` (slots and live
addresses are in bijection), `HandlersOwnTheDriver` (a loaded CUDA module, a staging
buffer or a running kernel exists only inside the handler that made it, and that
handler's preconditions still hold), `ResultStaysBound` and `PlacementHonoured`. A buffer
of a running kernel stays allocated because the host cannot leave `cuda_launch` before
it, and the slots checked before are still bound because no handler ran in between.
From it: `NothingLeaks`, `KernelIsAwaited`, and, as an action property,
`FirstErrorIsFinal`. What is captured (`CapturesLastDispatch`) is what the last dispatch computed,
unless later commands bound its slot again; then it is what the last of these put there. It takes
two conjuncts more: only END fills the result (`CaptureComesLast`), and the recorded slot holds
what its last writer left (`LastResultKept`). With `IInv` each step is shown to be a step of `CommandList` or a stutter, so that
`Spec => ImplementsCommandList`: no buffer, staging copy or driver call shows in what the
slots hold.

The same module has the proofs for `CompileAndRun`, where the modules are compiled ones (any graph,
command line and device). The invariant is `CInv`: `IInv` and `Faithful`, by which the host is
either between two ops of the graph (`Between`) or inside the handler of one (`Within`), the slots
hold the values of the ops before it (`Replayed`), what was printed is what those print, and
the latest result is that of the last compute op before it. `MayRefuse` says of each status what the
graph or the call must be like for it. What ties a slot, an offset or an index to the op it was
made of is layout, proved of `HostProgram` alone: the commands of an op lie together and in order
(`CommandPlaces`), two values never share a slot (`SlotsApart`) nor two constants their place in RODATA
(`RodataApart`), and a dispatch names the executable made of its own op (`ExecutableOf`). Each handler
is then shown to go from one op to the next or to fail with a status that `MayRefuse`
(`AllocFollows`, `SynchronizeFollows`, ...). From it: `AnswersAreTheGraphs`,
`CompiledModulesAreValid`, `PlacementDecides`. Nothing is assumed of the shapes: `CInv` has
`Fits`, and the three are stated of graphs that fit, with one exception: `CompiledModulesAreValid`
says of every graph that the host is only ever `undefined` where it does not. Each part of `Fits` is needed:

- the shapes are those the ops mean, which the dialect does not verify: a kernel runs over the extents it was
  written with;
- every value has elements: an empty constant shares its offset with its neighbour, and
  `cpu_buffer_allocate` may give an empty tensor no memory;
- element counts stay below `SizeLimit` and extents below `ExtentLimit`, or `byteSize` and the descriptor
  wrap, PRINT's check with them, and the loops overrun.

Of the limits `MaxArgs >= 3` is assumed: a kernel has up to three buffers, and `vm_dispatch` has room for four.

Two cases the proofs turned up are in the statements: a `device` that is neither `cuda` nor `cpu`,
which the input may hold, is run as on the cpu (`RunsOn`), and of two functions with the same short
name the first is the one executed (`EntryAt`).

**`SerializerProofs`** (any input). The program only grows, so `AddCommands` splits each
fact into what old commands keep and what new ones need. The strengthening is `SlotTable`:
every slot handed out is below the counter, and a value of the current function has its
binding after the last END. The run checks it as `Inv`, with the types and
`CommandsWellFormed`. From it: `SlotsBoundOnce`, `BoundBeforeUse`.
For `WritesHostProgram` the invariant is `WrittenInv`: at every step the sections are
`HostProgram`'s for the operations visited so far (`Follows`). `HostProgram` numbers a value by the
values before it and places a constant or a function by the sum of the sizes before it, so that
one operation visited is one element more of a finite set (`SeenNext`), whose slot and place are
what the counters hold (`NextOnes`). A sum over a set is chosen element by element, in no
particular order; `ListLemmas` shows it to be the number of elements of a set
with as many of them as each weight (`SummingTotal`), which grows by the weight of what is added.
What has been passed is `Acceptable`, and an operation is only refused when it is not
(`Refused`), which is `RejectsTheUnserializable`. `DumpShowsWhatRuns` then follows at the end: the
first END is that of the first function (`OneEnd`, `FirstIsFirst`), and no other starts before it.

**`GpuKernelProofs`** (any extents and limits). The arithmetic is in lemmas: the chosen
block size divides the columns, so (block, thread) -> column is a bijection, and a
launch is within the limits unless a matmul has too many rows, another op too many
columns, or one of them is zero (`Limits`). `NoRaces` and
`StaysInside` follow from it; `WrittenIsReference` needs `Sums`, what each
accumulator holds after each step, and `Covers` that a thread whose counter is past
its last step has stored (`AllDone`).

**`ModuleFileProofs`** (payloads of any size, any number of images, any set of altered tables).
`LaidOut` and `WrittenAsLaidOut` say that the offsets computed ahead are where the writer arrives;
`Checked`, that each entry validated lies inside the mapping, whatever the table is. From these:
`TableIsTrue`, `PayloadsDisjoint`, `ImagesAreFound`, `RejectsTheBroken`, `MappingReleased`; and
`ReadersAgree`, that the runtime and `hxb-dump.py` accept the same files of this version. A module
ends where its last payload does, so that one cut short lacks some of it and is refused (`WholeModule`).

**`HexirRunProofs`, `BenchProofs`** (any command line). Both programs read their arguments
in a loop, so the invariant relates the variables to the arguments read so far:
`ReadSoFar` with `LastGiven` of `CommandLine`, and one lemma of `ListLemmas` (`OneMoreGiven`)
for one more argument. `Held` says at which point which resource is held, and `Progress` what has been
verified, measured or reported: without them `NothingLeaks` and `ExitCodes` only speak
of the end. From it: `NothingLeaks`, `ExitCodes`, `RunsWhatWasAsked`; for the benchmark
`NothingLeaks`, `TimesWholeRuns` and `VerdictIsRight`, whose arithmetic is that a stride no longer
than a row cannot step over the last one. `VerdictIsRight` is about the modules that are `Comparable`,
and says nothing of the others.

**`HexirProofs`** (any command line and graph). The inductive invariant is `Inv`, which the
run checks. It has three parts:

- `DriverInv`, what main knows. It relates the registry and the architecture to the entries
  applied so far (`LineAt`), so that at the end of the lists they are what the declarative
  `Placement` and `Chip` say of the whole line (`WholeLine`). The passes of both paths are one
  case, `Passing`: they change the module and nothing main knows. From it: `ExitTellsTheFile`,
  `UsageOnly` and `Resolved`.
- The scalars' types.
- The module of ops (`ModuleInv` in the proofs): `PassesFollow`, how much of the pass list has
  run; `OpsFollow`, that each op is what those passes make of the op of the graph it was
  read from (`AsRead`, then `AsLowered`), that none is lost, and in which order they are;
  `DevicesFollow`, which device each has by then; `KernelsFollow`, that the calls are the compute
  ops before what is still to be lowered, each with the prim func stated for it, and that no
  prim func is without a call. No property below could be inductive without these: a pass only sees
  the ops, and what they have to do with the graph is what the earlier passes have left.

`ModuleStep` has one lemma per pass. Loading, rewriting and the walk of the serializer all lay
sequences end to end with `FlattenSeq`; `ListLemmas` proves where each element of the parts is
in the whole, and that flattening sequences of at most one element filters them.

All else follows from `Inv` state by state:

- `PlacementTravels`: `DevicesFollow` at the end of the passes.
- `MeaningPreserved`: induction over the ops. An op reads the last result under its operand's
  name, which is that of the op the operand names in the graph (`ReadsTheOp`), because results
  tell which op they belong to and a destination comes right before the op that works into it;
  for the same reason what a matmul adds to is still zero (`WorksIntoZero`).
- `LowersAsStated`: the ops of a function, filtered from those of the module, climb through all of
  its positions, and numbers that climb through all of `1 .. n` climb by one (`OpsInAre`). So
  every op is found in its place; `EndPrims` has the prim funcs.
- `ExitCodes`: one lemma per pass that may fail, on what the graph must be like for that, among
  them `CastsGoWrong`, that the unchecked cast of an operand is only ever wrong on the
  result of an op without a kernel. The strengthening is `Status`. It needs that `linear_0` is
  not `main` (`MangledAssumption`).

Induction over data is done where it was needed with the set of numbers for which a fact holds
(`NatInd`), and recursive functions by choosing one that satisfies their equation
(`FlatteningExists`, `MeaningExists`, `ExecutedExists`); the library's theorems for both take an
operator, which the provers cannot instantiate. `SelectSeq` is built into the
prover and opaque, which is why the model filters with `FlattenSeq`.

Only model-checked:

- `Returns` and `Terminates`: liveness is out of the prover's reach.

Every other property of a passing run is a theorem. What each of them takes from outside its module
is named there: `CompileAndRun` starts from the modules `GraphModule` and `HostProgram` state, which
`LowersAsStated` and `WritesHostProgram` prove are the ones the compiler writes.

## Disagreements

Four runs fail on purpose: each states what the repository says of itself, and TLC
finds what the code does instead.

- `AllocatesZeroed`. `program.h:31` and `docs/runtime.md:58` call what ALLOC binds a
  zeroed buffer. The CUDA backend never clears it.
- `WideMatricesLaunch`. `program.h:78-80` and `HexirToTIR.cpp:77-79` explain that a block is
  limited to 1024 threads and that a wider matrix has to spread across blocks. `linear` does;
  `relu` and `add` bind all their columns to `threadIdx.x` (`HexirToTIR.cpp:200`), so that
  1025 columns are refused at launch.
- `PartialKernelsAreCaught`. `hexir-bench.c:127-132` says that a sample of the elements, spread
  over the columns, catches a kernel that computes part of the output. For 512x512, a
  size of the default sweep, the stride is the row length: only column 0 is looked at.
- `DumpMarksEveryEntryPoint`. `hxb-dump.py:82` says that entry points are marked where they start.
  The walk stops at the first END (`hxb-dump.py:105`), so that only the first function of a module is shown.

Met while modelling, and seen in the models' definitions, without a run of their own:

- `docs/runtime.md:44` and `module.h:38`: weights are used in place and never copied. CONST copies
  them into a new buffer at every execution (`interpreter.c:313`; `Const` in `Interpreter`).
- `ModuleSerializer.cpp:65-66`: truncated names are harmless. Entries are looked up by name, so
  a function with a name of 32 characters or more cannot be executed under it
  (`ShortName` in `KernelModule`, `SymbolIndices` in `Program`).
- `TargetInfo.cpp:15`: `gpu` is an alias of `cuda` everywhere. A `device = "gpu"` attribute in
  the input is kept, and serialized as cpu (`Placement` in `GraphModule`,
  `Executable` in `HostProgram`, `RunsOn` in `CompileAndRun`).
- `module.h:61-62`: pointers stay valid until release. Compiling over a mapped file truncates
  it in place (`Recompile` in `ModuleFile`).
- `interpreter.c:165`: the size PRINT checks is a product that may wrap; the loops then read past
  the buffer (`PrintOverruns` in `Interpreter`). Graphs that fit never get there
  (`CompiledModulesAreValid`); nothing checks that a graph is one, and `CompileAndRun.cfg` has some that do.
- `hexir-bench.c:314-318`: WRONG means a wrong kernel. The operands of the product that decides are
  the first two blocks of RODATA (`hexir-bench.c:300-304`, which looks at its size only), and RODATA
  follows the order of the constants: a right module with `linear %second, %first`, with another
  constant in front, or with one constant for both operands and another beside it can be called wrong. So can one
  of several kernels, whose last answer is held against the shape of the first. And where main dispatches nothing,
  `hexir_execute_capture` succeeds without writing (`interpreter.c:280`), and what is compared is
  what malloc returned. (`Comparable` and `Verify` in `Bench`.)
- `bench/README.md:3-4` and `hexir-bench.c:337-338`: cuBLAS doing the same work on the same constants.
  What its allocations, copies and products return is not looked at (`AllocateOperand`, `WriteOperand`,
  `Dgemm` in `Bench`), the constants need not be the operands, as above, and of a matmul followed by a relu the
  time held against it is that of both. `TimesWholeRuns` says when a cuBLAS time appears, not what it
  is worth.
- `docs/pipeline.md:86`: no constants as destinations. The relu pattern creates one
  (`ToDestination` in `LinalgPath`); bufferization copies it, so the values are right.
- `docs/pipeline.md:68-69`: every pattern copies the device attribute. The `linalg.fill` of a
  matmul or an add is created without it and is placed on the cpu.
- `docs/pipeline.md` also has `-emit=hxb` run GPU lowering (its stage is below `gpu` in the enum),
  warns of a two-dimensional `gpu.launch` (`CudaToGpu` creates 1x1x1), and has ops implement
  shape inference (none does). `hal.h:7` and `docs/reference/cli.md` say that only the CPU
  backend exists.

## Not modelled

- **Dialects, parsers, verifiers** (`Dialect/*/IR`): mostly generated or one call of an MLIR
  builder each. What the verifiers guarantee is a condition on the inputs (`WellFormedGraph`,
  `Verified`); shapes, which they do not verify, are free.
- **Inputs at the kernel level**: a `.mlir` file that already has prim funcs or calls of them,
  and values of other ranks than two; a `func.func` without a body, of which the serializer takes
  the first block all the same (`ModuleSerializer.cpp:298`), undefined behaviour. Graphs hold the five ops named above, `other` for the rest of the
  dialect, and `fill` for an op of linalg.
- **Canonicalization and CSE**: assumed to find nothing (`Clean` in `Driver`), which restricts the
  inputs in a `hexir.func`; they run on nothing else.
- **Affine lowering** (`HexirToAffine.cpp`): no pipeline adds it; `-emit=mlir-affine` runs no
  pass of its own, as `Passes` has it.
- **`Builder.cpp`**, except for the program `main` builds: nothing calls the rest.
- **`CudaToolkit.cpp`**: a search of paths; the compilation of device code succeeds or fails.
- **Scripts, CMake, `targets/`**: no control flow, or no code.
- **Modules past 4 GiB**, as far as `program_offset` is concerned: it is cast to 32 bits
  (`ModuleSerializer.cpp:295`), and offsets count commands here. Extents and image offsets, of which
  the same is true, are cast as in the code.
- **Floating point**: values are symbolic. In particular the reference `relu` and the device
  one are the same function here, though they may differ on NaN.
- **Concurrent use** of one device or module by several host threads: the runtime has no
  locks and does not claim to support it.

One hazard has no property, because the code does nothing about it: compiling over a
file that is mapped (`hexir.cpp:506`). Of two more a part has none for the same reason: the verdict of the
benchmark where it is not about the kernel (`hexir-bench.c:303`), and the time of a baseline that
failed (`hexir-bench.c:361`).

## Plan

Order of work: the interpreter and its abstract machine; serializer; kernels; compiler and
runtime together; the file and its two readers; the two programs with their arguments; the
whole compiler; then the proofs, component by component, up to those of the composition. All of
these are there, and every safety property is proved. What could be added is in the model: what
the pipeline's clean-up passes may do, aliasing of a kernel's operands, several executions
of one loaded module on one device.
