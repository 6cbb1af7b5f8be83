------------------------------- MODULE Bench -------------------------------
(***************************************************************************)
(* hexir-bench (bench/hexir-bench.c), from its arguments to its exit       *)
(* status: it runs a module once to check what it computes, several times  *)
(* to time it, and then times cuBLAS on the constants of the module, with  *)
(* a second device.  Interpreter models the executions, which are one step *)
(* with any result here.                                                   *)
(***************************************************************************)
EXTENDS Device, CommandLine

CONSTANTS
  Modules,     (* what the files named can hold                            *)
  Commands,    (* the command lines: sequences of arguments                *)
  DefaultIterations,  (* 20 in the code                                    *)
  None         (* no file named; no exit status yet                        *)

(* A kernel and the extents of its destination. *)
KernelType == [kind : {"matmul", "add", "relu"}, m : Nat \ {0}, n : Nat \ {0}]

(* What the first kernel gets wrong. *)
Faults == {"none", "last_row", "other_columns"}

(* What RODATA is to the first kernel: too short for its two operands; long enough,
   with other constants in front, or its operands the other way round; or the two
   operands in order. *)
Contents == {"short", "other", "operands"}

(* The executables in the order of their section; those of them that main
   dispatches, in order; and where they are placed. *)
ModuleType ==
  [executables : Seq(KernelType), runs : Seq(Nat), device : {"cpu", "cuda"},
   rodata : Contents, fault : Faults]

(* A path is given by what the file holds; a number is what atoi makes of it. *)
ArgumentType ==
  [option : {"path"}, value : Modules] \cup [option : {"iters"}, value : Int]
  \cup [option : {"device"}, value : {"cpu", "cuda", "unknown"}]
  \cup [option : {"no_baseline", "no_verify", "unknown"}, value : {""}]

ASSUME ModulesAssumption == Modules \subseteq ModuleType
ASSUME CommandsAssumption == Commands \subseteq Seq(ArgumentType)
ASSUME IterationsAssumption == DefaultIterations \in Nat \ {0}

VARIABLES
  argv,              (* never changes                                      *)
  i,                 (* the next argument                                  *)
  options,           (* the locals the arguments set                       *)
  stage,             (* where main is                                      *)
  mapped,            (* the module is mapped                               *)
  result,            (* hexir_result is allocated                          *)
  captured,          (* and holds what the program computed                *)
  timed,             (* runs that ended well in the timed loop             *)
  verdict,           (* none, ok or wrong                                  *)
  library2,          (* cublas.lib is open                                 *)
  handle,            (* a cuBLAS handle exists                             *)
  reported,          (* the times printed                                  *)
  exit               (* the exit status, or None                           *)

arguments == <<argv, i, options>>
baseline  == <<library2, handle>>
answer    == <<result, captured, timed, verdict>>
vars == <<arguments, stage, mapped, answer, baseline, reported, exit, deviceVars>>

module == options.path

First == module.executables[1]
Final == module.executables[module.runs[Len(module.runs)]]
IsGemm == First.kind = "matmul"

(* What hexir_execute can return. *)
Outcomes == {"OK", "INVALID_MODULE", "NOT_FOUND", "OUT_OF_MEMORY", "DEVICE", "UNIMPLEMENTED"}

(* main returns: what is left is released on the way. *)
Return(code) ==
  /\ stage' = "exited" /\ exit' = code
  /\ mapped' = FALSE /\ result' = FALSE
GoOn(next) == stage' = next /\ UNCHANGED <<mapped, result, exit>>

-----------------------------------------------------------------------------
(* The command line.                                                         *)

BadArgument(a) == a.option = "unknown" \/ (a.option = "iters" /\ a.value < 1)

(* Mutant: no -iters is one run. *)
ReadOnce(a) ==
  CASE a.option = "path"        -> [options EXCEPT !.path = a.value]
    [] a.option = "device"      -> [options EXCEPT !.kind = IF a.value = "cpu" THEN "cpu" ELSE "cuda"]
    [] a.option = "no_baseline" -> [options EXCEPT !.baseline = FALSE]
    [] a.option = "no_verify"   -> [options EXCEPT !.verify = FALSE]
    [] OTHER                    -> [options EXCEPT !.iterations = 1]

(* What one argument sets.  A device that is not cpu is cuda. *)
Read(a) ==
  CASE a.option = "path"        -> [options EXCEPT !.path = a.value]
    [] a.option = "device"      -> [options EXCEPT !.kind = IF a.value = "cpu" THEN "cpu" ELSE "cuda"]
    [] a.option = "iters"       -> [options EXCEPT !.iterations = a.value]
    [] a.option = "no_baseline" -> [options EXCEPT !.baseline = FALSE]
    [] a.option = "no_verify"   -> [options EXCEPT !.verify = FALSE]

Parse ==
  /\ stage = "parse" /\ i \in DOMAIN argv
  /\ \/ BadArgument(argv[i]) /\ Return(2) /\ UNCHANGED <<i, options>>
     \/ /\ ~BadArgument(argv[i])
        /\ options' = Read(argv[i]) /\ i' = i + 1
        /\ GoOn("parse")
  /\ UNCHANGED <<argv, captured, timed, verdict, baseline, reported, deviceVars>>

Parsed ==
  /\ stage = "parse" /\ i > Len(argv)
  /\ IF options.path = None THEN Return(2) ELSE GoOn("load")
  /\ UNCHANGED <<arguments, captured, timed, verdict, baseline, reported, deviceVars>>

-----------------------------------------------------------------------------
(* The module and the first run.                                             *)

LoadModule ==
  /\ stage = "load"
  /\ \/ stage' = "inspect" /\ mapped' = TRUE /\ UNCHANGED <<result, exit>>
     \/ Return(1)
  /\ UNCHANGED <<arguments, captured, timed, verdict, baseline, reported, deviceVars>>

(* first_executable, and the device it is placed on. *)
Inspect ==
  /\ stage = "inspect"
  /\ LET measurable == module.executables # <<>> /\ module.device = options.kind
     IN \/ ~measurable /\ Return(1)
        \/ /\ measurable /\ stage' = "create"
           /\ result' \in {FALSE, options.verify}
           /\ UNCHANGED <<mapped, exit>>
  /\ UNCHANGED <<arguments, captured, timed, verdict, baseline, reported, deviceVars>>

Create(from, to, kind) ==
  /\ stage = from
  /\ BeginCreate(kind)
  /\ GoOn(to)
  /\ UNCHANGED <<arguments, captured, timed, verdict, baseline, reported>>

CreateToRun == Create("create", "capture", options.kind)

StepCreate ==
  Creating /\ UNCHANGED <<arguments, stage, mapped, answer, baseline, reported, exit>>

(* A device of either kind was refused. *)
DeviceRefused ==
  /\ stage \in {"capture", "allocate"} /\ creating = "idle" /\ device = {}
  /\ Return(1)
  /\ UNCHANGED <<arguments, captured, timed, verdict, baseline, reported, deviceVars>>

CaptureFits == First.m * First.n <= Final.m * Final.n

(* The untimed run, whose last destination is captured: with nothing dispatched it
   ends well and leaves the result as malloc gave it. *)
Capture ==
  /\ stage = "capture" /\ creating = "idle" /\ device # {}
  /\ \/ /\ captured' = (result /\ module.runs # <<>>)
        /\ captured' => CaptureFits
        /\ GoOn("time") /\ UNCHANGED deviceVars
     \/ /\ ReleaseDevice
        /\ Return(1) /\ UNCHANGED captured
  /\ UNCHANGED <<arguments, timed, verdict, baseline, reported>>

(* Mutant: a run that fails is timed all the same. *)
TimeRunAnyway ==
  /\ stage = "time" /\ timed < options.iterations
  /\ \E outcome \in Outcomes :
       /\ timed' = IF outcome = "OK" THEN timed + 1 ELSE timed
       /\ GoOn(IF outcome = "OK" THEN "time" ELSE "verify")
       /\ IF outcome = "OK" THEN UNCHANGED deviceVars ELSE ReleaseDevice
  /\ UNCHANGED <<arguments, captured, verdict, baseline, reported>>

TimeRun ==
  /\ stage = "time" /\ timed < options.iterations
  /\ \E outcome \in Outcomes :
       \/ outcome = "OK" /\ timed' = timed + 1 /\ GoOn("time") /\ UNCHANGED deviceVars
       \/ outcome # "OK" /\ ReleaseDevice /\ Return(1) /\ UNCHANGED timed
  /\ UNCHANGED <<arguments, captured, verdict, baseline, reported>>

(* Mutant: the device of the timed runs is left open. *)
TimedKeepsDevice ==
  /\ stage = "time" /\ timed = options.iterations
  /\ GoOn("verify")
  /\ UNCHANGED <<arguments, captured, timed, verdict, baseline, reported, deviceVars>>

Timed ==
  /\ stage = "time" /\ timed = options.iterations
  /\ ReleaseDevice
  /\ GoOn("verify")
  /\ UNCHANGED <<arguments, captured, timed, verdict, baseline, reported>>

-----------------------------------------------------------------------------
(* The check of the answer, against the product of what RODATA starts with.    *)

SampleCount == 512
AtLeast1(x) == IF x = 0 THEN 1 ELSE x

(* Mutant: the first elements. *)
FirstSamples(m, n) == {index \in 0 .. SampleCount - 1 : index < m * n}

(* verify_sampled: the indices it looks at. *)
Samples(m, n) ==
  LET total == m * n
      stride == AtLeast1(total \div SampleCount)
  IN {stride * q : q \in 0 .. (total - 1) \div stride}

Faulty(index) ==
  CASE module.fault = "last_row"      -> index \div First.n = First.m - 1
    [] module.fault = "other_columns" -> index % First.n # 0
    [] OTHER                          -> FALSE

Judged == result /\ IsGemm /\ module.rodata # "short"

(* What is compared is the first kernel's answer, with the product of its operands.
   The code asks for none of it: the first m * k and the next k * n doubles are taken
   for the operands wherever RODATA is long enough. *)
Comparable ==
  /\ captured /\ module.rodata = "operands"
  /\ module.runs[Len(module.runs)] = 1

(* An answer that is not comparable may agree with the product at every sample or
   differ at one, whatever the kernel did. *)
Verify ==
  /\ stage = "verify"
  /\ \/ ~Judged /\ UNCHANGED verdict
     \/ /\ Judged /\ Comparable
        /\ verdict' = IF \E index \in Samples(First.m, First.n) : Faulty(index)
                      THEN "wrong" ELSE "ok"
     \/ Judged /\ ~Comparable /\ verdict' \in {"ok", "wrong"}
  /\ result' = FALSE
  /\ reported' = {"hexir"}
  /\ stage' = "baseline"
  /\ UNCHANGED <<arguments, mapped, captured, timed, baseline, exit, deviceVars>>

-----------------------------------------------------------------------------
(* The baseline.                                                             *)

(* cublas_load, and the conditions under which there is no baseline. *)
Baseline ==
  /\ stage = "baseline"
  /\ LET wanted == IsGemm /\ options.kind = "cuda" /\ options.baseline
     IN \/ Return(0) /\ UNCHANGED library2
        \/ wanted /\ module.rodata # "short" /\ library2' = TRUE /\ GoOn("create_baseline")
        \/ wanted /\ module.rodata = "short" /\ library2' = TRUE /\ Return(0)
  /\ UNCHANGED <<arguments, captured, timed, verdict, handle, reported, deviceVars>>

CreateForBaseline == Create("create_baseline", "allocate", "cuda")

(* Nothing looks at what the three allocations and the two writes return. *)
AllocateOperand(buffer, from, to) ==
  /\ stage = from /\ creating = "idle" /\ device # {}
  /\ Allocate(buffer)
  /\ GoOn(to)
  /\ UNCHANGED <<arguments, captured, timed, verdict, baseline, reported>>

WriteOperand(buffer, from, to) ==
  /\ stage = from
  /\ \/ /\ buffer \in buffers
        /\ Transfer("cuda")
     \/ buffer \notin buffers /\ UNCHANGED deviceVars
  /\ GoOn(to)
  /\ UNCHANGED <<arguments, captured, timed, verdict, library2, handle, reported>>

Operands ==
  \/ AllocateOperand("a", "allocate", "allocate_b")
  \/ AllocateOperand("b", "allocate_b", "allocate_c")
  \/ AllocateOperand("c", "allocate_c", "write_a")
  \/ WriteOperand("a", "write_a", "write_b")
  \/ WriteOperand("b", "write_b", "handle")

OpenHandle ==
  /\ stage = "handle"
  /\ handle' \in BOOLEAN
  /\ GoOn(IF handle' THEN "dgemm" ELSE "release")
  /\ UNCHANGED <<arguments, captured, timed, verdict, library2, reported, deviceVars>>

(* The warm-up and the timed loop; what Dgemm returns is not looked at. *)
Dgemm ==
  /\ stage = "dgemm"
  /\ reported' = reported \cup {"cublas"}
  /\ GoOn("destroy")
  /\ UNCHANGED <<arguments, captured, timed, verdict, library2, handle, deviceVars>>

DestroyHandle ==
  /\ stage = "destroy"
  /\ handle' = FALSE
  /\ GoOn("release")
  /\ UNCHANGED <<arguments, captured, timed, verdict, library2, reported, deviceVars>>

(* Mutant: the destination is forgotten. *)
ReleaseTwoBuffers ==
  /\ stage = "release" /\ buffers # {}
  /\ ReleaseBuffers({"a", "b"})
  /\ GoOn("close")
  /\ UNCHANGED <<arguments, captured, timed, verdict, baseline, reported>>

ReleaseThreeBuffers ==
  /\ stage = "release"
  /\ ReleaseBuffers({"a", "b", "c"})
  /\ GoOn("close")
  /\ UNCHANGED <<arguments, captured, timed, verdict, baseline, reported>>

Close ==
  /\ stage = "close"
  /\ ReleaseDevice
  /\ Return(0)
  /\ UNCHANGED <<arguments, captured, timed, verdict, baseline, reported>>

-----------------------------------------------------------------------------
Init ==
  /\ argv \in Commands /\ i = 1
  /\ options = [path |-> None, kind |-> "cuda", iterations |-> DefaultIterations,
                baseline |-> TRUE, verify |-> TRUE]
  /\ stage = "parse" /\ mapped = FALSE /\ result = FALSE /\ captured = FALSE
  /\ timed = 0 /\ verdict = "none"
  /\ library2 = FALSE /\ handle = FALSE
  /\ reported = {} /\ exit = None
  /\ DeviceInit

Next ==
  \/ Parse \/ Parsed \/ LoadModule \/ Inspect \/ CreateToRun \/ StepCreate \/ DeviceRefused
  \/ Capture \/ TimeRun \/ Timed \/ Verify
  \/ Baseline \/ CreateForBaseline \/ Operands \/ OpenHandle \/ Dgemm
  \/ DestroyHandle \/ ReleaseThreeBuffers \/ Close

Spec == Init /\ [][Next]_vars
-----------------------------------------------------------------------------
(* Properties.                                                               *)

Stages ==
  {"parse", "load", "inspect", "create", "capture", "time", "verify", "baseline",
   "create_baseline", "allocate", "allocate_b", "allocate_c", "write_a", "write_b",
   "handle", "dgemm", "destroy", "release", "close", "exited"}

InOperands == {"allocate_b", "allocate_c", "write_a", "write_b", "handle", "dgemm", "destroy", "release"}
InBaseline == {"create_baseline", "allocate", "close"} \cup InOperands

TypeOK ==
  /\ stage \in Stages
  /\ mapped \in BOOLEAN /\ result \in BOOLEAN /\ captured \in BOOLEAN
  /\ argv \in Seq(ArgumentType) /\ i \in 1 .. Len(argv) + 1
  /\ options.path \in Modules \cup {None}
  /\ options.kind \in {"cpu", "cuda"} /\ options.iterations \in Nat \ {0}
  /\ options.baseline \in BOOLEAN /\ options.verify \in BOOLEAN
  /\ timed \in 0 .. options.iterations
  /\ verdict \in {"none", "ok", "wrong"}
  /\ library2 \in BOOLEAN /\ handle \in BOOLEAN
  /\ reported \subseteq {"hexir", "cublas"}
  /\ exit \in {None, 0, 1, 2}
  /\ DeviceTypeOK({"a", "b", "c"})

(* On every way out the mapping, the result, the handle, the buffers and both
   devices are given back. *)
NothingLeaks ==
  stage = "exited" => ~mapped /\ ~result /\ ~handle /\ buffers = {} /\ device = {}

(* The buffers and the cuBLAS handle live inside the context of an open device. *)
UsedWhileOpen == BuffersHaveADevice /\ (handle => device = CudaDevice)

(* A second device is only opened once the first is closed, so that the context
   the driver calls go to is that of the one device there is. *)
OneDeviceAtATime == creating # "idle" => device \in {{}, {"device", "impl"}}

(* The CUDA driver is loaded once for the process and stays loaded: a device for the
   baseline can be refused by the driver, but not for want of it. *)
DriverStaysLoaded == stage \in InBaseline => library = "open"

(* The first n arguments, read as a whole: the last of each kind counts. *)
Reading(n) ==
  [path       |-> LastGiven(argv, "path", n, None),
   kind       |-> IF LastGiven(argv, "device", n, "cuda") = "cpu" THEN "cpu" ELSE "cuda",
   iterations |-> LastGiven(argv, "iters", n, DefaultIterations),
   baseline   |-> Given(argv, "no_baseline", n) = {},
   verify     |-> Given(argv, "no_verify", n) = {}]
Asked == Reading(Len(argv))
Malformed == Asked.path = None \/ \E a \in DOMAIN argv : BadArgument(argv[a])

(* Bad arguments are found before anything is opened, and status 0 goes with a
   time for hexir. *)
ExitCodes ==
  stage = "exited" =>
    /\ exit = 2 <=> Malformed
    /\ exit = 2 => library = "unopened"
    /\ exit = 0 => "hexir" \in reported

(* Every time printed is of what the command line asks for: that many whole runs
   of that module, on the device it was compiled for; and cuBLAS is only timed where
   it was not declined, beside a first kernel that is a matmul on cuda, with the library
   open and as many constants as a matmul of its shape reads.  That its operands are
   those of the kernel, or have reached the device at all, is not said: no status of
   the baseline is looked at. *)
TimesWholeRuns ==
  /\ "hexir" \in reported => options = Asked /\ timed = Asked.iterations /\ module.device = Asked.kind
  /\ "cublas" \in reported =>
       /\ "hexir" \in reported /\ IsGemm /\ Asked.kind = "cuda" /\ Asked.baseline
       /\ library2 /\ module.rodata # "short"

(* Where RODATA starts with the operands of the first kernel, in order, and that
   kernel is the last one main runs, the check never calls a right answer of up to 512
   rows wrong, nor one whose last row is missing right.  Of any other module the code
   gives a verdict all the same, which may be either. *)
VerdictIsRight ==
  verdict # "none" /\ Comparable /\ First.m <= SampleCount =>
    /\ verdict = "wrong" => module.fault # "none"
    /\ verdict = "ok" => module.fault # "last_row"

(* hexir-bench.c:127-129: checking scattered elements catches a kernel that
   computes part of the output; and 131-132: the samples do not all land in the
   same column. *)
PartialKernelsAreCaught == verdict = "ok" /\ Comparable /\ First.n > 1 => module.fault = "none"

-----------------------------------------------------------------------------
(* The inductive invariant.                                                  *)

(* The arguments read so far are what the locals hold, and none of them is bad. *)
ReadSoFar ==
  /\ options = Reading(i - 1)
  /\ \A a \in 1 .. i - 1 : ~BadArgument(argv[a])
  /\ stage \notin {"parse", "exited"} => i = Len(argv) + 1 /\ options.path # None

(* What exists of the two devices, the buffers, the handle and the result where
   main is. *)
Held ==
  /\ creating # "idle" => \/ stage = "capture" /\ (creating = "cpu" <=> options.kind = "cpu")
                          \/ stage = "allocate" /\ creating # "cpu"
  /\ creating \notin {"idle", "open"} => device = {}
  /\ stage = "capture" /\ creating = "idle" => device \in {{}, DeviceOf(options.kind)}
  /\ stage = "time" => device = DeviceOf(options.kind)
  /\ stage = "allocate" /\ creating = "idle" => device \in {{}, CudaDevice}
  /\ stage \in InOperands \cup {"close"} => device = CudaDevice
  /\ stage \notin {"capture", "time", "allocate", "close"} \cup InOperands => device = {}
  /\ stage \notin InOperands => buffers = {}
  /\ stage = "parse" => library = "unopened"
  /\ creating \in {"init", "objects", "open"} => library = "open"
  /\ options.kind = "cuda" =>
       /\ stage \in {"time", "verify", "baseline"} => library = "open"
       /\ stage = "capture" /\ creating = "idle" /\ device # {} => library = "open"
  /\ handle => stage \in {"dgemm", "destroy"}
  /\ mapped => stage \notin {"parse", "load", "exited"}
  /\ result => stage \in {"create", "capture", "time", "verify"}

(* What has been run and reported where main is. *)
Progress ==
  /\ stage \in {"parse", "load", "inspect", "create", "capture"} => timed = 0
  /\ stage \in {"create", "capture", "time", "verify"} =>
       module.device = options.kind /\ module.executables # <<>>
  /\ stage \in {"parse", "load", "inspect", "create", "capture", "time", "verify"} =>
       reported = {} /\ verdict = "none"
  /\ stage = "verify" => timed = options.iterations
  /\ stage \in {"baseline"} \cup InBaseline => "hexir" \in reported
  /\ reported # {} => i = Len(argv) + 1
  /\ stage \in InBaseline =>
       /\ IsGemm /\ options.kind = "cuda" /\ options.baseline
       /\ library2 /\ module.rodata # "short"

(* The state is of its types, what is held is held of the one open device, what is
   held and what was done are as main has them at each point, and the properties of
   the end. *)
IInv ==
  /\ TypeOK /\ UsedWhileOpen /\ OneDeviceAtATime /\ DriverStaysLoaded
  /\ ReadSoFar /\ Held /\ Progress
  /\ NothingLeaks /\ ExitCodes /\ TimesWholeRuns /\ VerdictIsRight
=============================================================================
