------------------------------- MODULE Hexir --------------------------------
(***************************************************************************)
(* The whole of hexir: from any command line and input to the status it    *)
(* exits with, and the file or the dump it leaves.                         *)
(***************************************************************************)
EXTENDS KernelPath, LinalgPath

Next == DriverNext \/ KernelNext \/ LinalgNext

Spec == Init /\ [][Next]_vars

(* One sequential process. *)
FairSpec == Spec /\ WF_vars(Next)

-----------------------------------------------------------------------------
(* Properties.                                                               *)

Exits == {"running", "ok", "usage", "failed", "pass_failed", "load_failed",
          "translation_failed", "aborted", "undefined"}

MadeBefore(i) ==
  \A value \in ToSet(body[i].args) \cup ({body[i].dest} \ {<<>>}) :
    \E j \in 1 .. i - 1 : body[j].result = value

(* Ops are of their types, and read and work into what an earlier op has made. *)
TypeOK ==
  /\ pc \in {"begin", "targets", "placements", "load", "passes", "open", "serialize", "emit", "exited"}
  /\ exit \in Exits /\ (pc = "exited" <=> exit # "running")
  /\ at \in Nat
  /\ chip \in {"sm_75", "sm_80", "sm_86"}
  /\ preferred \in [RegisteredOps -> Devices]
  /\ passes \in Seq(ToSet(Passes)) /\ prims \in Seq(PrimType)
  /\ file \in {"previous", "empty", "partial", "module"}
  /\ \A i \in DOMAIN body :
       /\ body[i].form \in Forms
       /\ body[i].device \in Devices \cup {"gpu", "none"}
       /\ body[i].form = "call" => body[i].callee \in DOMAIN prims
       /\ MadeBefore(i)

(* The exit status tells whether the output file holds a module, and only
   -emit=hxb touches it. *)
ExitTellsTheFile ==
  pc = "exited" => IF job.emit = "hxb" THEN exit = "ok" <=> file = "module" ELSE file = "previous"

(* What is written for a stage holds ops of that stage only. *)
StageIsPure ==
  exit = "ok" =>
    \A i \in DOMAIN body :
      /\ KernelLevel /\ body[i].form = "hexir" => body[i].op \notin ComputeOps
      /\ AtLeast(job.emit, "linalg") /\ body[i].form = "hexir" => body[i].op = "print"
      /\ AtLeast(job.emit, "gpu") =>
           /\ body[i].form = "linalg" => body[i].device # "cuda"
           /\ body[i].op # "zeros"
      /\ AtLeast(job.emit, "llvm_dialect") => body[i].form \in {"llvm", "kernel"}

(* The entries of the command line up to the one being applied: what they add up to,
   and none of them bad. *)
Targeted(entry) ==
  IF entry.device = "cpu" THEN entry.arch = "" ELSE entry.device # "unknown" /\ entry.arch # "unknown"
Placeable(entry) == entry.op \in RegisteredOps /\ entry.device \in Devices \cup {"gpu"}
GoodLine ==
  /\ job.emit # "none"
  /\ \A i \in DOMAIN Options.targets : Targeted(Options.targets[i])
  /\ \A i \in DOMAIN Options.placements : Placeable(Options.placements[i])

ChipAfter(n) ==
  LET entries == {i \in 1 .. n : Options.targets[i].arch # ""}
  IN IF entries = {} THEN Options.gpuChip ELSE Options.targets[Max(entries)].arch
PreferredAfter(op, n) ==
  LET entries == {i \in 1 .. n : Options.placements[i].op = op}
  IN IF entries = {} THEN "cpu" ELSE Alias(Options.placements[Max(entries)].device)

LineAt(t, p) ==
  /\ t \in 0 .. Len(Options.targets) /\ p \in 0 .. Len(Options.placements)
  /\ chip = ChipAfter(t)
  /\ preferred = [op \in RegisteredOps |-> PreferredAfter(op, p)]
  /\ \A i \in 1 .. t : Targeted(Options.targets[i])
  /\ \A i \in 1 .. p : Placeable(Options.placements[i])

PastTheLine == {"load", "passes", "open", "serialize", "emit"}

LineSoFar ==
  /\ pc = "begin"      => at = 1 /\ LineAt(0, 0)
  /\ pc = "targets"    => \E n \in 0 .. Len(Options.targets) : at = n + 1 /\ LineAt(n, 0)
  /\ pc = "placements" =>
       \E n \in 0 .. Len(Options.placements) : at = n + 1 /\ LineAt(Len(Options.targets), n)
  /\ pc \in PastTheLine => LineAt(Len(Options.targets), Len(Options.placements))
  /\ pc \notin {"begin", "exited"} => job.emit # "none"

(* Past the command line the resolved target and the preferred devices are what
   the whole of it says. *)
Resolved ==
  pc \in PastTheLine =>
    /\ GoodLine /\ chip = Chip(Options)
    /\ \A v \in Compute(Graph) :
         OpAt(Graph, v).device = "none" => preferred[OpAt(Graph, v).op] = Placement(Options, OpAt(Graph, v))

UsageOnly == pc = "exited" => (exit = "usage" <=> ~GoodLine)

FileFollows ==
  /\ exit = "running" <=> pc # "exited"
  /\ pc = "emit" => job.emit # "hxb"
  /\ pc \in {"open", "serialize"} => job.emit = "hxb"
  /\ pc # "exited" => file = IF pc = "serialize" THEN "empty" ELSE "previous"

(* The inductive invariant of what main does around the passes. *)
DriverInv ==
  /\ job \in JobType /\ at \in Nat
  /\ pc \in PastTheLine \cup {"begin", "targets", "placements", "exited"}
  /\ LineSoFar /\ Resolved /\ UsageOnly /\ FileFollows /\ ExitTellsTheFile

(* What executing the ops gives: a value is what the last op before wrote under its
   name.  A matmul adds to its destination, which is right only when that is zero. *)
Zero    == <<>>
Garbage == <<"garbage">>
KernelIn(operation) ==
  IF operation.form = "call" THEN prims[operation.callee].kernel ELSE KernelOf(operation.op)
Executed ==
  LET value[i \in DOMAIN body] ==
        LET operation == body[i]
            Read(name) == value[Max({j \in 1 .. i - 1 : body[j].result = name})]
        IN CASE operation.op = "constant" -> <<"constant", operation.result>>
             [] operation.op = "print" -> Read(operation.args[1])
             [] operation.op = "matmul" /\ Read(operation.dest) # Zero -> Garbage
             [] KernelIn(operation) \in KernelKinds ->
                  <<KernelIn(operation), [a \in DOMAIN operation.args |-> Read(operation.args[a])]>>
             [] OTHER -> Zero
  IN value

(* What the ops of a function of the input give. *)
Term(kernel, args) == <<kernel, args>>
MeaningOf(f) ==
  LET Symbol(i) == <<"constant", <<f, i>>>>
      Kernel(i) == KernelOf(Graph[f].body[i].op)
  IN Meaning(Graph[f].body, Symbol, Kernel, Term)

(* After any pass, and at any point of the lowering to kernels, each op computes
   and each print shows the value the input gives it. *)
MeaningPreserved ==
  LET meaning  == [f \in DOMAIN Graph |-> MeaningOf(f)]
      executed == Executed
  IN pc = "passes" =>
       \A i \in DOMAIN body :
         LET v == body[i].of
         IN \/ body[i].op = "print" /\ executed[i] = meaning[v[1]][Input(body[i]).args[1]]
            \/ KernelIn(body[i]) \in KernelKinds /\ executed[i] = meaning[v[1]][v[2]]
            \/ body[i].op # "print" /\ KernelIn(body[i]) \notin KernelKinds

(* What is handed to the serializer, or printed for mlir-tir, is the declarative
   reading of the command line and the graph: each op's placement is the input's,
   or the last -placement entry for it, and calls and prim funcs line up. *)
LowersAsStated ==
  KernelLevel /\ pc \in {"open", "serialize", "emit"} =>
    Compiled = Lowered(Graph, Options) /\ chip = Chip(Options)

(* An op runs where the graph and the command line place it, whatever it has been
   rewritten to: only those on cuda become kernels, and prints keep their mark. *)
OnGpu(operation) == operation.form \in {"launch", "launch_func", "kernel"}
PlacementTravels ==
  exit = "ok" /\ AtLeast(job.emit, "hetero") =>
    \A v \in Positions(Graph) :
      LET source == OpAt(Graph, v)
          placed == Placement(Options, source)
          made == {i \in DOMAIN body : body[i].of = v /\ body[i].op = KernelOf(source.op)}
      IN source.op \in ComputeOps \cup {"print"} =>
           /\ made # {}
           /\ \A i \in made :
                /\ job.emit \in {"hetero", "gpu"} => body[i].device = placed
                /\ AtLeast(job.emit, "gpu") /\ source.op # "print" => (OnGpu(body[i]) <=> placed = "cuda")

(* What the exit status says of the command line and the input, whatever the order
   in which they were looked at.  A bad entry is found before the input is, and
   none goes by; a stage is only reached with a graph that can be taken there. *)
NamesAreFree ==
  \A v \in Compute(Graph), f \in DOMAIN Graph :
    Graph[f].name # Mangled(OpAt(Graph, v).op, PrimIndex(Graph, v) - 1)
RanksAreKnown(ops) == \A v \in Positions(Graph) : OpAt(Graph, v).op \in ops => OpAt(Graph, v).regular
ExitCodes ==
  /\ UsageOnly
  /\ exit = "load_failed" => job.input = "file"
  /\ exit \in {"ok", "failed", "pass_failed", "aborted", "undefined"} => WellFormedGraph(Graph)
  /\ exit \in {"ok", "failed", "aborted"} /\ KernelLevel => NamesAreFree /\ RanksAreKnown(ComputeOps)
  /\ exit = "ok" /\ job.emit = "hxb" => Serializable(Lowered(Graph, Options))
  /\ exit = "pass_failed" /\ job.input = "built" =>
       AtLeast(job.emit, "llvm_dialect") /\ Placement(Options, OpAt(Graph, <<1, 4>>)) = "cuda"
  /\ exit = "pass_failed" /\ KernelLevel =>
       ~NamesAreFree \/ ~RanksAreKnown(ComputeOps \cup {"other"})
  /\ exit = "undefined" => KernelLevel /\ ~RanksAreKnown({"other"})

-----------------------------------------------------------------------------
(* Where the passes have got to, and what has become of the ops by then: what
   makes the properties above inductive.                                     *)

Loaded   == pc \in {"passes", "open", "serialize", "emit"} \/ exit \notin {"running", "usage", "load_failed"}
Finished == pc \in {"open", "serialize", "emit"} \/ exit \in {"ok", "failed", "translation_failed", "aborted"}

(* So many passes have run, and what is behind them. *)
Ran        == Len(Passes) - Len(passes)
Placed     == (KernelLevel \/ AtLeast(job.emit, "hetero")) /\ Ran >= 2
Linalged   == AtLeast(job.emit, "linalg") /\ Ran >= IF job.emit = "linalg" THEN 2 ELSE 3
Buffered   == AtLeast(job.emit, "gpu") /\ Ran >= 5
OnKernels  == AtLeast(job.emit, "gpu") /\ Ran >= 6
Looped     == AtLeast(job.emit, "llvm_dialect") /\ Ran >= 7
HasOutlines == AtLeast(job.emit, "llvm_dialect") /\ Ran >= 8
InLLVM     == AtLeast(job.emit, "llvm_dialect") /\ Ran >= 9

PassesFollow ==
  /\ ~Loaded => body = <<>> /\ prims = <<>>
  /\ Loaded => /\ WellFormedGraph(Graph)
               /\ Len(passes) <= Len(Passes) /\ \A i \in DOMAIN passes : passes[i] = Passes[Ran + i]
  /\ Finished => passes = <<>>
  /\ Loaded /\ passes = <<>> /\ KernelLevel => Work = {} /\ \A f \in DOMAIN Graph : Graph[f].name \notin GeneratedNames

Values(g) == Positions(g) \cup {Append(v, "init") : v \in Positions(g)}
OpType ==
  [op : ComputeOps \cup {"constant", "print", "return", "other", "fill", "matmul", "zeros", "copied_zeros"},
   form : Forms, of : Positions(Graph), result : Values(Graph), args : Seq(Values(Graph)),
   dest : Values(Graph) \cup {<<>>}, device : Devices \cup {"gpu", "none"}, callee : Nat]

(* Up to the lowering to linalg an op is what was read of it, or the call of its
   kernel. *)
AsRead(operation) ==
  LET read == Parsed(operation.of)
  IN /\ operation.op = read.op /\ operation.args = read.args
     /\ operation.result = operation.of /\ operation.dest = <<>>
     /\ operation.form = read.form \/ (operation.form = "call" /\ read.op \in ComputeOps)

(* From then on it is the destination of a compute op, the compute op itself, which
   works into that, or an op without a kernel. *)
AsDestination(operation) ==
  /\ operation.op \in {"fill", "zeros", "copied_zeros"} /\ operation.device \in {"none", "cpu"}
  /\ operation.result = Append(operation.of, "init") /\ operation.args = <<>> /\ operation.dest = <<>>
  /\ operation.form = "linalg" => operation.op = "fill"
  /\ operation.op = "zeros" => ~Buffered
Operands(operation) ==
  [a \in DOMAIN Input(operation).args |->
     LET v == <<operation.of[1], Input(operation).args[a]>>
     IN IF Buffered /\ OpAt(Graph, v).op \in ComputeOps THEN Append(v, "init") ELSE v]
AsKernel(operation) ==
  /\ operation.op = KernelOf(Input(operation).op) /\ operation.dest = Append(operation.of, "init")
  /\ operation.args = Operands(operation)
  /\ operation.result = IF Buffered THEN operation.dest ELSE operation.of
AsLowered(operation) ==
  /\ operation.form = "hexir" => operation.op = "print"
  /\ \/ Input(operation).op \in ComputeOps /\ (AsDestination(operation) \/ AsKernel(operation))
     \/ /\ Input(operation).op \in {"constant", "print", "return", "fill"}
        /\ operation.op = Input(operation).op /\ operation.result = operation.of /\ operation.dest = <<>>
        /\ operation.args = Operands(operation)
        /\ operation.form = "linalg" => operation.op = "fill"

(* None is lost, and they are in the order of the input, a destination right before
   the op that works into it. *)
OpsFollow ==
  /\ body \in Seq(OpType)
  /\ ~Linalged => /\ \A i \in DOMAIN body : AsRead(body[i])
                  /\ \A i, j \in DOMAIN body : i < j => Before(body[i].of, body[j].of)
  /\ Linalged => /\ \A i \in DOMAIN body : AsLowered(body[i])
                 /\ \A i, j \in DOMAIN body : i < j =>
                      \/ Before(body[i].of, body[j].of)
                      \/ body[i].of = body[j].of /\ body[i].dest = <<>> /\ body[j].dest # <<>>
  /\ Loaded => \A v \in Positions(Graph) : \E i \in DOMAIN body :
       body[i].of = v /\ body[i].op = IF Linalged THEN KernelOf(OpAt(Graph, v).op) ELSE OpAt(Graph, v).op

(* An op has the device of the input or none until it is placed, keeps the one it is
   given as long as it has a device, and is then a kernel of the GPU or not. *)
Computes(operation) ==
  Input(operation).op \in ComputeOps /\ operation.op \in {Input(operation).op, KernelOf(Input(operation).op)}
DeviceFollows(operation) ==
  LET placed == Placement(Options, Input(operation))
  IN /\ ~Placed /\ ~Linalged => operation.device = Input(operation).device
     /\ Placed /\ ~Looped /\ (Computes(operation) \/ operation.op = "print") => operation.device = placed
     /\ OnKernels /\ Computes(operation) => (OnGpu(operation) <=> placed = "cuda")
     /\ OnGpu(operation) => OnKernels /\ Computes(operation)
     /\ Linalged /\ ~OnKernels /\ Computes(operation) => operation.form = "linalg"
     /\ OnKernels /\ operation.form = "linalg" => operation.device # "cuda"
     /\ HasOutlines => operation.form # "launch"
     /\ InLLVM <=> operation.form \in {"llvm", "kernel"}
DevicesFollow == \A i \in DOMAIN body : DeviceFollows(body[i])

(* The prim funcs are those of the calls, which come before what is still to be
   lowered. *)
Calls == {i \in DOMAIN body : body[i].form = "call"}
KernelsFollow ==
  /\ Calls # {} => KernelLevel /\ Placed
  /\ Len(prims) = Cardinality({body[i].of : i \in Calls})
  /\ \A i \in Calls :
       /\ body[i].callee \in DOMAIN prims /\ body[i].callee = PrimIndex(Graph, body[i].of)
       /\ Input(body[i]).regular
       /\ prims[body[i].callee] = PrimOf(Graph, body[i].of, Placement(Options, Input(body[i])))
       /\ \A j \in Work : i < j
  /\ \A p \in DOMAIN prims : \E i \in Calls : body[i].callee = p

(* The state is of its types, the file and the ops are those of the stage, what
   main knows of the command line is what it says so far, and each op is what the
   passes so far make of it. *)
Inv ==
  /\ TypeOK /\ StageIsPure /\ DriverInv
  /\ PassesFollow /\ OpsFollow /\ DevicesFollow /\ KernelsFollow

(* The compiler ends. *)
Terminates == <>(pc = "exited")
=============================================================================
