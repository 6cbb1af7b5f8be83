------------------------------- MODULE Driver -------------------------------
(***************************************************************************)
(* hexir (tools/hexir/hexir.cpp): the command line, the input, and the     *)
(* pass manager that runs what buildHexirPipeline has listed for the stage *)
(* asked for.  Both paths share the passes here; KernelPath and LinalgPath *)
(* have their own, and Hexir is the whole program.                         *)
(***************************************************************************)
EXTENDS GraphModule

CONSTANT
  Jobs     (* command lines, with the input of each                          *)

(* In the order of the enum.  None stands for a missing -emit, and no option gives ast. *)
Stages == <<"none", "ast", "hexir", "tir", "hxb", "affine", "linalg", "hetero", "gpu",
            "llvm_dialect", "llvm_ir">>

AtLeast(reached, wanted) ==
  \E j \in DOMAIN Stages : Stages[j] = wanted /\ \E i \in j .. Len(Stages) : Stages[i] = reached

JobType ==
  [emit : ToSet(Stages) \ {"ast"}, opt : BOOLEAN, options : OptionsType,
   input : {"built", "file"}, graph : GraphType]

(* Canonicalization and CSE run on hexir.func only, and find nothing there. *)
Clean(g) ==
  \A f \in DOMAIN g : g[f].kind = "hexir.func" =>
    \A i \in DOMAIN g[f].body :
      LET body == g[f].body
      IN body[i].op \in ComputeOps \cup {"constant", "other"} =>
           /\ \E j \in DOMAIN body : i \in ToSet(body[j].args)
           /\ \A j \in DOMAIN body : body[i] = body[j] => i = j

ASSUME JobsAssumption == \A line \in Jobs : line \in JobType /\ Clean(line.graph)

VARIABLES
  job,              (* never changes                                       *)
  pc,               (* how far main has come                               *)
  at,               (* the next entry of the list being applied            *)
  chip,             (* resolvedGpuChip                                     *)
  preferred,        (* opPreferred_                                        *)
  passes,           (* the passes still to run                             *)
  body,             (* the ops of the module, function after function      *)
  prims,            (* its prim funcs                                      *)
  exit,             (* how the process ended                               *)
  file              (* the output file                                     *)

command == <<at, chip, preferred>>
module  == <<passes, body, prims>>
vars    == <<job, pc, command, module, exit, file>>

(* createMLPLinearFunction. *)
BuiltOp(op, args, rows, cols) ==
  [op |-> op, args |-> args, device |-> "none", regular |-> TRUE, rows |-> rows, cols |-> cols]
BuiltProgram ==
  <<[kind |-> "func.func", name |-> "main",
     body |-> << BuiltOp("constant", <<>>, 1, 2), BuiltOp("constant", <<>>, 2, 2),
                 BuiltOp("constant", <<>>, 2, 2), BuiltOp("linear", <<2, 3>>, 2, 2),
                 BuiltOp("print", <<4>>, 2, 2), BuiltOp("return", <<>>, 0, 0) >>]>>

Graph   == IF job.input = "built" THEN BuiltProgram ELSE job.graph
Options == job.options

Goto(label) == pc' = label /\ UNCHANGED exit
Exit(how)   == pc' = "exited" /\ exit' = how

-----------------------------------------------------------------------------
(* The command line.                                                         *)

CheckEmit ==
  /\ pc = "begin"
  /\ IF job.emit = "none" THEN Exit("usage") ELSE Goto("targets")
  /\ UNCHANGED <<job, command, module, file>>

Target == Options.targets[at]
(* Mutant: the architecture is not looked at. *)
TargetAcceptedAnyArch ==
  \/ Target.device = "cpu" /\ Target.arch = ""
  \/ Target.device \in {"cuda", "gpu"}
TargetAccepted ==
  \/ Target.device = "cpu" /\ Target.arch = ""
  \/ Target.device \in {"cuda", "gpu"} /\ Target.arch # "unknown"

(* A device is not remembered; the architecture of the last cuda entry that has
   one is. *)
ApplyTarget ==
  /\ pc = "targets" /\ at \in DOMAIN Options.targets
  /\ \/ ~TargetAccepted /\ Exit("usage") /\ UNCHANGED <<at, chip>>
     \/ /\ TargetAccepted
        /\ chip' = IF Target.arch = "" THEN chip ELSE Target.arch
        /\ at' = at + 1
        /\ UNCHANGED <<pc, exit>>
  /\ UNCHANGED <<job, preferred, module, file>>

TargetsApplied ==
  /\ pc = "targets" /\ at > Len(Options.targets)
  /\ Goto("placements") /\ at' = 1
  /\ UNCHANGED <<job, chip, preferred, module, file>>

(* The registry: opSupports_. *)
RegisteredOps == ComputeOps \cup LinalgOps
Supports      == [op \in RegisteredOps |-> {"cpu", "cuda"}]

Entry == Options.placements[at]
PlacementAccepted ==
  /\ Entry.device \in {"cpu", "cuda", "gpu"}
  /\ Entry.op \in RegisteredOps
  /\ Alias(Entry.device) \in Supports[Entry.op]

(* setPreferredTarget: the alias is resolved before the device is stored. *)
SetPreferred(op, target) == preferred' = [preferred EXCEPT ![op] = Alias(target)]

(* Mutant: a rejected entry is skipped over and over. *)
ApplyPlacementStuck ==
  /\ pc = "placements" /\ at \in DOMAIN Options.placements
  /\ \/ ~PlacementAccepted /\ UNCHANGED <<pc, exit, at, preferred>>
     \/ /\ PlacementAccepted
        /\ SetPreferred(Entry.op, Entry.device)
        /\ at' = at + 1
        /\ UNCHANGED <<pc, exit>>
  /\ UNCHANGED <<job, chip, module, file>>

ApplyPlacement ==
  /\ pc = "placements" /\ at \in DOMAIN Options.placements
  /\ \/ ~PlacementAccepted /\ Exit("usage") /\ UNCHANGED <<at, preferred>>
     \/ /\ PlacementAccepted
        /\ SetPreferred(Entry.op, Entry.device)
        /\ at' = at + 1
        /\ UNCHANGED <<pc, exit>>
  /\ UNCHANGED <<job, chip, module, file>>

PlacementsApplied ==
  /\ pc = "placements" /\ at > Len(Options.placements)
  /\ Goto("load") /\ at' = 1
  /\ UNCHANGED <<job, chip, preferred, module, file>>

-----------------------------------------------------------------------------
(* The pass list and the module it runs on.                                  *)

If(condition, list) == IF condition THEN list ELSE <<>>

(* Stages off the main line, which end with prim funcs. *)
KernelLevel == job.emit \in {"tir", "hxb"}

(* buildHexirPipeline.  The second partition is for linalg ops without a device. *)
LinalgPasses ==
  If(AtLeast(job.emit, "hetero"), <<"partition">>)
  \o If(AtLeast(job.emit, "linalg"), <<"to_linalg">>)
  \o If(AtLeast(job.emit, "hetero"), <<"partition">>)
  \o If(AtLeast(job.emit, "gpu"), <<"bufferize", "cuda_to_gpu">>)
  \o If(AtLeast(job.emit, "llvm_dialect"), <<"to_loops", "outline", "to_llvm", "to_binary">>)
Passes ==
  If(job.opt \/ AtLeast(job.emit, "linalg") \/ KernelLevel, <<"shape_inference">>)
  \o (IF KernelLevel THEN <<"partition", "to_tir">> ELSE LinalgPasses)

(* An op of the IR: what it computes, in which form, of which op of the graph it
   was made, the values or buffers it reads and the one it works into, if any. *)
Forms == {"hexir", "std", "linalg", "call", "launch", "loops", "launch_func", "llvm", "kernel"}

Parsed(v) ==
  LET operation == OpAt(Graph, v)
  IN [op |-> operation.op, of |-> v, result |-> v,
      form |-> IF operation.op = "return" THEN "std"
               ELSE IF operation.op = "fill" THEN "linalg" ELSE "hexir",
      args |-> [a \in DOMAIN operation.args |-> <<v[1], operation.args[a]>>],
      dest |-> <<>>, device |-> operation.device, callee |-> 0]

(* loadMLIR: a file may not open, and MLIR verifies what it parses. *)
Load ==
  /\ pc = "load"
  /\ \/ job.input = "file" /\ Exit("load_failed") /\ UNCHANGED <<passes, body>>
     \/ /\ WellFormedGraph(Graph)
        /\ body' = FlattenSeq([f \in DOMAIN Graph |->
                                [i \in DOMAIN Graph[f].body |-> Parsed(<<f, i>>)]])
        /\ passes' = Passes
        /\ Goto("passes")
  /\ UNCHANGED <<job, command, prims, file>>

Input(operation) == OpAt(Graph, operation.of)

(* The pass manager stops at the first pass that fails. *)
Running(pass) == pc = "passes" /\ passes # <<>> /\ Head(passes) = pass
Becomes(ops)  ==
  body' = ops /\ passes' = Tail(passes) /\ UNCHANGED <<job, pc, command, prims, exit, file>>
Fail == Exit("pass_failed") /\ UNCHANGED <<job, command, module, file>>

(* Each op replaced by a sequence of ops. *)
Rewritten(Rewrite(_)) == FlattenSeq([i \in DOMAIN body |-> Rewrite(body[i])])

PassesDone ==
  /\ pc = "passes" /\ passes = <<>>
  /\ Goto(IF job.emit = "hxb" THEN "open" ELSE "emit")
  /\ UNCHANGED <<job, command, module, file>>

-----------------------------------------------------------------------------
(* The passes of both paths.                                                 *)

(* No op implements the interface: one with an unranked result ends the pass,
   which is nested on hexir.func and sees nothing of a func.func. *)
Unranked(operation) == operation.op \in ComputeOps \cup {"other"} /\ ~Input(operation).regular
ShapeInference ==
  /\ Running("shape_inference")
  /\ LET stuck == \E i \in DOMAIN body :
                    Graph[body[i].of[1]].kind = "hexir.func" /\ Unranked(body[i])
     IN IF stuck THEN Fail ELSE Becomes(body)

(* Ops the registry does not know are placed on the cpu. *)
LinalgName == [matmul |-> "linalg.matmul", add |-> "linalg.add", relu |-> "linalg.generic",
               fill |-> "linalg.fill"]
AssignDevice(operation) ==
  LET name == IF operation.form = "linalg" THEN LinalgName[operation.op] ELSE operation.op
  IN IF name \in RegisteredOps /\ preferred[name] \in Supports[name] THEN preferred[name] ELSE "cpu"

(* Mutant: an op that has a device is placed again. *)
PlaceAgain(operation) ==
  IF operation.form \in {"hexir", "linalg"}
  THEN <<[operation EXCEPT !.device = AssignDevice(operation)]>> ELSE <<operation>>
Place(operation) ==
  IF operation.form \in {"hexir", "linalg"} /\ operation.device = "none"
  THEN <<[operation EXCEPT !.device = AssignDevice(operation)]>> ELSE <<operation>>
Partition == Running("partition") /\ Becomes(Rewritten(Place))

-----------------------------------------------------------------------------
(* module->dump() or dumpLLVMIR. *)
Emit ==
  /\ pc = "emit"
  /\ \/ Exit("ok")
     \/ job.emit = "llvm_ir" /\ Exit("translation_failed")
  /\ UNCHANGED <<job, command, module, file>>

Init ==
  /\ job \in Jobs
  /\ pc = "begin" /\ at = 1 /\ chip = Options.gpuChip
  /\ preferred = [op \in RegisteredOps |-> "cpu"]
  /\ passes = <<>> /\ body = <<>> /\ prims = <<>>
  /\ exit = "running" /\ file = "previous"

DriverNext ==
  \/ CheckEmit \/ ApplyTarget \/ TargetsApplied \/ ApplyPlacement \/ PlacementsApplied
  \/ Load \/ PassesDone \/ ShapeInference \/ Partition \/ Emit
=============================================================================
