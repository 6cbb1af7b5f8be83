--------------------------- MODULE CompileAndRun ---------------------------
(***************************************************************************)
(* The whole path: a graph is lowered and serialized, and the runtime      *)
(* replays what was written.  The modules the interpreter loads are the    *)
(* ones the compiler produces, so what it answers can be compared with     *)
(* what the graph means.                                                   *)
(***************************************************************************)
EXTENDS Interpreter, GraphModule, HostProgram

CONSTANTS
  Options,        (* the command line the graphs are compiled with          *)
  ValueAt(_, _)   (* the data of the constant at a position of a function   *)

(* A loaded module: the graph it was compiled from, and whether its cuda
   kernels could be compiled to device code. *)
LoweredOf(m)  == Lowered(m.graph, Options)
CudaPrims(m)  == LET prims == LoweredOf(m).prims IN {p \in DOMAIN prims : prims[p].device = "cuda"}
SectionsFor(m) == SectionsOf(LoweredOf(m), IF m.compiled THEN CudaPrims(m) ELSE {})

(* What CONST finds in RODATA. *)
LiteralFor(m, offset, size) ==
  LET s == LoweredOf(m)
      found == {v \in StoredConstants(s) :
                  RodataOffset(s, v) = offset /\ Size(OperationAt(s, v)) = size}
  IN IF found = {} THEN Zero
     ELSE LET v == CHOOSE v \in found : TRUE IN ValueAt(Walked(m.graph)[v[1]], v[2])

(* Shapes as the ops are meant to be used; the dialect does not verify them.  Values
   have elements, no more than a size_t counts and no extent a uint32_t does not hold. *)
WellShaped(body) ==
  \A i \in DOMAIN body :
    LET operation == body[i]
        A == body[operation.args[1]]
        B == body[operation.args[2]]
    IN /\ operation.op = "linear" =>
            A.cols = B.rows /\ operation.rows = A.rows /\ operation.cols = B.cols
       /\ operation.op = "add" =>
            /\ operation.rows = A.rows /\ operation.rows = B.rows
            /\ operation.cols = A.cols /\ operation.cols = B.cols
       /\ operation.op \in {"relu", "print"} => operation.rows = A.rows /\ operation.cols = A.cols
       /\ operation.op \in ComputeOps \cup {"constant"} =>
            /\ operation.rows * operation.cols \in 1 .. SizeLimit - 1
            /\ operation.rows < ExtentLimit /\ operation.cols < ExtentLimit

(* The modules are what the compiler writes of the graphs it accepts. *)
ASSUME CompiledAssumption ==
  \A m \in Modules :
    /\ m.graph \in GraphType /\ m.compiled \in BOOLEAN
    /\ WellFormedGraph(m.graph)
    /\ Serializable(LoweredOf(m))
    /\ Sections(m) = SectionsFor(m)
    /\ \A offset, size \in 0 .. Sections(m).rodata :
         Literal(m, offset, size) = LiteralFor(m, offset, size)

(* The driver refuses a placement on a device it does not know. *)
ASSUME OptionsAssumption ==
  /\ Options \in OptionsType
  /\ \A i \in DOMAIN Options.placements : Options.placements[i].device \in Devices \cup {"gpu"}

(* A kernel has no more buffers than a dispatch has room for. *)
ASSUME ArityAssumption == MaxArgs >= 3

-----------------------------------------------------------------------------
(* What the graph means. *)

Graph    == call.module.graph
Fits     == \A f \in DOMAIN Graph : WellShaped(Graph[f].body)
(* The entry is looked up by the name that was written, and the first one is taken. *)
EntryAt  == Min({w \in DOMAIN Walked(Graph) : ShortName(Graph[Walked(Graph)[w]].name) = call.entry})
Function == Walked(Graph)[EntryAt]
Body     == Graph[Function].body
Value    ==
  LET ConstantAt(i) == ValueAt(Function, i)
      KernelAt(i)   == KernelOf(Body[i].op)
  IN Meaning(Body, ConstantAt, KernelAt, Kernel)

(* An op is run on the device it was placed on; an alias in the input is not resolved,
   and what is not cuda is run as on the cpu. *)
DeviceFor(i) == Placement(Options, Body[i])
RunsOn(i)    == IF DeviceFor(i) = "cuda" THEN "cuda" ELSE "cpu"

ComputeIn(body) == {i \in DOMAIN body : body[i].op \in ComputeOps}
PrintsIn(body)  == FlattenSeq([i \in DOMAIN body |-> IF body[i].op = "print" THEN <<i>> ELSE <<>>])

(* A module the runtime accepts answers what the graph means, if its shapes fit: it
   prints the printed values in the order of the graph, and captures the last one
   computed. *)
AnswersAreTheGraphs ==
  Fits /\ host = "done" /\ status = "OK" =>
    /\ [i \in DOMAIN output |-> output[i].value]
         = [p \in DOMAIN PrintsIn(Body) |-> Value[Body[PrintsIn(Body)[p]].args[1]]]
    /\ call.out > 0 /\ ComputeIn(Body) # {} => captured = Value[Max(ComputeIn(Body))]

(* Nothing between a graph and its kernels looks at the shapes, and the loops of a
   kernel or of a print run over the extents they were written with.  They leave their
   buffers for no other reason: not where the shapes of the graph fit and no size or
   extent wrapped.  Such a module is never called malformed either, unless it needs
   more slots than the runtime has, and a capture of it fails only if the caller asks
   for more than the result holds. *)
CompiledModulesAreValid ==
  /\ host = "undefined" => ~Fits
  /\ status = "INVALID_MODULE" => ~Fits \/ Cardinality(Stored(LoweredOf(call.module))) > MaxSlots
  /\ status = "INVALID_ARGUMENT" =>
       ~Fits \/ call.out > Body[Max(ComputeIn(Body))].rows * Body[Max(ComputeIn(Body))].cols

(* Placement decides whether a graph whose shapes fit can run.  A call that succeeds
   ran on the one device every op is run on, with device code if that is cuda; and a
   call is refused for a placement only if some op was placed on cuda. *)
PlacementDecides ==
  LET devices == {RunsOn(i) : i \in ComputeIn(Body)}
  IN Fits =>
       /\ status = "OK" /\ host = "done" =>
            /\ devices \subseteq {call.device}
            /\ "cuda" \in devices => call.module.compiled
       /\ status = "UNIMPLEMENTED" => "cuda" \in devices /\ ~call.module.compiled
       /\ status = "DEVICE" /\ call.device = "cpu" => "cuda" \in devices
=============================================================================
