------------------------------ MODULE MCHexir -------------------------------
(* Command lines, and graphs to compile with them *)
EXTENDS Hexir

CONSTANTS MaxBody, MaxLinalg

MCShortName(name) == name
MCMangled(op, number) == op \o "_" \o ToString(number)

G(op, args, where, regular, rows, cols) ==
  [op |-> op, args |-> args, device |-> where, regular |-> regular, rows |-> rows, cols |-> cols]

Function(kind, name, ops) == [kind |-> kind, name |-> name, body |-> ops]
Alone(ops) == <<Function("func.func", "main", ops)>>
Pair(first, second) == Alone(first) \o <<Function("func.func", "other", second)>>

Verified_(pieces, length) == {ops \in BoundedSeq(pieces, length) : WellFormedGraph(Alone(ops))}

-----------------------------------------------------------------------------
(* Command lines.                                                            *)

Line(targets, placements) == [targets |-> targets, placements |-> placements, gpuChip |-> "sm_75"]
PlaceEntry(op, where) == [op |-> op, device |-> where]
TargetEntry(where, arch) == [device |-> where, arch |-> arch]

PlacementEntries ==
  { PlaceEntry("linear", "cuda"), PlaceEntry("linear", "cpu"), PlaceEntry("relu", "gpu"), PlaceEntry("relu", "unknown"),
    PlaceEntry("unknown", "cpu"), PlaceEntry("add", ""), PlaceEntry("linalg.matmul", "cuda") }
TargetEntries ==
  { TargetEntry("cpu", ""), TargetEntry("cpu", "sm_75"), TargetEntry("cuda", "sm_86"), TargetEntry("gpu", ""),
    TargetEntry("cuda", "unknown"), TargetEntry("unknown", "") }

AllLines ==
  {Line(targets, <<>>) : targets \in BoundedSeq(TargetEntries, 2)}
  \cup {Line(<<>>, placements) : placements \in BoundedSeq(PlacementEntries, 3)}
  \cup {Line(<<t>>, <<p>>) : t \in TargetEntries, p \in PlacementEntries}
Plain == Line(<<>>, <<>>)
KernelLines == {Plain, Line(<<>>, <<PlaceEntry("relu", "gpu")>>)}
LinalgLines ==
  { Plain, Line(<<>>, <<PlaceEntry("linear", "gpu")>>),
    Line(<<>>, <<PlaceEntry("relu", "cuda"), PlaceEntry("linalg.matmul", "cuda")>>) }

Jobs_(stages, opts, lines, inputs, graphs) ==
  [emit : stages, opt : opts, options : lines, input : inputs, graph : graphs]
Job(stages, lines, graphs) == Jobs_(stages, {FALSE}, lines, {"file"}, graphs)

-----------------------------------------------------------------------------
(* Two functions of usual ops for the kernel path. *)

KernelPieces ==
  { G("constant", <<>>, "none", TRUE, 1, 1), G("linear", <<1, 2>>, "none", TRUE, 1, 3),
    G("linear", <<2, 1>>, "cuda", TRUE, 1, 3), G("relu", <<1>>, "cpu", TRUE, 1, 2),
    G("relu", <<2>>, "none", TRUE, 1, 2), G("add", <<1, 1>>, "none", TRUE, 1, 3),
    G("print", <<1>>, "none", TRUE, 1, 2), G("return", <<>>, "none", TRUE, 1, 1) }
KernelGraphs ==
  {Pair(first, second) : first \in Verified_(KernelPieces, MaxBody), second \in Verified_(KernelPieces, 2)}

(* Two constants and then anything for the linalg path.  Values are 2x2, or 2x1
   for a shape that does not fit. *)
LinalgPieces ==
  { G("constant", <<>>, "cuda", TRUE, 2, 1),
    G("linear", <<1, 2>>, "none", TRUE, 2, 2), G("linear", <<1, 2>>, "cuda", TRUE, 2, 1),
    G("add", <<2, 1>>, "none", TRUE, 2, 2), G("relu", <<2>>, "none", TRUE, 2, 2),
    G("relu", <<3>>, "cuda", TRUE, 2, 2), G("relu", <<1>>, "gpu", TRUE, 2, 2),
    G("print", <<1>>, "none", TRUE, 0, 0), G("print", <<3>>, "none", TRUE, 0, 0),
    G("print", <<4>>, "none", TRUE, 0, 0), G("return", <<>>, "none", TRUE, 0, 0) }
Constants == <<G("constant", <<>>, "none", TRUE, 2, 2), G("constant", <<>>, "none", TRUE, 2, 2)>>
LinalgBodies(length) ==
  {ops \in {Constants \o rest : rest \in BoundedSeq(LinalgPieces, length)} : WellFormedGraph(Alone(ops))}
LinalgGraphs == {Alone(ops) : ops \in LinalgBodies(MaxLinalg)}
LinalgPairs  == {Pair(first, second) : first \in LinalgBodies(1), second \in LinalgBodies(1)}

(* Ops without a kernel or a pattern, ops of linalg, unranked results, devices that
   are aliases; bodies that do not verify. *)
OddPieces ==
  { G("constant", <<>>, "none", TRUE, 2, 2), G("constant", <<>>, "none", FALSE, 2, 2),
    G("constant", <<>>, "cuda", TRUE, 2, 2), G("relu", <<1>>, "gpu", TRUE, 2, 2),
    G("relu", <<1>>, "none", FALSE, 2, 2), G("other", <<1>>, "none", TRUE, 2, 2),
    G("other", <<1>>, "none", FALSE, 2, 2), G("fill", <<>>, "none", TRUE, 2, 2),
    G("fill", <<>>, "cuda", TRUE, 2, 2), G("relu", <<2>>, "none", TRUE, 2, 2),
    G("print", <<2>>, "none", TRUE, 0, 0), G("print", <<2>>, "none", FALSE, 0, 0) }
OddGraphs  == {Alone(ops) : ops \in BoundedSeq(OddPieces, 2)}
OddTriples == {Alone(ops) : ops \in Verified_(OddPieces, 3)}

(* Functions the pass of shapes looks at, or that are named like a kernel. *)
Relu(regular) == G("relu", <<1>>, "none", regular, 2, 2)
OtherKinds ==
  {g \in {<<Function("hexir.func", "main", ops)>> : ops \in Verified_(OddPieces, 3)} : Clean(g)}
Names_ == {"main", "linear_0", "relu_0", "relu_1"}
NamedGraphs ==
  {<<Function("func.func", first, Constants \o <<op>>), Function(kind, second, <<Constants[1], Relu(TRUE), G("print", <<2>>, "none", TRUE, 2, 2)>>)>> :
     first \in Names_, second \in Names_, kind \in {"func.func", "hexir.func"},
     op \in {G("linear", <<1, 2>>, "none", TRUE, 2, 2), G("add", <<1, 2>>, "none", TRUE, 2, 2)}}

-----------------------------------------------------------------------------
(* What every command line is tried on: each op placed and not, one graph that
   cannot be lowered and one that does not verify. *)
LineGraphs ==
  { Alone(Constants \o <<G("linear", <<1, 2>>, "none", TRUE, 2, 2), G("relu", <<3>>, "none", TRUE, 2, 2),
                         G("relu", <<4>>, "cpu", TRUE, 2, 2), G("add", <<3, 5>>, "none", TRUE, 2, 2)>>),
    Alone(<<Constants[1], G("other", <<1>>, "none", TRUE, 2, 2)>>),
    Alone(<<Relu(TRUE)>>) }

EveryStage == ToSet(Stages) \ {"none", "ast"}

MCJobs ==
  Job({"hxb"}, KernelLines, KernelGraphs)
  \cup Job({"hxb", "hetero"}, AllLines, LineGraphs)
  \cup Job({"hetero", "gpu", "llvm_ir"}, LinalgLines, LinalgGraphs)
  \cup Job({"linalg", "llvm_dialect"}, {Plain}, LinalgGraphs)
  \cup Job({"linalg", "gpu", "llvm_dialect"}, LinalgLines, LinalgPairs)
  \cup Job({"tir", "hxb", "gpu"}, KernelLines, OddTriples \cup NamedGraphs)
  \cup Jobs_(EveryStage, BOOLEAN, {Plain}, {"file"}, OddGraphs \cup OtherKinds)
  \cup Jobs_(EveryStage, {FALSE}, KernelLines \cup LinalgLines, {"built"}, {<<>>})
  \cup Jobs_({"none"}, {FALSE}, AllLines, {"built"}, {<<>>})
=============================================================================
