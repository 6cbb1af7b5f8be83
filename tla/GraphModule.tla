---------------------------- MODULE GraphModule ----------------------------
(***************************************************************************)
(* The graph-level IR the compiler is given, and what `hexir -emit=hxb`    *)
(* makes of it before serialization, stated per operation: where each op   *)
(* is placed, and the kernel-level module it becomes.  Hexir is shown to   *)
(* produce this.                                                           *)
(***************************************************************************)
EXTENDS KernelModule, SequencesExt, FiniteSetsExt

ComputeOps == {"linear", "add", "relu"}
LinalgOps  == {"linalg.matmul", "linalg.add", "linalg.generic"}

(* device: the attribute in the input, if any.  regular: a constant whose value is
   dense and of its type, a print of a rank-2 tensor, a ranked result.  "other" is
   any op of the dialect with no kernel, "fill" any op of linalg. *)
GraphOpType ==
  [op : ComputeOps \cup {"constant", "print", "return", "other", "fill"},
   args : Seq(Nat), device : Devices \cup {"gpu", "none"},
   regular : BOOLEAN, rows : Nat, cols : Nat]

GraphType == Seq([kind : {"func.func", "hexir.func"}, name : STRING, body : Seq(GraphOpType)])

OpAt(g, v)   == g[v[1]].body[v[2]]
Compute(g)   == {v \in Positions(g) : OpAt(g, v).op \in ComputeOps}

(* -placement entries and -target entries, as split by the driver; "" is a part
   that is missing. *)
PlacementType == [op : ComputeOps \cup LinalgOps \cup {"unknown", ""}, device : Devices \cup {"gpu", "unknown", ""}]
TargetType    == [device : Devices \cup {"gpu", "unknown"}, arch : {"", "sm_75", "sm_86", "unknown"}]
OptionsType   == [targets : Seq(TargetType), placements : Seq(PlacementType), gpuChip : {"sm_75", "sm_80"}]

Alias(device) == IF device = "gpu" THEN "cuda" ELSE device

-----------------------------------------------------------------------------
(* Where an op runs: where the input says, else where the last -placement entry
   for it says, else on the cpu. *)
Placement(options, operation) ==
  LET entries == {i \in DOMAIN options.placements : options.placements[i].op = operation.op}
  IN IF operation.device # "none" THEN operation.device
     ELSE IF entries = {} THEN "cpu"
     ELSE Alias(options.placements[Max(entries)].device)

(* The architecture device code is compiled for. *)
Chip(options) ==
  LET entries == {i \in DOMAIN options.targets : options.targets[i].arch # ""}
  IN IF entries = {} THEN options.gpuChip ELSE options.targets[Max(entries)].arch

KernelOf(op) == IF op = "linear" THEN "matmul" ELSE op

(* The kernel an op becomes: the extents are its result's, and a matmul's k the
   columns of its left operand. *)
(* Mutant: the extents are swapped. *)
PrimOfTransposed(g, v, device) ==
  LET operation == OpAt(g, v)
  IN [kernel |-> KernelOf(operation.op), device |-> device, rank2 |-> TRUE,
      m |-> operation.cols, n |-> operation.rows,
      k |-> IF operation.op = "linear" THEN OpAt(g, <<v[1], operation.args[1]>>).cols ELSE 0]
PrimOf(g, v, device) ==
  LET operation == OpAt(g, v)
  IN [kernel |-> KernelOf(operation.op), device |-> device, rank2 |-> TRUE,
      m |-> operation.rows, n |-> operation.cols,
      k |-> IF operation.op = "linear" THEN OpAt(g, <<v[1], operation.args[1]>>).cols ELSE 0]

CallOf(operation, callee) ==
  [op |-> IF operation.op \in ComputeOps THEN "call_tir"
          ELSE IF operation.op \in {"other", "fill"} THEN "unsupported" ELSE operation.op,
   args |-> operation.args, callee |-> callee, regular |-> operation.regular,
   rows |-> operation.rows, cols |-> operation.cols]

(* The serializer walks functions of the func dialect only. *)
Walked(g) == FlattenSeq([f \in DOMAIN g |-> IF g[f].kind = "func.func" THEN <<f>> ELSE <<>>])

(* One prim func per compute op, in the order of the ops; everything else stays
   where it is. *)
PrimIndex(g, v) ==
  IF v \in Compute(g) THEN Cardinality({u \in Compute(g) : ~Before(v, u)}) ELSE 0
Lowered(g, options) ==
  [prims |-> [p \in 1 .. Cardinality(Compute(g)) |->
                LET v == CHOOSE v \in Compute(g) : PrimIndex(g, v) = p
                IN PrimOf(g, v, Placement(options, OpAt(g, v)))],
   funcs |-> [w \in DOMAIN Walked(g) |->
                LET f == Walked(g)[w]
                IN [name |-> g[f].name,
                    body |-> [i \in DOMAIN g[f].body |->
                                CallOf(g[f].body[i], PrimIndex(g, <<f, i>>))]]]]

-----------------------------------------------------------------------------
(* What a body computes: the value of each of its operations, given the values
   of its constants and the functions its operations apply. *)
Meaning(body, ConstantAt(_), KernelAt(_), Apply(_, _)) ==
  LET value[i \in DOMAIN body] ==
        LET inputs == [a \in DOMAIN body[i].args |-> value[body[i].args[a]]]
        IN CASE body[i].op = "constant" -> ConstantAt(i)
             [] KernelAt(i) \in KernelKinds -> Apply(KernelAt(i), inputs)
             [] OTHER -> <<>>
  IN value

(* What MLIR and the dialect verify before any pass sees the graph: operands are
   results of earlier ops, as many as the op is defined with, a return is last, a
   constant is what its type says, an op of linalg is ranked, and functions have
   different names.  The shapes of the others are not looked at. *)
WellFormedGraph(g) ==
  /\ \A e, f \in DOMAIN g : g[e].name = g[f].name => e = f
  /\ \A v \in Positions(g) :
       LET operation == OpAt(g, v)
           body == g[v[1]].body
       IN /\ \A a \in DOMAIN operation.args :
               /\ operation.args[a] \in 1 .. v[2] - 1
               /\ body[operation.args[a]].op \notin {"print", "return"}
          /\ Len(operation.args) = CASE operation.op \in {"linear", "add"} -> 2
                                     [] operation.op \in {"relu", "print"} -> 1
                                     [] operation.op = "constant" -> 0
                                     [] OTHER -> Len(operation.args)
          /\ operation.op \in {"constant", "fill"} => operation.regular
          /\ operation.op = "return" => v[2] = Len(body)
=============================================================================
