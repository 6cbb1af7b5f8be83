------------------------------ MODULE MCBench ------------------------------
(* Modules of one kernel of these shapes, and of two. *)
EXTENDS Bench, SequencesExt

CONSTANTS Shapes, MaxKernels, MaxArguments

Kernels == [kind : {"matmul", "relu"}, m : {s[1] : s \in Shapes}, n : {s[2] : s \in Shapes}]
Holding(executables, runs) ==
  [executables : {executables}, runs : runs, device : {"cpu", "cuda"}, rodata : Contents, fault : Faults]

(* Kernels that main runs, or that only another function does. *)
WithOne == UNION {Holding(<<k>>, {<<>>, <<1>>}) : k \in Kernels}
WithTwo ==
  UNION {Holding(<<k, [k EXCEPT !.kind = "relu", !.m = m]>>, {<<1, 2>>, <<2>>, <<1>>}) : k \in Kernels, m \in {1, 2}}
Some(where) ==
  [executables |-> <<[kind |-> "matmul", m |-> 2, n |-> 3]>>, runs |-> <<1>>, device |-> where,
   rodata |-> "operands", fault |-> "none"]
MCModules ==
  {Some("cpu"), Some("cuda")} \cup Holding(<<>>, {<<>>}) \cup WithOne
    \cup (IF MaxKernels < 2 THEN {} ELSE WithTwo)

Argument(option, value) == [option |-> option, value |-> value]
Flag(option, given) == IF given THEN <<Argument(option, "")>> ELSE <<>>

(* Every choice of options, each module in turn. *)
FullCommands ==
  {<<Argument("path", m), Argument("device", kind), Argument("iters", n)>>
     \o Flag("no_baseline", b) \o Flag("no_verify", v) :
     m \in MCModules, kind \in {"cpu", "cuda"}, n \in 1 .. 2, b \in BOOLEAN, v \in BOOLEAN}

(* Every short line, over two modules. *)
ShortArguments ==
  {Argument("path", Some(where)) : where \in {"cpu", "cuda"}}
  \cup {Argument("iters", n) : n \in {0, 1, 3}}
  \cup {Argument("device", kind) : kind \in {"cpu", "unknown"}}
  \cup {Argument(option, "") : option \in {"no_baseline", "no_verify", "unknown"}}
MCCommands == FullCommands \cup BoundedSeq(ShortArguments, MaxArguments)
SmallShapes == {<<1, 1>>, <<2, 3>>, <<128, 128>>, <<512, 512>>}
SweepShapes == {<<512, 512>>}
=============================================================================
