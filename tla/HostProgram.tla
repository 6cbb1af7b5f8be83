---------------------------- MODULE HostProgram -----------------------------
(***************************************************************************)
(* What a kernel-level module is serialized to, stated per operation: the  *)
(* commands each operation stands for, its slot and its place in RODATA    *)
(* given by what comes before it.  Serializer is shown to produce this.    *)
(***************************************************************************)
EXTENDS KernelModule, SequencesExt, FiniteSetsExt

OperationAt(s, v) == s.funcs[v[1]].body[v[2]]

StoredConstants(s) ==
  {v \in Positions(s.funcs) : OperationAt(s, v).op = "constant" /\ Used(s.funcs[v[1]].body, v[2])}
Stored(s) == StoredConstants(s) \cup {v \in Positions(s.funcs) : OperationAt(s, v).op = "call_tir"}

(* What can be serialized: every kernel has a descriptor and rank-2 buffers,
   and every operand that is used is a constant or a call of the same function. *)
Serializable(s) ==
  /\ \A p \in DOMAIN s.prims : s.prims[p].kernel # "missing" /\ s.prims[p].rank2
  /\ \A v \in Positions(s.funcs) :
       LET operation == OperationAt(s, v)
       IN /\ operation.op # "unsupported"
          /\ v \in StoredConstants(s) \/ operation.op = "print" => operation.regular
          /\ operation.op \in {"call_tir", "print"} =>
               \A a \in DOMAIN operation.args : <<v[1], operation.args[a]>> \in Stored(s)

(* One slot per stored value, numbered through the whole module. *)
Slot(s, v) == Cardinality({u \in Stored(s) : Before(u, v)})

(* Constants follow one another. *)
RodataSize(s, constants) == MapThenSumSet(LAMBDA u : Size(OperationAt(s, u)), constants)
(* Mutant: unused constants keep their room. *)
RodataOffsetOfAll(s, v) ==
  RodataSize(s, {u \in Positions(s.funcs) : OperationAt(s, u).op = "constant" /\ Before(u, v)})
RodataOffset(s, v) == RodataSize(s, {u \in StoredConstants(s) : Before(u, v)})

CommandsOf(s, v) ==
  LET operation == OperationAt(s, v)
      ArgSlot(a) == Slot(s, <<v[1], operation.args[a]>>)
  IN CASE v \in StoredConstants(s) ->
            <<[kind |-> "CONST", ops |-> <<Slot(s, v), RodataOffset(s, v), Size(operation)>>]>>
       [] operation.op = "call_tir" ->
            <<[kind |-> "ALLOC", ops |-> <<Slot(s, v), Size(operation)>>],
              [kind |-> "DISPATCH",
               ops |-> <<operation.callee - 1, Len(operation.args) + 1>>
                       \o [a \in DOMAIN operation.args |-> ArgSlot(a)] \o <<Slot(s, v)>>]>>
       [] operation.op = "print" ->
            <<[kind |-> "PRINT", ops |-> <<ArgSlot(1), operation.rows, operation.cols>>]>>
       [] OTHER -> <<>>

FunctionCommands(s, f) ==
  FlattenSeq([i \in DOMAIN s.funcs[f].body |-> CommandsOf(s, <<f, i>>)])
  \o <<[kind |-> "END", ops |-> <<>>]>>

FunctionOffset(s, f) ==
  MapThenSumSet(LAMBDA g : Len(FunctionCommands(s, g)), 1 .. f - 1)

(* Mutant: the device is the one there is an image for. *)
ExecutableByImage(prim, compiled) ==
  [kind |-> IF prim.kernel \in {"matmul", "add"} THEN prim.kernel ELSE "relu",
   device |-> IF compiled THEN "cuda" ELSE "cpu",
   m |-> prim.m % ExtentLimit, n |-> prim.n % ExtentLimit,
   k |-> IF prim.kernel = "matmul" THEN prim.k % ExtentLimit ELSE 0,
   image |-> IF compiled THEN "inside" ELSE "none"]
Executable(prim, compiled) ==
  [kind |-> IF prim.kernel \in {"matmul", "add"} THEN prim.kernel ELSE "relu",
   device |-> IF prim.device = "cuda" THEN "cuda" ELSE "cpu",
   m |-> prim.m % ExtentLimit, n |-> prim.n % ExtentLimit,
   k |-> IF prim.kernel = "matmul" THEN prim.k % ExtentLimit ELSE 0,
   image |-> IF compiled THEN "inside" ELSE "none"]

(* The sections of the module file, images being the compiled kernels. *)
SectionsOf(s, images) ==
  [symbols  |-> "present",
   names    |-> [f \in DOMAIN s.funcs |->
                   [name |-> ShortName(s.funcs[f].name), offset |-> FunctionOffset(s, f)]],
   program  |-> "present",
   commands |-> FlattenSeq([f \in DOMAIN s.funcs |-> FunctionCommands(s, f)]),
   hasRodata |-> TRUE,
   rodata   |-> RodataSize(s, StoredConstants(s)),
   exeTable |-> "fits",
   exes     |-> [p \in DOMAIN s.prims |-> Executable(s.prims[p], p \in images)]]
=============================================================================
