----------------------------- MODULE KernelPath -----------------------------
(***************************************************************************)
(* hexir -emit=mlir-tir and -emit=hxb: LowerToTIR turns the compute ops    *)
(* into prim funcs one by one, and the serializer writes the module over   *)
(* the output file.  Serializer models that last walk; here it either      *)
(* refuses the module or writes it.                                        *)
(***************************************************************************)
EXTENDS Driver, HostProgram

CONSTANT
  Mangled(_, _)    (* the name of the prim func of an op, and its number   *)

(* `linear_0`: the name of its op, an underscore and its number. *)
ASSUME MangledAssumption == Mangled("linear", 0) # "main"

(* The compute ops LowerToTIR has still to lower. *)
Work == {i \in DOMAIN body : body[i].form = "hexir" /\ body[i].op \in ComputeOps}

(* Mutant: the counter is not advanced. *)
CalleeSame == 1

(* The prim func just created, counted through the module. *)
Callee == Len(prims) + 1

KernelName(op) == IF op = "linear" THEN "matmul" ELSE IF op = "add" THEN "add" ELSE "relu"

DeviceOf(operation) == IF operation.device = "none" THEN "cpu" ELSE operation.device

(* An operand is cast to a ranked tensor without a look at what it is. *)
CastIsWrong(operation) ==
  \E a \in DOMAIN operation.args : ~OpAt(Graph, operation.args[a]).regular

(* lowerOne: a prim func at the end of the module, and a call of it in place of
   the op, on the same operands. *)
LowerOne ==
  /\ Running("to_tir") /\ Work # {}
  /\ LET i == Min(Work)
         operation == body[i]
         result == Input(operation)
         lhs == OpAt(Graph, operation.args[1])
     IN CASE ~result.regular -> Fail
          [] result.regular /\ CastIsWrong(operation) ->
               Exit("undefined") /\ UNCHANGED <<job, command, module, file>>
          [] OTHER ->
               /\ prims' = Append(prims,
                    [kernel |-> KernelName(operation.op), device |-> DeviceOf(operation),
                     rank2 |-> TRUE, m |-> result.rows, n |-> result.cols,
                     k |-> IF operation.op = "linear" THEN lhs.cols ELSE 0])
               /\ body' = [body EXCEPT ![i].form = "call", ![i].callee = Callee]
               /\ UNCHANGED <<job, pc, command, passes, exit, file>>

(* The names are not made unique: one the input has already is found by the
   verifier that runs after the pass. *)
GeneratedNames ==
  LET calls == {i \in DOMAIN body : body[i].form = "call"}
  IN {Mangled(body[i].op, body[i].callee - 1) : i \in calls}
LoweringDone ==
  /\ Running("to_tir") /\ Work = {}
  /\ IF \E f \in DOMAIN Graph : Graph[f].name \in GeneratedNames THEN Fail ELSE Becomes(body)

-----------------------------------------------------------------------------
(* The output file: truncated when it is opened, written once the module has
   been serialized in memory. *)

(* What the serializer finds in place of an op of a function. *)
Found(operation) ==
  [op |-> IF operation.form = "call" THEN "call_tir"
          ELSE IF operation.op \in {"constant", "print", "return"} THEN operation.op
          ELSE "unsupported",
   args |-> [a \in DOMAIN operation.args |-> operation.args[a][2]],
   callee |-> IF operation.form = "call" THEN operation.callee ELSE 0,
   regular |-> Input(operation).regular, rows |-> Input(operation).rows, cols |-> Input(operation).cols]
OpsIn(f) == FlattenSeq([i \in DOMAIN body |-> IF body[i].of[1] = f THEN <<body[i]>> ELSE <<>>])
Compiled ==
  [prims |-> prims,
   funcs |-> [w \in DOMAIN Walked(Graph) |->
                LET f == Walked(Graph)[w]
                IN [name |-> Graph[f].name,
                    body |-> [i \in DOMAIN OpsIn(f) |-> Found(OpsIn(f)[i])]]]]

Open ==
  /\ pc = "open"
  /\ \/ Exit("failed") /\ UNCHANGED file
     \/ Goto("serialize") /\ file' = "empty"
  /\ UNCHANGED <<job, command, module>>

(* Mutant: the result of serializeToHXB is not looked at. *)
SerializeUnchecked ==
  /\ pc = "serialize"
  /\ \E source \in {Compiled} :
       \/ ~Serializable(source) /\ Exit("ok") /\ UNCHANGED file
       \/ Serializable(source) /\ Exit("ok") /\ file' = "module"
       \/ Serializable(source) /\ Exit("aborted") /\ file' = "partial"
  /\ UNCHANGED <<job, command, module>>

(* A stream that fails to write or close ends the process. *)
Serialize ==
  /\ pc = "serialize"
  /\ \E source \in {Compiled} :
       \/ ~Serializable(source) /\ Exit("failed") /\ UNCHANGED file
       \/ Serializable(source) /\ Exit("ok") /\ file' = "module"
       \/ Serializable(source) /\ Exit("aborted") /\ file' = "partial"
  /\ UNCHANGED <<job, command, module>>

KernelNext == LowerOne \/ LoweringDone \/ Open \/ Serialize
=============================================================================
