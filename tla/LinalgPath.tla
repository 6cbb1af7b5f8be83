----------------------------- MODULE LinalgPath -----------------------------
(***************************************************************************)
(* hexir -emit=mlir-linalg and beyond: what each of the passes             *)
(* (compiler/Conversion) makes of the module.  Tensors become buffers on   *)
(* the way, and the ops placed on cuda become gpu.launch kernels.          *)
(***************************************************************************)
EXTENDS Driver

(* HexirToLinalg.                                                            *)

InitOf(operation) == Append(operation.result, "init")

(* tensor.empty and linalg.fill: a new destination that is zero and not placed. *)
Fill(operation) ==
  [op |-> "fill", form |-> "linalg", of |-> operation.of, result |-> InitOf(operation),
   args |-> <<>>, dest |-> <<>>, device |-> "none", callee |-> 0]
(* An arith.constant full of zeros. *)
Zeros(operation) == [Fill(operation) EXCEPT !.op = "zeros", !.form = "std"]

(* Mutant: the attributes of the op are not carried over. *)
ToDestinationUnplaced(operation) ==
  [operation EXCEPT !.op = KernelOf(@), !.form = "linalg", !.dest = InitOf(operation), !.device = "none"]
(* Mutant: the operands are taken the wrong way round. *)
ToDestinationSwapped(operation) ==
  [operation EXCEPT !.op = KernelOf(@), !.form = "linalg", !.dest = InitOf(operation), !.args = Reverse(@)]
ToDestination(operation) ==
  [operation EXCEPT !.op = KernelOf(@), !.form = "linalg", !.dest = InitOf(operation)]

LinalgOf(operation) ==
  CASE operation.op \in {"linear", "add"} -> <<Fill(operation), ToDestination(operation)>>
    [] operation.op = "relu"     -> <<Zeros(operation), ToDestination(operation)>>
    [] operation.op = "constant" -> <<[operation EXCEPT !.form = "std", !.device = "none"]>>
    [] OTHER                     -> <<operation>>

(* What linalg verifies of the ops it is given. *)
Fits(v) ==
  LET operation == OpAt(Graph, v)
      Shape(a) == LET w == <<v[1], operation.args[a]>> IN <<OpAt(Graph, w).rows, OpAt(Graph, w).cols>>
      result == <<operation.rows, operation.cols>>
  IN CASE operation.op = "linear" -> Shape(1)[2] = Shape(2)[1] /\ result = <<Shape(1)[1], Shape(2)[2]>>
       [] operation.op = "add"    -> Shape(1) = result /\ Shape(2) = result
       [] operation.op = "relu"   -> Shape(1) = result
       [] OTHER                   -> TRUE

(* Only hexir.print may stay of the dialect: every other op needs a pattern, and
   the pattern a dense value or a ranked result. *)
Convertible ==
  /\ \A f \in DOMAIN Graph : Graph[f].kind = "func.func"
  /\ \A v \in Positions(Graph) :
       LET operation == OpAt(Graph, v)
       IN /\ operation.op # "other"
          /\ operation.op \in ComputeOps \cup {"constant"} => operation.regular
          /\ Fits(v)

ToLinalg ==
  /\ Running("to_linalg")
  /\ IF Convertible THEN Becomes(Rewritten(LinalgOf)) ELSE Fail

-----------------------------------------------------------------------------
(* Tensors to buffers (MLIR's one-shot bufferization): the result of an op is
   what its destination was, and a constant that is a destination is copied to a
   buffer first.  A print is built anew on the buffer, with its attributes. *)
BufferOf(value) ==
  LET makers == {i \in DOMAIN body : body[i].result = value /\ body[i].dest # <<>>}
  IN IF makers = {} THEN value ELSE body[CHOOSE i \in makers : TRUE].dest

OnBuffers(operation) ==
  [operation EXCEPT !.result = BufferOf(@), !.args = [a \in DOMAIN @ |-> BufferOf(@[a])]]

Bufferized(operation) ==
  <<IF operation.op = "zeros" THEN [operation EXCEPT !.op = "copied_zeros"] ELSE OnBuffers(operation)>>
Bufferize == Running("bufferize") /\ Becomes(Rewritten(Bufferized))

-----------------------------------------------------------------------------
(* CudaToGpu.                                                                *)

CudaOp(operation) == operation.form = "linalg" /\ operation.device = "cuda"

(* All but a fill read and write at the same indices. *)
Launchable(operation) == operation.op \in {"matmul", "add", "relu"}
Launch(operation) ==
  <<IF CudaOp(operation) THEN [operation EXCEPT !.form = "launch"] ELSE operation>>

CudaToGpu ==
  /\ Running("cuda_to_gpu")
  /\ LET refused == \E i \in DOMAIN body : CudaOp(body[i]) /\ ~Launchable(body[i])
     IN IF refused THEN Fail ELSE Becomes(Rewritten(Launch))

-----------------------------------------------------------------------------
(* The rest of the way (MLIR's own passes but for PrintOpLowering).          *)

Loop(operation) ==
  <<IF operation.form = "linalg" THEN [operation EXCEPT !.form = "loops", !.device = "none"]
    ELSE operation>>
ToLoops == Running("to_loops") /\ Becomes(Rewritten(Loop))

Outlined(operation) ==
  <<IF operation.form = "launch" THEN [operation EXCEPT !.form = "launch_func"] ELSE operation>>
Outline == Running("outline") /\ Becomes(Rewritten(Outlined))

(* HexirToLLVM keeps the GPU dialect; gpu-to-llvm comes after it. *)
Translated(operation) ==
  <<[operation EXCEPT !.form = IF @ = "launch_func" THEN "kernel" ELSE "llvm", !.device = "none"]>>
ToLLVM == Running("to_llvm") /\ Becomes(Rewritten(Translated))

(* gpu-module-to-binary needs a toolkit once there is a kernel. *)
ToBinary ==
  /\ Running("to_binary")
  /\ \/ Becomes(body)
     \/ (\E i \in DOMAIN body : body[i].form = "kernel") /\ Fail

LinalgNext ==
  ToLinalg \/ Bufferize \/ CudaToGpu \/ ToLoops \/ Outline \/ ToLLVM \/ ToBinary
=============================================================================
