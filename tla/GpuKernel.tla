----------------------------- MODULE GpuKernel -----------------------------
(***************************************************************************)
(* A kernel placed on cuda, from its loop nest to the threads that run it. *)
(* LowerToTIR (compiler/Conversion/HexirToTIR) writes the nest and binds   *)
(* its parallel loops to hardware axes; HexTIRToGPU turns each bound loop  *)
(* into a launch dimension; cuda_launch starts grid x block threads, which *)
(* run in any order and write the destination buffer.  The reference       *)
(* kernels of the runtime say what the buffer must hold.                   *)
(*                                                                         *)
(* Buffers are addressed row-major and a value is the list of terms summed *)
(* into it, each the addresses loaded for it: floating point is not        *)
(* associative, so the order matters.                                      *)
(***************************************************************************)
EXTENDS Integers, Sequences

CONSTANTS
  Kernels,      (* the kernels explored: KernelType                        *)
  MaxThreads,   (* what the driver accepts in a block: 1024                *)
  MaxGridY,     (* and in a grid's y dimension: 65535                      *)
  None          (* an element that is not written yet                      *)

(* The destination's rows and columns, and the columns of a matmul's left
   operand: the serializer takes rank-2 buffers only. *)
KernelType == [kind : {"matmul", "add", "relu"}, m : Nat, n : Nat, k : Nat]

ASSUME KernelsAssumption == Kernels \subseteq KernelType
ASSUME ThreadsAssumption ==
  /\ MaxThreads \in Nat /\ MaxThreads >= 256 (* the largest block size chosen *)
  /\ MaxGridY \in Nat \ {0}
  /\ None \notin Seq(Seq(Nat))

VARIABLES
  kernel,    (* never changes                                              *)
  stage,     (* ready, refused, running or finished                        *)
  at,        (* the next step of each thread                               *)
  acc,       (* the register each thread sums in                           *)
  dst        (* the destination buffer                                     *)

vars == <<kernel, stage, at, acc, dst>>

-----------------------------------------------------------------------------
(* LowerToTIR: the loop nest.                                                *)

M == kernel.m
N == kernel.n
K == kernel.k

BlockSizes == {1, 2, 4, 8, 16, 32, 64, 128, 256}

(* Mutant: a block size that need not divide the extent. *)
ChooseAnyBlockSize(extent) == IF extent >= 2 THEN 2 ELSE 1

(* The largest power of two up to 256 that divides the extent. *)
ChooseBlockSize(extent) ==
  CHOOSE b \in BlockSizes :
    extent % b = 0 /\ \A c \in BlockSizes : c > b => extent % c # 0

BlockSize == ChooseBlockSize(N)

(* Mutant: the tiles are counted as if the last one were cut off. *)
ExtentsRounded ==
  IF kernel.kind = "matmul" THEN <<M, N \div BlockSize + 1, BlockSize>> ELSE <<M, N>>

(* The parallel loops, outermost first: extents, and the axes they are bound to. *)
Extents == IF kernel.kind = "matmul" THEN <<M, N \div BlockSize, BlockSize>> ELSE <<M, N>>

(* Mutant: rows are blockIdx.y in every kernel. *)
AxesOfMatmul ==
  IF kernel.kind = "matmul" THEN <<"block_y", "block_x", "thread_x">> ELSE <<"block_y", "thread_x">>

Axes ==
  IF kernel.kind = "matmul" THEN <<"block_y", "block_x", "thread_x">> ELSE <<"block_x", "thread_x">>

-----------------------------------------------------------------------------
(* HexTIRToGPU: a bound loop sets its axis's launch dimension, over an earlier
   loop's; an axis no loop is bound to has one.  Its induction variable is the
   hardware index. *)

LaunchDimension(axis) ==
  LET bound == {d \in DOMAIN Axes : Axes[d] = axis}
  IN IF bound = {} THEN 1
     ELSE Extents[CHOOSE d \in bound : \A e \in bound : e <= d]

Threads ==
  [block_x  : 0 .. LaunchDimension("block_x") - 1,
   block_y  : 0 .. LaunchDimension("block_y") - 1,
   thread_x : 0 .. LaunchDimension("thread_x") - 1]

Iv(t, d) == t[Axes[d]]

(* Mutant: the tile's offset is missing. *)
ColumnInTile(t) == IF kernel.kind = "matmul" THEN Iv(t, 2) + Iv(t, 3) ELSE Iv(t, 2)

Row(t)    == Iv(t, 1)
Column(t) == IF kernel.kind = "matmul" THEN Iv(t, 2) * BlockSize + Iv(t, 3) ELSE Iv(t, 2)

(* The address a thread stores to, the terms it sums, and how many. *)
Target(t) == Row(t) * N + Column(t)

(* Mutant: the right operand is read by rows. *)
TermTransposed(t, s) ==
  IF kernel.kind = "matmul" THEN <<Row(t) * K + s, Column(t) * K + s>>
  ELSE <<Target(t)>>

Term(t, s) ==
  IF kernel.kind = "matmul" THEN <<Row(t) * K + s, s * N + Column(t)>>
  ELSE <<Target(t)>>

Steps == IF kernel.kind = "matmul" THEN K ELSE 1

-----------------------------------------------------------------------------
(* The reference kernels of the runtime.                                     *)

Elements == 0 .. M * N - 1

Reference(e) ==
  IF kernel.kind = "matmul"
  THEN [p \in 1 .. K |-> <<(e \div N) * K + (p - 1), (p - 1) * N + (e % N)>>]
  ELSE << <<e>> >>

-----------------------------------------------------------------------------
Launchable ==
  /\ Threads # {}
  /\ LaunchDimension("thread_x") <= MaxThreads
  /\ LaunchDimension("block_y") <= MaxGridY

Launch ==
  /\ stage = "ready"
  /\ IF Launchable
     THEN /\ stage' = "running"
          /\ at' = [t \in Threads |-> 0] /\ acc' = [t \in Threads |-> <<>>]
     ELSE stage' = "refused" /\ UNCHANGED <<at, acc>>
  /\ UNCHANGED <<kernel, dst>>

(* Mutant: the inner loop has no exit test. *)
AccumulateUnbounded(t) ==
  /\ stage = "running"
  /\ acc' = [acc EXCEPT ![t] = Append(@, Term(t, at[t]))]
  /\ at' = [at EXCEPT ![t] = @ + 1]
  /\ UNCHANGED <<kernel, stage, dst>>

Accumulate(t) ==
  /\ stage = "running" /\ at[t] < Steps
  /\ acc' = [acc EXCEPT ![t] = Append(@, Term(t, at[t]))]
  /\ at' = [at EXCEPT ![t] = @ + 1]
  /\ UNCHANGED <<kernel, stage, dst>>

Store(t) ==
  /\ stage = "running" /\ at[t] = Steps
  /\ dst' = [dst EXCEPT ![Target(t)] = acc[t]]
  /\ at' = [at EXCEPT ![t] = @ + 1]
  /\ UNCHANGED <<kernel, stage, acc>>

Finish ==
  /\ stage = "running" /\ \A t \in Threads : at[t] = Steps + 1
  /\ stage' = "finished"
  /\ UNCHANGED <<kernel, at, acc, dst>>

Init ==
  /\ kernel \in Kernels
  /\ stage = "ready" /\ at = <<>> /\ acc = <<>>
  /\ dst = [e \in Elements |-> None]

Next == Launch \/ Finish \/ \E t \in Threads : Accumulate(t) \/ Store(t)

Spec == Init /\ [][Next]_vars

-----------------------------------------------------------------------------
(* Properties.                                                               *)

TypeOK ==
  /\ kernel \in Kernels
  /\ stage \in {"ready", "refused", "running", "finished"}
  /\ stage \in {"running", "finished"} =>
       /\ at \in [Threads -> 0 .. Steps + 1]
       /\ acc \in [Threads -> Seq(Seq(Nat))]
  /\ dst \in [Elements -> Seq(Seq(Nat)) \cup {None}]

(* What is in the destination is right at every moment, whatever the order the
   threads run in: the same terms, summed in the same order, as the reference
   kernel's. *)
WrittenIsReference ==
  \A e \in DOMAIN dst : dst[e] # None => dst[e] = Reference(e)

(* When the kernel is over every element is written: the launch covers the
   destination although the kernel has no bounds guard.  The one that is never
   launched is of an empty matrix, a matmul of more rows than a grid has, or
   elementwise over more columns than a block has: no other extent matters. *)
Covers ==
  /\ stage = "finished" => \A e \in Elements : dst[e] # None
  /\ stage = "refused" =>
       \/ M = 0 \/ N = 0
       \/ kernel.kind = "matmul" /\ M > MaxGridY
       \/ kernel.kind # "matmul" /\ N > MaxThreads

(* No thread loads or stores outside the buffers. *)
OperandSizes == IF kernel.kind = "matmul" THEN <<M * K, K * N>> ELSE <<M * N>>
StaysInside ==
  stage = "ready" =>
    \A t \in Threads :
      /\ Target(t) \in Elements
      /\ \A s \in 0 .. Steps - 1 : \A o \in DOMAIN OperandSizes :
           Term(t, s)[o] < OperandSizes[o]

(* No two threads store to the same address, so no order of the stores can
   matter. *)
NoRaces ==
  stage = "ready" => \A t, u \in Threads : Target(t) = Target(u) => t = u

(* A kernel over a matrix that is not empty is accepted: program.h:78, a matrix
   wider than a block spreads across blocks. *)
WideMatricesLaunch ==
  stage = "refused" => M = 0 \/ N = 0

(* A thread's register is a prefix of its terms, and a thread that has left the
   loop has written its element. *)
Sums ==
  stage \in {"running", "finished"} =>
    \A t \in Threads :
      /\ Len(acc[t]) = (IF at[t] = Steps + 1 THEN Steps ELSE at[t])
      /\ \A s \in 1 .. Len(acc[t]) : acc[t][s] = Reference(Target(t))[s]
      /\ at[t] = Steps + 1 => dst[Target(t)] # None

AllDone == stage = "finished" => \A t \in Threads : at[t] = Steps + 1

Refused == stage = "refused" => ~Launchable

(* The inductive invariant. *)
IInv == TypeOK /\ Sums /\ AllDone /\ Refused /\ WrittenIsReference
=============================================================================
