-------------------------- MODULE GpuKernelProofs ---------------------------
(***************************************************************************)
(* Proofs about GpuKernel, for every kernel and every block limit.         *)
(***************************************************************************)
EXTENDS GpuKernel, SequenceTheorems, TLAPS

-----------------------------------------------------------------------------
(* Arithmetic. *)

(* The block size divides the extent. *)
LEMMA BlockSizeDivides ==
  ASSUME NEW n \in Nat
  PROVE  ChooseBlockSize(n) \in BlockSizes /\ n % ChooseBlockSize(n) = 0
<1>1. n % 1 = 0
  OBVIOUS
<1>2. \E b \in BlockSizes : n % b = 0 /\ \A c \in BlockSizes : c > b => n % c # 0
  BY <1>1 DEF BlockSizes
<1>3. QED
  BY <1>2 DEF ChooseBlockSize

(* Tiles of b columns: each column is in one place of one tile. *)
LEMMA Tiling ==
  ASSUME NEW n \in Nat, NEW b \in BlockSizes, n % b = 0
  PROVE  /\ n \div b \in Nat
         /\ \A x \in 0 .. (n \div b) - 1, y \in 0 .. b - 1 : x * b + y \in 0 .. n - 1
         /\ \A x, u \in 0 .. (n \div b) - 1, y, v \in 0 .. b - 1 :
              x * b + y = u * b + v => x = u /\ y = v
         /\ \A c \in 0 .. n - 1 :
              /\ c \div b \in 0 .. (n \div b) - 1 /\ c % b \in 0 .. b - 1
              /\ (c \div b) * b + (c % b) = c
BY DEF BlockSizes

(* Rows of n columns: each address is one column of one row. *)
LEMMA RowMajor ==
  ASSUME NEW m \in Nat, NEW n \in Nat, NEW r \in 0 .. m - 1, NEW c \in 0 .. n - 1
  PROVE  /\ r * n + c \in 0 .. m * n - 1
         /\ (r * n + c) \div n = r /\ (r * n + c) % n = c
  OBVIOUS

LEMMA RowAndColumn ==
  ASSUME NEW m \in Nat, NEW n \in Nat, NEW e \in 0 .. m * n - 1
  PROVE  /\ e \div n \in 0 .. m - 1 /\ e % n \in 0 .. n - 1
         /\ (e \div n) * n + (e % n) = e
  OBVIOUS

-----------------------------------------------------------------------------
(* The launch. *)

LEMMA KernelShape ==
  ASSUME kernel \in Kernels
  PROVE  /\ M \in Nat /\ N \in Nat /\ K \in Nat /\ Steps \in Nat
         /\ BlockSize \in BlockSizes /\ N % BlockSize = 0 /\ N \div BlockSize \in Nat
<1>1. kernel \in KernelType
  BY KernelsAssumption
<1>2. M \in Nat /\ N \in Nat /\ K \in Nat
  BY <1>1 DEF KernelType, M, N, K
<1>3. Steps \in Nat
  BY <1>2 DEF Steps
<1>4. BlockSize \in BlockSizes /\ N % BlockSize = 0
  BY <1>2, BlockSizeDivides DEF BlockSize
<1>5. QED
  BY <1>2, <1>3, <1>4, Tiling

(* Each loop is the only one on its axis: its extent is the launch dimension. *)
LEMMA MatmulThreads ==
  ASSUME kernel \in Kernels, kernel.kind = "matmul"
  PROVE  /\ Threads = [block_x  : 0 .. (N \div BlockSize) - 1,
                       block_y  : 0 .. M - 1,
                       thread_x : 0 .. BlockSize - 1]
         /\ LaunchDimension("block_y") = M /\ LaunchDimension("thread_x") = BlockSize
<1>1. Axes = <<"block_y", "block_x", "thread_x">>
  BY DEF Axes
<1>2. Extents = <<M, N \div BlockSize, BlockSize>>
  BY DEF Extents
<1>3. LaunchDimension("block_y") = M
  <2>1. {d \in DOMAIN Axes : Axes[d] = "block_y"} = {1}
    BY <1>1
  <2>2. (CHOOSE d \in {1} : \A e \in {1} : e <= d) = 1
    OBVIOUS
  <2>3. QED
    BY <1>2, <2>1, <2>2 DEF LaunchDimension
<1>4. LaunchDimension("block_x") = N \div BlockSize
  <2>1. {d \in DOMAIN Axes : Axes[d] = "block_x"} = {2}
    BY <1>1
  <2>2. (CHOOSE d \in {2} : \A e \in {2} : e <= d) = 2
    OBVIOUS
  <2>3. QED
    BY <1>2, <2>1, <2>2 DEF LaunchDimension
<1>5. LaunchDimension("thread_x") = BlockSize
  <2>1. {d \in DOMAIN Axes : Axes[d] = "thread_x"} = {3}
    BY <1>1
  <2>2. (CHOOSE d \in {3} : \A e \in {3} : e <= d) = 3
    OBVIOUS
  <2>3. QED
    BY <1>2, <2>1, <2>2 DEF LaunchDimension
<1>6. QED
  BY <1>3, <1>4, <1>5 DEF Threads

LEMMA ElementwiseThreads ==
  ASSUME kernel \in Kernels, kernel.kind # "matmul"
  PROVE  /\ Threads = [block_x : 0 .. M - 1, block_y : 0 .. 0, thread_x : 0 .. N - 1]
         /\ LaunchDimension("block_y") = 1 /\ LaunchDimension("thread_x") = N
<1>1. Axes = <<"block_x", "thread_x">>
  BY DEF Axes
<1>2. Extents = <<M, N>>
  BY DEF Extents
<1>3. LaunchDimension("block_x") = M
  <2>1. {d \in DOMAIN Axes : Axes[d] = "block_x"} = {1}
    BY <1>1
  <2>2. (CHOOSE d \in {1} : \A e \in {1} : e <= d) = 1
    OBVIOUS
  <2>3. QED
    BY <1>2, <2>1, <2>2 DEF LaunchDimension
<1>4. LaunchDimension("thread_x") = N
  <2>1. {d \in DOMAIN Axes : Axes[d] = "thread_x"} = {2}
    BY <1>1
  <2>2. (CHOOSE d \in {2} : \A e \in {2} : e <= d) = 2
    OBVIOUS
  <2>3. QED
    BY <1>2, <2>1, <2>2 DEF LaunchDimension
<1>5. LaunchDimension("block_y") = 1
  <2>1. {d \in DOMAIN Axes : Axes[d] = "block_y"} = {}
    BY <1>1
  <2>2. QED
    BY <2>1 DEF LaunchDimension
<1>6. 0 .. 1 - 1 = 0 .. 0
  OBVIOUS
<1>7. QED
  BY <1>3, <1>4, <1>5, <1>6, Zenon DEF Threads

(* What keeps a kernel from being launched. *)
LEMMA Limits ==
  ASSUME kernel \in Kernels, ~Launchable
  PROVE  \/ M = 0 \/ N = 0
         \/ kernel.kind = "matmul" /\ M > MaxGridY
         \/ kernel.kind # "matmul" /\ N > MaxThreads
<1>1. M \in Nat /\ N \in Nat /\ BlockSize \in BlockSizes /\ N % BlockSize = 0
  BY KernelShape
<1>2. CASE kernel.kind = "matmul"
  <2>1. BlockSize \in 1 .. MaxThreads
    BY <1>1, ThreadsAssumption DEF BlockSizes
  <2>2. SUFFICES ASSUME M # 0, N # 0 PROVE Threads # {}
    BY <1>1, <1>2, <2>1, MatmulThreads, ThreadsAssumption DEF Launchable
  <2>3. N \div BlockSize >= 1
    BY <1>1, <2>2 DEF BlockSizes
  <2>4. [block_x |-> 0, block_y |-> 0, thread_x |-> 0] \in Threads
    <3>1. Threads = [block_x  : 0 .. (N \div BlockSize) - 1,
                     block_y  : 0 .. M - 1,
                     thread_x : 0 .. BlockSize - 1]
      BY <1>2, MatmulThreads
    <3>2. 0 \in 0 .. (N \div BlockSize) - 1 /\ 0 \in 0 .. M - 1 /\ 0 \in 0 .. BlockSize - 1
      BY <1>1, <2>1, <2>2, <2>3
    <3>3. QED
      BY <3>1, <3>2, Zenon
  <2>5. QED
    BY <2>4
<1>3. CASE kernel.kind # "matmul"
  <2>1. SUFFICES ASSUME M # 0, N # 0 PROVE Threads # {}
    BY <1>1, <1>3, ElementwiseThreads, ThreadsAssumption DEF Launchable
  <2>2. [block_x |-> 0, block_y |-> 0, thread_x |-> 0] \in Threads
    <3>1. Threads = [block_x : 0 .. M - 1, block_y : 0 .. 0, thread_x : 0 .. N - 1]
      BY <1>3, ElementwiseThreads
    <3>2. 0 \in 0 .. M - 1 /\ 0 \in 0 .. 0 /\ 0 \in 0 .. N - 1
      BY <1>1, <2>1
    <3>3. QED
      BY <3>1, <3>2, Zenon
  <2>3. QED
    BY <2>2
<1>4. QED
  BY <1>2, <1>3

(* Row and Column are a bijection of the threads with the destination. *)
LEMMA Grid ==
  ASSUME kernel \in Kernels
  PROVE  /\ \A t \in Threads : Row(t) \in 0 .. M - 1 /\ Column(t) \in 0 .. N - 1
         /\ \A t, u \in Threads : Row(t) = Row(u) /\ Column(t) = Column(u) => t = u
         /\ \A r \in 0 .. M - 1, c \in 0 .. N - 1 :
              \E t \in Threads : Row(t) = r /\ Column(t) = c
<1>1. CASE kernel.kind = "matmul"
  <2>1. Threads = [block_x  : 0 .. (N \div BlockSize) - 1,
                   block_y  : 0 .. M - 1,
                   thread_x : 0 .. BlockSize - 1]
    BY <1>1, MatmulThreads
  <2>2. \A t : /\ Row(t) = t["block_y"]
               /\ Column(t) = t["block_x"] * BlockSize + t["thread_x"]
    BY <1>1 DEF Row, Column, Iv, Axes
  <2>3. /\ M \in Nat /\ N \in Nat /\ N \div BlockSize \in Nat
        /\ BlockSize \in BlockSizes /\ N % BlockSize = 0
    BY KernelShape
  <2>4. /\ \A x \in 0 .. (N \div BlockSize) - 1, y \in 0 .. BlockSize - 1 :
             x * BlockSize + y \in 0 .. N - 1
        /\ \A x, u \in 0 .. (N \div BlockSize) - 1, y, v \in 0 .. BlockSize - 1 :
             x * BlockSize + y = u * BlockSize + v => x = u /\ y = v
        /\ \A c \in 0 .. N - 1 :
             /\ c \div BlockSize \in 0 .. (N \div BlockSize) - 1
             /\ c % BlockSize \in 0 .. BlockSize - 1
             /\ (c \div BlockSize) * BlockSize + (c % BlockSize) = c
    BY <2>3, Tiling
  <2>5. ASSUME NEW t \in Threads
        PROVE  Row(t) \in 0 .. M - 1 /\ Column(t) \in 0 .. N - 1
    BY <2>1, <2>2, <2>4
  <2>6. ASSUME NEW t \in Threads, NEW u \in Threads, Row(t) = Row(u), Column(t) = Column(u)
        PROVE  t = u
    <3>1. t["block_y"] = u["block_y"]
      BY <2>2, <2>6
    <3>2. t["block_x"] = u["block_x"] /\ t["thread_x"] = u["thread_x"]
      BY <2>1, <2>2, <2>4, <2>6
    <3>3. QED
      BY <2>1, <3>1, <3>2
  <2>7. ASSUME NEW r \in 0 .. M - 1, NEW c \in 0 .. N - 1
        PROVE  \E t \in Threads : Row(t) = r /\ Column(t) = c
    <3> DEFINE t == [block_x |-> c \div BlockSize, block_y |-> r,
                     thread_x |-> c % BlockSize]
    <3>1. t \in Threads
      BY <2>1, <2>4
    <3>2. Row(t) = r /\ Column(t) = c
      BY <2>2, <2>4
    <3>3. QED
      BY <3>1, <3>2
  <2>8. QED
    BY <2>5, <2>6, <2>7
<1>2. CASE kernel.kind # "matmul"
  <2>1. Threads = [block_x : 0 .. M - 1, block_y : 0 .. 0, thread_x : 0 .. N - 1]
    BY <1>2, ElementwiseThreads
  <2>2. \A t : Row(t) = t["block_x"] /\ Column(t) = t["thread_x"]
    BY <1>2 DEF Row, Column, Iv, Axes
  <2>3. ASSUME NEW t \in Threads
        PROVE  Row(t) \in 0 .. M - 1 /\ Column(t) \in 0 .. N - 1
    BY <2>1, <2>2
  <2>4. ASSUME NEW t \in Threads, NEW u \in Threads, Row(t) = Row(u), Column(t) = Column(u)
        PROVE  t = u
    BY <2>1, <2>2, <2>4
  <2>5. ASSUME NEW r \in 0 .. M - 1, NEW c \in 0 .. N - 1
        PROVE  \E t \in Threads : Row(t) = r /\ Column(t) = c
    <3> DEFINE t == [block_x |-> r, block_y |-> 0, thread_x |-> c]
    <3>1. t \in Threads
      BY <2>1
    <3>2. Row(t) = r /\ Column(t) = c
      BY <2>2
    <3>3. QED
      BY <3>1, <3>2
  <2>6. QED
    BY <2>3, <2>4, <2>5
<1>3. QED
  BY <1>1, <1>2

(* A target's row and column can be read back from it. *)
LEMMA TargetSplits ==
  ASSUME kernel \in Kernels, NEW t \in Threads
  PROVE  /\ Target(t) \in Elements /\ Target(t) \in Nat
         /\ Target(t) \div N = Row(t) /\ Target(t) % N = Column(t)
<1>1. M \in Nat /\ N \in Nat
  BY KernelShape
<1>2. Row(t) \in 0 .. M - 1 /\ Column(t) \in 0 .. N - 1
  BY Grid
<1>3. /\ Row(t) * N + Column(t) \in 0 .. M * N - 1
      /\ (Row(t) * N + Column(t)) \div N = Row(t)
      /\ (Row(t) * N + Column(t)) % N = Column(t)
  BY ZenonT(40), <1>1, <1>2, RowMajor
<1>4. Row(t) * N + Column(t) \in Nat
  BY <1>1, <1>2
<1>5. QED
  BY <1>3, <1>4 DEF Target, Elements

(* So is Target, and a thread's terms are those of the reference kernel. *)
LEMMA Targets ==
  ASSUME kernel \in Kernels
  PROVE  /\ \A t \in Threads : Target(t) \in Elements
         /\ \A t, u \in Threads : Target(t) = Target(u) => t = u
         /\ \A e \in Elements : \E t \in Threads : Target(t) = e
<1>1. M \in Nat /\ N \in Nat
  BY KernelShape
<1>3. ASSUME NEW t \in Threads
      PROVE  Target(t) \in Elements /\ Target(t) \div N = Row(t) /\ Target(t) % N = Column(t)
  BY TargetSplits
<1>4. ASSUME NEW t \in Threads, NEW u \in Threads, Target(t) = Target(u)
      PROVE  t = u
  <2>1. Row(t) = Row(u) /\ Column(t) = Column(u)
    BY <1>3, <1>4
  <2>2. QED
    BY <2>1, Grid
<1>5. ASSUME NEW e \in Elements
      PROVE  \E t \in Threads : Target(t) = e
  <2>1. /\ e \div N \in 0 .. M - 1 /\ e % N \in 0 .. N - 1
        /\ (e \div N) * N + (e % N) = e
    BY <1>1, RowAndColumn DEF Elements
  <2>2. PICK t \in Threads : Row(t) = e \div N /\ Column(t) = e % N
    BY <2>1, Grid
  <2>3. QED
    BY <2>1, <2>2 DEF Target
<1>6. QED
  BY <1>3, <1>4, <1>5

LEMMA Pair ==
  ASSUME NEW a \in Nat, NEW b \in Nat
  PROVE  <<a, b>> \in Seq(Nat)
  OBVIOUS

LEMMA TermsAreReference ==
  ASSUME kernel \in Kernels, NEW t \in Threads
  PROVE  /\ Reference(Target(t)) \in Seq(Seq(Nat))
         /\ Len(Reference(Target(t))) = Steps
         /\ \A s \in 0 .. Steps - 1 :
              /\ Term(t, s) \in Seq(Nat)
              /\ Term(t, s) = Reference(Target(t))[s + 1]
<1>1. M \in Nat /\ N \in Nat /\ K \in Nat
  BY KernelShape
<1>2. Row(t) \in 0 .. M - 1 /\ Column(t) \in 0 .. N - 1
  BY Grid
<1>3. /\ Target(t) \in Nat
      /\ Target(t) \div N = Row(t) /\ Target(t) % N = Column(t)
  BY TargetSplits
<1>4. CASE kernel.kind = "matmul"
  <2> DEFINE R == [p \in 1 .. K |-> <<Row(t) * K + (p - 1), (p - 1) * N + Column(t)>>]
  <2>1. Reference(Target(t)) = R
    BY <1>3, <1>4 DEF Reference
  <2>2. Steps = K
    BY <1>4 DEF Steps
  <2>3. ASSUME NEW s \in 0 .. K - 1
        PROVE  /\ Row(t) * K + s \in Nat /\ s * N + Column(t) \in Nat
               /\ Term(t, s) = <<Row(t) * K + s, s * N + Column(t)>>
    BY <1>1, <1>2, <1>4 DEF Term
  <2>4. \A p \in 1 .. K : p - 1 \in 0 .. K - 1
    BY <1>1
  <2>5. \A p \in 1 .. K : R[p] \in Seq(Nat)
    BY <2>3, <2>4
  <2>6. R \in Seq(Seq(Nat)) /\ Len(R) = K
    BY <1>1, <2>5
  <2>7. ASSUME NEW s \in 0 .. K - 1
        PROVE  Term(t, s) \in Seq(Nat) /\ Term(t, s) = R[s + 1]
    <3>1. s + 1 \in 1 .. K /\ (s + 1) - 1 = s
      BY <1>1
    <3>2. R[s + 1] = <<Row(t) * K + s, s * N + Column(t)>>
      BY <3>1
    <3>3. <<Row(t) * K + s, s * N + Column(t)>> \in Seq(Nat)
      BY <2>3, Pair, Zenon
    <3>4. QED
      BY <2>3, <3>2, <3>3, Zenon
  <2>8. QED
    BY <2>1, <2>2, <2>6, <2>7
<1>5. CASE kernel.kind # "matmul"
  <2>1. Reference(Target(t)) = << <<Target(t)>> >> /\ Steps = 1
    BY <1>5 DEF Reference, Steps
  <2>2. \A s : Term(t, s) = <<Target(t)>>
    BY <1>5 DEF Term
  <2>3. <<Target(t)>> \in Seq(Nat)
    BY <1>3
  <2>4. << <<Target(t)>> >> \in Seq(Seq(Nat)) /\ Len(<< <<Target(t)>> >>) = 1
    BY <2>3
  <2>5. ASSUME NEW s \in 0 .. Steps - 1
        PROVE  Term(t, s) \in Seq(Nat) /\ Term(t, s) = Reference(Target(t))[s + 1]
    <3>1. s = 0
      BY <2>1
    <3>2. Reference(Target(t))[1] = <<Target(t)>>
      BY <2>1
    <3>3. Reference(Target(t))[s + 1] = <<Target(t)>>
      BY <3>1, <3>2
    <3>4. QED
      BY <2>2, <2>3, <3>3, Zenon
  <2>6. Reference(Target(t)) \in Seq(Seq(Nat)) /\ Len(Reference(Target(t))) = Steps
    BY <2>1, <2>4
  <2>7. QED
    BY <2>5, <2>6
<1>6. QED
  BY <1>4, <1>5

-----------------------------------------------------------------------------
(* The kernel and its block limit fix everything but the run. *)
LEMMA Static ==
  ASSUME kernel' = kernel
  PROVE  /\ Threads' = Threads /\ Steps' = Steps /\ Elements' = Elements
         /\ \A t : Target(t)' = Target(t)
         /\ \A e : Reference(e)' = Reference(e)
         /\ Launchable' = Launchable
<1>1. M' = M /\ N' = N /\ K' = K
  BY DEF M, N, K
<1>2. BlockSize' = BlockSize
  BY <1>1 DEF BlockSize, ChooseBlockSize
<1>3. Extents' = Extents /\ Axes' = Axes
  BY <1>1, <1>2 DEF Extents, Axes
<1>4. Threads' = Threads
  BY <1>3 DEF Threads, LaunchDimension
<1>5. Steps' = Steps /\ Elements' = Elements
  BY <1>1 DEF Steps, Elements
<1>6. \A t : Row(t)' = Row(t) /\ Column(t)' = Column(t)
  BY <1>2, <1>3 DEF Row, Column, Iv
<1>7. \A t : Target(t)' = Target(t)
  BY <1>1, <1>6 DEF Target
<1>8. \A e : Reference(e)' = Reference(e)
  BY <1>1 DEF Reference
<1>9. Launchable' = Launchable
  BY <1>3, <1>4 DEF Launchable, LaunchDimension
<1>10. QED
  BY <1>4, <1>5, <1>7, <1>8, <1>9

LEMMA InitInvariant == Init => IInv
<1> SUFFICES ASSUME Init PROVE IInv
  OBVIOUS
<1>1. TypeOK
  BY DEF Init, TypeOK
<1>2. Sums /\ AllDone /\ Refused /\ WrittenIsReference
  BY DEF Init, Sums, AllDone, Refused, WrittenIsReference
<1>3. QED
  BY <1>1, <1>2 DEF IInv

LEMMA LaunchPreserves == IInv /\ Launch => IInv'
<1> SUFFICES ASSUME IInv, Launch PROVE IInv'
  OBVIOUS
<1>1. /\ Threads' = Threads /\ Steps' = Steps /\ Elements' = Elements
      /\ \A t : Target(t)' = Target(t)
      /\ \A e : Reference(e)' = Reference(e)
      /\ Launchable' = Launchable
  BY Static DEF Launch
<1>2. kernel \in Kernels /\ kernel' = kernel /\ dst' = dst /\ Steps \in Nat
  BY KernelShape DEF IInv, TypeOK, Launch
<1>3. WrittenIsReference'
  BY <1>1, <1>2 DEF IInv, WrittenIsReference
<1>4. CASE Launchable
  <2>1. /\ stage' = "running"
        /\ at' = [t \in Threads |-> 0] /\ acc' = [t \in Threads |-> <<>>]
    BY <1>4 DEF Launch
  <2>2. at' \in [Threads -> 0 .. Steps + 1] /\ acc' \in [Threads -> Seq(Seq(Nat))]
    BY <1>2, <2>1
  <2>3. TypeOK'
    BY <1>1, <1>2, <2>1, <2>2 DEF IInv, TypeOK
  <2>4. Sums' /\ AllDone' /\ Refused'
    BY <1>1, <1>2, <2>1 DEF Sums, AllDone, Refused
  <2>5. QED
    BY <1>3, <2>3, <2>4 DEF IInv
<1>5. CASE ~Launchable
  <2>1. stage' = "refused"
    BY <1>5 DEF Launch
  <2>2. TypeOK' /\ Sums' /\ AllDone'
    BY <1>1, <1>2, <2>1 DEF IInv, TypeOK, Sums, AllDone
  <2>3. Refused'
    BY <1>1, <1>5 DEF Refused
  <2>4. QED
    BY <1>3, <2>2, <2>3 DEF IInv
<1>6. QED
  BY <1>4, <1>5

LEMMA AccumulatePreserves ==
  ASSUME IInv, NEW t \in Threads, Accumulate(t)
  PROVE  IInv'
<1>1. /\ Threads' = Threads /\ Steps' = Steps /\ Elements' = Elements
      /\ \A u : Target(u)' = Target(u)
      /\ \A e : Reference(e)' = Reference(e)
      /\ Launchable' = Launchable
  BY Static DEF Accumulate
<1>2. /\ kernel \in Kernels /\ kernel' = kernel /\ dst' = dst
      /\ stage = "running" /\ stage' = "running"
      /\ at \in [Threads -> 0 .. Steps + 1] /\ acc \in [Threads -> Seq(Seq(Nat))]
      /\ dst \in [Elements -> Seq(Seq(Nat)) \cup {None}]
  BY DEF IInv, TypeOK, Accumulate
<1>3. Steps \in Nat
  BY <1>2, KernelShape
<1>4. at[t] \in 0 .. Steps - 1
  BY <1>2, <1>3 DEF Accumulate
<1>5. Term(t, at[t]) \in Seq(Nat) /\ Term(t, at[t]) = Reference(Target(t))[at[t] + 1]
  BY <1>2, <1>4, TermsAreReference
<1>6. /\ at' = [at EXCEPT ![t] = at[t] + 1]
      /\ acc' = [acc EXCEPT ![t] = Append(acc[t], Term(t, at[t]))]
  BY DEF Accumulate
<1>7. at' \in [Threads -> 0 .. Steps + 1] /\ acc' \in [Threads -> Seq(Seq(Nat))]
  BY <1>2, <1>3, <1>4, <1>5, <1>6
<1>8. TypeOK'
  BY <1>1, <1>2, <1>7 DEF TypeOK
<1>9. Sums'
  <2>1. /\ Len(acc[t]) = at[t]
        /\ \A s \in 1 .. Len(acc[t]) : acc[t][s] = Reference(Target(t))[s]
    BY <1>2, <1>3, <1>4 DEF IInv, Sums
  <2>2. /\ acc'[t] = Append(acc[t], Term(t, at[t])) /\ at'[t] = at[t] + 1
        /\ Len(acc'[t]) = at'[t] /\ at'[t] # Steps + 1
    BY <1>2, <1>3, <1>4, <1>5, <1>6, <2>1
  <2>3. \A s \in 1 .. Len(acc'[t]) : acc'[t][s] = Reference(Target(t))[s]
    BY <1>2, <1>4, <1>5, <2>1, <2>2
  <2>4. ASSUME NEW u \in Threads, u # t
        PROVE  /\ acc'[u] = acc[u] /\ at'[u] = at[u]
               /\ Len(acc[u]) = (IF at[u] = Steps + 1 THEN Steps ELSE at[u])
               /\ \A s \in 1 .. Len(acc[u]) : acc[u][s] = Reference(Target(u))[s]
               /\ at[u] = Steps + 1 => dst[Target(u)] # None
    BY <1>2, <1>6, <2>4 DEF IInv, Sums
  <2>5. ASSUME NEW u \in Threads
        PROVE  /\ Len(acc'[u]) = (IF at'[u] = Steps + 1 THEN Steps ELSE at'[u])
               /\ \A s \in 1 .. Len(acc'[u]) : acc'[u][s] = Reference(Target(u))[s]
               /\ at'[u] = Steps + 1 => dst'[Target(u)] # None
    BY ZenonT(40), <1>2, <2>2, <2>3, <2>4
  <2>6. QED
    BY <1>1, <2>5 DEF Sums
<1>10. AllDone' /\ Refused' /\ WrittenIsReference'
  BY <1>1, <1>2 DEF IInv, AllDone, Refused, WrittenIsReference
<1>11. QED
  BY <1>8, <1>9, <1>10 DEF IInv

(* What is stored is a whole register, so a whole sum. *)
LEMMA StorePreserves ==
  ASSUME IInv, NEW t \in Threads, Store(t)
  PROVE  IInv'
<1>1. /\ Threads' = Threads /\ Steps' = Steps /\ Elements' = Elements
      /\ \A u : Target(u)' = Target(u)
      /\ \A e : Reference(e)' = Reference(e)
      /\ Launchable' = Launchable
  BY Static DEF Store
<1>2. /\ kernel \in Kernels /\ kernel' = kernel /\ acc' = acc
      /\ stage = "running" /\ stage' = "running"
      /\ at \in [Threads -> 0 .. Steps + 1] /\ acc \in [Threads -> Seq(Seq(Nat))]
      /\ dst \in [Elements -> Seq(Seq(Nat)) \cup {None}]
  BY DEF IInv, TypeOK, Store
<1>3. Steps \in Nat /\ at[t] = Steps /\ Target(t) \in Elements
  BY <1>2, KernelShape, Targets DEF Store
<1>4. at' = [at EXCEPT ![t] = Steps + 1] /\ dst' = [dst EXCEPT ![Target(t)] = acc[t]]
  BY <1>3 DEF Store
<1>5. acc[t] \in Seq(Seq(Nat)) /\ acc[t] # None
  BY <1>2, ThreadsAssumption
<1>6. acc[t] = Reference(Target(t))
  <2>1. /\ Len(acc[t]) = Steps
        /\ \A s \in 1 .. Len(acc[t]) : acc[t][s] = Reference(Target(t))[s]
    BY <1>2, <1>3 DEF IInv, Sums
  <2>2. Reference(Target(t)) \in Seq(Seq(Nat)) /\ Len(Reference(Target(t))) = Steps
    BY <1>2, TermsAreReference
  <2>3. QED
    BY <1>5, <2>1, <2>2, SeqEqual
<1>7. TypeOK'
  BY <1>1, <1>2, <1>3, <1>4, <1>5 DEF IInv, TypeOK
<1>8. WrittenIsReference'
  BY <1>1, <1>2, <1>3, <1>4, <1>6 DEF IInv, WrittenIsReference
<1>9. Sums'
  <2>1. \A e \in Elements : dst[e] # None => dst'[e] # None
    BY <1>2, <1>3, <1>4, <1>5
  <2>2. \A u \in Threads : Target(u) \in Elements
    BY <1>2, Targets
  <2>3. at'[t] = Steps + 1 /\ dst'[Target(t)] # None
    BY <1>2, <1>3, <1>4, <1>5
  <2>4. ASSUME NEW u \in Threads
        PROVE  /\ Len(acc'[u]) = (IF at'[u] = Steps + 1 THEN Steps ELSE at'[u])
               /\ \A s \in 1 .. Len(acc'[u]) : acc'[u][s] = Reference(Target(u))[s]
               /\ at'[u] = Steps + 1 => dst'[Target(u)] # None
    <3>1. CASE u = t
      BY <1>2, <1>3, <2>3, <3>1 DEF IInv, Sums
    <3>2. CASE u # t
      <4>1. at'[u] = at[u]
        BY <1>2, <1>4, <3>2
      <4>2. QED
        BY <1>2, <2>1, <2>2, <4>1 DEF IInv, Sums
    <3>3. QED
      BY <3>1, <3>2
  <2>5. QED
    BY <1>1, <2>4 DEF Sums
<1>10. AllDone' /\ Refused'
  BY <1>2 DEF AllDone, Refused
<1>11. QED
  BY <1>7, <1>8, <1>9, <1>10 DEF IInv

LEMMA FinishPreserves == IInv /\ Finish => IInv'
<1> SUFFICES ASSUME IInv, Finish PROVE IInv'
  OBVIOUS
<1>1. /\ Threads' = Threads /\ Steps' = Steps /\ Elements' = Elements
      /\ \A u : Target(u)' = Target(u)
      /\ \A e : Reference(e)' = Reference(e)
      /\ Launchable' = Launchable
  BY Static DEF Finish
<1>2. /\ kernel' = kernel /\ at' = at /\ acc' = acc /\ dst' = dst
      /\ stage = "running" /\ stage' = "finished"
      /\ \A t \in Threads : at[t] = Steps + 1
  BY DEF Finish
<1>3. TypeOK'
  BY <1>1, <1>2 DEF IInv, TypeOK
<1>4. Sums' /\ AllDone' /\ Refused' /\ WrittenIsReference'
  BY <1>1, <1>2 DEF IInv, Sums, AllDone, Refused, WrittenIsReference
<1>5. QED
  BY <1>3, <1>4 DEF IInv

LEMMA StutterPreserves == IInv /\ UNCHANGED vars => IInv'
<1> SUFFICES ASSUME IInv, UNCHANGED vars PROVE IInv'
  OBVIOUS
<1>1. /\ Threads' = Threads /\ Steps' = Steps /\ Elements' = Elements
      /\ \A u : Target(u)' = Target(u)
      /\ \A e : Reference(e)' = Reference(e)
      /\ Launchable' = Launchable
  BY Static DEF vars
<1>2. /\ kernel' = kernel /\ at' = at /\ acc' = acc /\ dst' = dst /\ stage' = stage
  BY DEF vars
<1>3. QED
  BY <1>1, <1>2 DEF IInv, TypeOK, Sums, AllDone, Refused, WrittenIsReference

-----------------------------------------------------------------------------
(* The invariant holds in every reachable state. *)
THEOREM Invariance == Spec => []IInv
<1>1. Init => IInv
  BY InitInvariant
<1>2. IInv /\ [Next]_vars => IInv'
  <2> SUFFICES ASSUME IInv, [Next]_vars PROVE IInv'
    OBVIOUS
  <2>1. CASE Launch
    BY <2>1, LaunchPreserves
  <2>2. CASE Finish
    BY <2>2, FinishPreserves
  <2>3. ASSUME NEW t \in Threads, Accumulate(t) PROVE IInv'
    BY <2>3, AccumulatePreserves
  <2>4. ASSUME NEW t \in Threads, Store(t) PROVE IInv'
    BY <2>4, StorePreserves
  <2>5. CASE UNCHANGED vars
    BY <2>5, StutterPreserves
  <2>6. QED
    BY <2>1, <2>2, <2>3, <2>4, <2>5 DEF Next
<1>3. QED
  BY <1>1, <1>2, PTL DEF Spec

(* Every variable keeps its type: no thread runs past its last term. *)
THEOREM TypeCorrectness == Spec => []TypeOK
<1>1. IInv => TypeOK
  BY DEF IInv
<1>2. QED
  BY <1>1, Invariance, PTL

(* buildMatmulBody and buildElementwiseBody: every element a launch has
   written is the reference kernel's, for every shape and every order of the
   threads. *)
THEOREM Agreement == Spec => []WrittenIsReference
<1>1. IInv => WrittenIsReference
  BY DEF IInv
<1>2. QED
  BY <1>1, Invariance, PTL

(* chooseBlockSize: the tiles cover the destination of every shape, so a
   kernel that ends has written all of it; and a launch is refused for an empty
   matrix, too many rows of a matmul or too many columns of the others, only. *)
THEOREM Coverage == Spec => []Covers
<1>1. IInv => Covers
  <2>1. ASSUME IInv, stage = "finished", NEW e \in Elements
        PROVE  dst[e] # None
    <3>1. PICK t \in Threads : Target(t) = e
      BY <2>1, Targets DEF IInv, TypeOK
    <3>2. QED
      BY <2>1, <3>1 DEF IInv, AllDone, Sums
  <2>2. ASSUME IInv, stage = "refused"
        PROVE  \/ M = 0 \/ N = 0
               \/ kernel.kind = "matmul" /\ M > MaxGridY
               \/ kernel.kind # "matmul" /\ N > MaxThreads
    BY <2>2, Limits DEF IInv, TypeOK, Refused
  <2>3. QED
    BY <2>1, <2>2 DEF Covers
<1>2. QED
  BY <1>1, Invariance, PTL

(* There is no bounds guard in the kernel and none is needed: no thread of any
   launch addresses anything outside its buffers. *)
THEOREM Containment == Spec => []StaysInside
<1>1. IInv => StaysInside
  <2> SUFFICES ASSUME IInv, NEW t \in Threads
               PROVE  /\ Target(t) \in Elements
                      /\ \A s \in 0 .. Steps - 1 : \A o \in DOMAIN OperandSizes :
                           Term(t, s)[o] < OperandSizes[o]
    BY DEF StaysInside
  <2>1. kernel \in Kernels
    BY DEF IInv, TypeOK
  <2>2. M \in Nat /\ N \in Nat /\ K \in Nat
    BY <2>1, KernelShape
  <2>3. Row(t) \in 0 .. M - 1 /\ Column(t) \in 0 .. N - 1
    BY <2>1, Grid
  <2>4. Target(t) \in Elements
    BY <2>1, TargetSplits
  <2>5. ASSUME NEW s \in 0 .. Steps - 1, NEW o \in DOMAIN OperandSizes
        PROVE  Term(t, s)[o] < OperandSizes[o]
    <3>1. CASE kernel.kind = "matmul"
      <4>1. s \in 0 .. K - 1
        BY <3>1 DEF Steps
      <4>2. Row(t) * K + s \in 0 .. M * K - 1
        BY <2>2, <2>3, <4>1, RowMajor
      <4>3. s * N + Column(t) \in 0 .. K * N - 1
        BY <2>2, <2>3, <4>1, RowMajor
      <4>4. /\ OperandSizes = <<M * K, K * N>>
            /\ Term(t, s) = <<Row(t) * K + s, s * N + Column(t)>>
        BY <3>1 DEF OperandSizes, Term
      <4>5. QED
        BY <2>2, <4>2, <4>3, <4>4
    <3>2. CASE kernel.kind # "matmul"
      <4>1. OperandSizes = <<M * N>> /\ Term(t, s) = <<Target(t)>>
        BY <3>2 DEF OperandSizes, Term
      <4>2. QED
        BY <2>2, <2>4, <4>1 DEF Elements
    <3>3. QED
      BY <3>1, <3>2
  <2>6. QED
    BY <2>4, <2>5
<1>2. QED
  BY <1>1, Invariance, PTL

(* No two threads of a launch store to one address. *)
THEOREM RaceFreedom == Spec => []NoRaces
<1>1. IInv => NoRaces
  BY Targets DEF IInv, TypeOK, NoRaces
<1>2. QED
  BY <1>1, Invariance, PTL
=============================================================================
