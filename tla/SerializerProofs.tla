-------------------------- MODULE SerializerProofs --------------------------
(***************************************************************************)
(* Proofs about Serializer, for every module it is given.  Commands are    *)
(* only ever appended, so each fact about the program splits into what the *)
(* old commands keep and what the new ones need: AddCommands.  SlotTable   *)
(* is what makes the facts inductive: every slot handed out is below the   *)
(* counter, and a value of the current function has its binding command    *)
(* after the last END.                                                     *)
(* That what is written is what HostProgram states needs more: at every    *)
(* step the sections are those of the operations visited so far (Follows). *)
(* HostProgram counts and sums over sets of operations, so one operation   *)
(* visited is one element more (SeenNext), whose slot and place in RODATA  *)
(* are the counters' (NextOnes).                                           *)
(***************************************************************************)
EXTENDS WrittenModule, ListLemmas, SequenceTheorems, FiniteSetTheorems, TLAPS

(* BoundBeforeUse, whatever the slot. *)
UsesAreBound ==
  \A j \in DOMAIN program : \A slot \in Nat :
    UsesSlot(program[j], slot) =>
      \E i \in 1 .. j - 1 :
        Binds(i, slot) /\ \A e \in i .. j - 1 : program[e].kind # "END"

(* What every step keeps. *)
IInv == source \in Sources /\ TypeOK /\ CommandsWellFormed /\ SlotsBoundOnce /\ UsesAreBound /\ SlotTable

-----------------------------------------------------------------------------
(* The program after an append. *)
LEMMA Appended ==
  ASSUME NEW p \in Seq(CommandType), NEW q \in Seq(CommandType)
  PROVE  /\ p \o q \in Seq(CommandType)
         /\ Len(p \o q) = Len(p) + Len(q)
         /\ \A i \in 1 .. Len(p) : (p \o q)[i] = p[i]
         /\ \A i \in 1 .. Len(q) : (p \o q)[Len(p) + i] = q[i]
<1>1. /\ p \o q \in Seq(CommandType)
      /\ Len(p \o q) = Len(p) + Len(q)
      /\ \A i \in 1 .. Len(p) + Len(q) :
           (p \o q)[i] = IF i <= Len(p) THEN p[i] ELSE q[i - Len(p)]
  BY ConcatProperties
<1>2. Len(p) \in Nat /\ Len(q) \in Nat
  OBVIOUS
<1>3. ASSUME NEW i \in 1 .. Len(q) PROVE (p \o q)[Len(p) + i] = q[i]
  <2>1. Len(p) + i \in 1 .. Len(p) + Len(q) /\ ~(Len(p) + i <= Len(p))
    BY <1>2
  <2>2. (Len(p) + i) - Len(p) = i
    BY <1>2
  <2>3. QED
    BY <1>1, <2>1, <2>2
<1>4. QED
  BY <1>1, <1>2, <1>3

(* A single command is a list of commands. *)
LEMMA OneCommand ==
  ASSUME NEW c \in CommandType
  PROVE  \E q \in Seq(CommandType) : q = <<c>>
<1>1. <<c>> \in Seq(CommandType)
  OBVIOUS
<1>2. QED
  BY <1>1

(* Every new command binds the slot that is being handed out, at most one does,
   and a slot it uses is bound by one of them or by a value of this function. *)
LEMMA AddCommands ==
  ASSUME IInv,
         NEW q \in Seq(CommandType), program' = program \o q,
         exes' = exes, rodata' \in Nat, rodata <= rodata',
         nextSlot' \in Nat, nextSlot <= nextSlot',
         \A i \in DOMAIN q : WellFormed(q[i])',
         \A i \in DOMAIN q :
           IsBind(q[i]) => q[i].ops[1] = nextSlot /\ nextSlot' = nextSlot + 1,
         \A i, j \in DOMAIN q : IsBind(q[i]) /\ IsBind(q[j]) => i = j,
         \A j \in DOMAIN q : \A slot \in Nat :
           UsesSlot(q[j], slot) =>
             /\ \A e \in 1 .. j - 1 : q[e].kind # "END"
             /\ \/ \E i \in 1 .. j - 1 : IsBind(q[i]) /\ q[i].ops[1] = slot
                \/ \E v \in DOMAIN slotOf : v[1] = fn /\ slotOf[v] = slot
  PROVE  /\ program' \in Seq(CommandType)
         /\ CommandsWellFormed' /\ SlotsBoundOnce' /\ UsesAreBound'
         /\ \A i \in DOMAIN program' : IsBind(program'[i]) => program'[i].ops[1] < nextSlot'
<1>0. PICK N \in Nat : N = Len(program)
  BY DEF IInv, TypeOK
<1>1. /\ program \in Seq(CommandType) /\ rodata \in Nat /\ nextSlot \in Nat
      /\ N = Len(program) /\ N \in Nat /\ DOMAIN program = 1 .. N /\ DOMAIN q = 1 .. Len(q) /\ Len(q) \in Nat
  BY <1>0 DEF IInv, TypeOK
<1>2. /\ program' \in Seq(CommandType)
      /\ Len(program') = N + Len(q)
      /\ \A i \in 1 .. N : program'[i] = program[i]
      /\ \A i \in 1 .. Len(q) : program'[N + i] = q[i]
  BY <1>1, Appended
<1>3. /\ DOMAIN program' = 1 .. N + Len(q)
      /\ \A i \in DOMAIN program' : i \in 1 .. N \/ \E j \in 1 .. Len(q) : i = N + j
  <2>1. DOMAIN program' = 1 .. N + Len(q)
    BY <1>2
  <2>2. ASSUME NEW i \in 1 .. N + Len(q), i \notin 1 .. N
        PROVE  \E j \in 1 .. Len(q) : i = N + j
    <3>1. i - N \in 1 .. Len(q) /\ i = N + (i - N)
      BY <1>1, <2>2
    <3>2. QED
      BY <3>1
  <2>3. QED
    BY <2>1, <2>2
<1>4. CommandsWellFormed'
  <2>1. ASSUME NEW i \in 1 .. N PROVE WellFormed(program[i])'
    <3>1. program'[i] = program[i] /\ program[i] \in CommandType
      BY <1>1, <1>2
    <3>2. WellFormed(program[i])
      BY <1>1 DEF IInv, CommandsWellFormed
    <3>3. program[i].ops \in Seq(Nat)
      BY <3>1 DEF CommandType
    <3>4. program[i].kind = "CONST" => Len(program[i].ops) = 3
      BY <3>2 DEF WellFormed
    <3>5. ASSUME Len(program[i].ops) = 3
          PROVE  program[i].ops[2] \in Nat /\ program[i].ops[3] \in Nat
      <4>1. 2 \in 1 .. Len(program[i].ops) /\ 3 \in 1 .. Len(program[i].ops)
        BY <3>5
      <4>2. QED
        BY <3>3, <4>1, ElementOfSeq
    <3>6. QED
      BY <1>1, <3>1, <3>2, <3>4, <3>5 DEF WellFormed
  <2>2. ASSUME NEW j \in 1 .. Len(q) PROVE WellFormed(program[N + j])'
    <3>1. program'[N + j] = q[j]
      BY <1>2
    <3>2. WellFormed(q[j])'
      BY <1>1
    <3>3. QED
      BY <3>1, <3>2 DEF WellFormed
  <2>3. QED
    BY <1>3, <2>1, <2>2 DEF CommandsWellFormed
<1>5. ASSUME NEW i \in 1 .. N, IsBind(program[i])
      PROVE  program[i].ops[1] \in Nat /\ program[i].ops[1] < nextSlot
  <2>1. i \in DOMAIN program /\ program[i] \in CommandType
    BY <1>1
  <2>2. WellFormed(program[i]) /\ program[i].ops[1] < nextSlot
    BY <1>5, <2>1 DEF IInv, CommandsWellFormed, SlotTable
  <2>3. program[i].ops \in Seq(Nat)
    BY <2>1 DEF CommandType
  <2>4. Len(program[i].ops) \in {2, 3}
    BY <1>5, <2>2 DEF WellFormed, IsBind
  <2>5. QED
    BY <2>2, <2>3, <2>4, ElementOfSeq
<1>6. \A i \in DOMAIN program' : IsBind(program'[i]) => program'[i].ops[1] < nextSlot'
  <2>1. ASSUME NEW i \in 1 .. N, IsBind(program'[i])
        PROVE  program'[i].ops[1] < nextSlot'
    BY <1>1, <1>2, <1>5, <2>1
  <2>2. ASSUME NEW j \in 1 .. Len(q), IsBind(program'[N + j])
        PROVE  program'[N + j].ops[1] < nextSlot'
    <3>1. program'[N + j] = q[j]
      BY <1>2
    <3>2. IsBind(q[j]) /\ j \in DOMAIN q
      BY <1>1, <2>2, <3>1
    <3>3. q[j].ops[1] = nextSlot /\ nextSlot' = nextSlot + 1
      BY <3>2
    <3>4. QED
      BY <1>1, <3>1, <3>3
  <2>3. QED
    BY <1>3, <2>1, <2>2
<1>7. SlotsBoundOnce'
  <2>1. SUFFICES ASSUME NEW i \in DOMAIN program', NEW j \in DOMAIN program',
                        IsBind(program'[i]), IsBind(program'[j]),
                        program'[i].ops[1] = program'[j].ops[1]
                 PROVE  i = j
    BY DEF SlotsBoundOnce, IsBind
  <2>2. CASE i \in 1 .. N /\ j \in 1 .. N
    BY <1>1, <1>2, <2>1, <2>2 DEF IInv, SlotsBoundOnce
  <2>3. CASE i \in 1 .. N /\ j \notin 1 .. N
    <3>1. PICK b \in 1 .. Len(q) : j = N + b
      BY <1>3, <2>3
    <3>2. q[b].ops[1] = nextSlot
      BY <1>1, <1>2, <2>1, <3>1
    <3>3. QED
      BY <1>1, <1>2, <1>5, <2>1, <2>3, <3>1, <3>2
  <2>4. CASE i \notin 1 .. N /\ j \in 1 .. N
    <3>1. PICK b \in 1 .. Len(q) : i = N + b
      BY <1>3, <2>4
    <3>2. q[b].ops[1] = nextSlot
      BY <1>1, <1>2, <2>1, <3>1
    <3>3. QED
      BY <1>1, <1>2, <1>5, <2>1, <2>4, <3>1, <3>2
  <2>5. CASE i \notin 1 .. N /\ j \notin 1 .. N
    <3>1. PICK a \in 1 .. Len(q), b \in 1 .. Len(q) : i = N + a /\ j = N + b
      BY <1>3, <2>5
    <3>2. IsBind(q[a]) /\ IsBind(q[b])
      BY <1>2, <2>1, <3>1
    <3>3. QED
      BY <1>1, <3>1, <3>2
  <2>6. QED
    BY <2>2, <2>3, <2>4, <2>5
<1>8. UsesAreBound'
  <2>1. SUFFICES ASSUME NEW j \in DOMAIN program', NEW slot \in Nat,
                        UsesSlot(program'[j], slot)
                 PROVE  \E i \in 1 .. j - 1 :
                          /\ IsBind(program'[i]) /\ program'[i].ops[1] = slot
                          /\ \A e \in i .. j - 1 : program'[e].kind # "END"
    BY DEF UsesAreBound, Binds, IsBind, UsesSlot
  <2>2. CASE j \in 1 .. N
    <3>1. UsesSlot(program[j], slot)
      BY <1>2, <2>1, <2>2
    <3>2. PICK i \in 1 .. j - 1 :
            Binds(i, slot) /\ \A e \in i .. j - 1 : program[e].kind # "END"
      BY <1>1, <2>2, <3>1 DEF IInv, UsesAreBound
    <3>3. i \in 1 .. N /\ \A e \in i .. j - 1 : e \in 1 .. N
      BY <1>1, <2>2
    <3>4. \A e \in i .. j - 1 : program'[e].kind # "END"
      BY <1>2, <3>2, <3>3
    <3>5. IsBind(program'[i]) /\ program'[i].ops[1] = slot
      BY <1>2, <3>2, <3>3 DEF Binds
    <3>6. QED
      BY <3>4, <3>5
  <2>3. CASE j \notin 1 .. N
    <3>1. PICK b \in 1 .. Len(q) : j = N + b
      BY <1>3, <2>3
    <3>2. UsesSlot(q[b], slot)
      BY <1>2, <2>1, <3>1
    <3>3. ASSUME NEW e \in 1 .. b - 1
          PROVE  q[e].kind # "END" /\ program'[N + e] = q[e]
      <4>1. e \in 1 .. Len(q) /\ b \in DOMAIN q
        BY <1>1, <3>1
      <4>2. q[e].kind # "END"
        BY <3>2, <4>1
      <4>3. QED
        BY <1>2, <4>1, <4>2
    <3>4. CASE \E i \in 1 .. b - 1 : IsBind(q[i]) /\ q[i].ops[1] = slot
      <4>1. PICK i \in 1 .. b - 1 : IsBind(q[i]) /\ q[i].ops[1] = slot
        BY <3>4
      <4>2. N + i \in 1 .. j - 1 /\ program'[N + i] = q[i]
        BY <1>1, <3>1, <3>3
      <4>3. ASSUME NEW e \in N + i .. j - 1 PROVE program'[e].kind # "END"
        <5>1. PICK f \in 1 .. b - 1 : e = N + f
          <6>1. e - N \in 1 .. b - 1 /\ e = N + (e - N)
            BY <1>1, <3>1
          <6>2. QED
            BY <6>1
        <5>2. QED
          BY <3>3, <5>1
      <4>4. QED
        BY <4>1, <4>2, <4>3
    <3>5. CASE \E v \in DOMAIN slotOf : v[1] = fn /\ slotOf[v] = slot
      <4>1. BoundHere(slot)
        BY <3>5 DEF IInv, SlotTable
      <4>2. PICK i \in 1 .. N :
              Binds(i, slot) /\ \A e \in i .. N : program[e].kind # "END"
        BY <1>1, <4>1 DEF BoundHere
      <4>3. i \in 1 .. j - 1 /\ program'[i] = program[i]
        BY <1>1, <1>2, <3>1
      <4>4. ASSUME NEW e \in i .. j - 1 PROVE program'[e].kind # "END"
        <5>1. CASE e \in 1 .. N
          BY <1>1, <1>2, <4>2, <5>1
        <5>2. CASE e \notin 1 .. N
          <6>1. PICK f \in 1 .. b - 1 : e = N + f
            <7>1. e - N \in 1 .. b - 1 /\ e = N + (e - N)
              BY <1>1, <3>1, <5>2
            <7>2. QED
              BY <7>1
          <6>2. QED
            BY <3>3, <6>1
        <5>3. QED
          BY <5>1, <5>2
      <4>5. QED
        BY <4>2, <4>3, <4>4 DEF Binds
    <3>6. QED
      BY <1>1, <3>2, <3>4, <3>5
  <2>4. QED
    BY <2>2, <2>3
<1>9. QED
  BY <1>2, <1>4, <1>6, <1>7, <1>8

-----------------------------------------------------------------------------
(* The operation at hand, and what verification says of it. *)
LEMMA OperationTyped ==
  ASSUME source \in Sources, TypeOK, NEW op, At(op)
  PROVE  /\ Operation \in OperationType /\ Operation.op = op
         /\ Operation.args \in Seq(Nat) /\ Operation.callee \in Nat
         /\ Operation.rows \in Nat /\ Operation.cols \in Nat
         /\ Size(Operation) \in Nat
         /\ op = "print" => Len(Operation.args) = 1
<1>1. source \in SourceType /\ Verified(source)
  BY SourcesAssumption
<1>2. source.funcs \in Seq(FunctionType) /\ fn \in DOMAIN source.funcs
  <2>1. source.funcs \in Seq(FunctionType)
    BY <1>1 DEF SourceType
  <2>2. fn \in 1 .. Len(source.funcs)
    BY <2>1 DEF At, TypeOK
  <2>3. QED
    BY <2>1, <2>2
<1>3. Func \in FunctionType
  BY <1>2 DEF Func
<1>4. Func.body \in Seq(OperationType) /\ at \in DOMAIN Func.body
  BY <1>3 DEF FunctionType, At
<1>5. Operation \in OperationType /\ Operation.op = op
  BY <1>4 DEF Operation, At
<1>6. /\ Operation.args \in Seq(Nat) /\ Operation.callee \in Nat
      /\ Operation.rows \in Nat /\ Operation.cols \in Nat
  BY <1>5 DEF OperationType
<1>7. op = "print" => Len(Operation.args) = 1
  BY <1>1, <1>2, <1>4, <1>5 DEF Verified, Operation, Func
<1>8. QED
  BY <1>5, <1>6, <1>7, SizeTyped

(* What assignSlot leaves. *)
LEMMA SlotAssigned ==
  ASSUME TypeOK, AssignSlot(<<fn, at>>)
  PROVE  /\ DOMAIN slotOf' \subseteq Nat \X Nat
         /\ \A v \in DOMAIN slotOf' : slotOf'[v] \in Nat
         /\ nextSlot' = nextSlot + 1 /\ nextSlot' \in Nat
         /\ DOMAIN slotOf' = DOMAIN slotOf \cup {<<fn, at>>}
         /\ \A v \in DOMAIN slotOf' :
              slotOf'[v] = IF v = <<fn, at>> THEN nextSlot ELSE slotOf[v]
<1>1. /\ fn \in Nat /\ at \in Nat /\ nextSlot \in Nat /\ DOMAIN slotOf \subseteq Nat \X Nat
      /\ \A v \in DOMAIN slotOf : slotOf[v] \in Nat
  BY DEF TypeOK
<1>2. <<fn, at>> \in Nat \X Nat
  BY <1>1
<1>3. /\ DOMAIN slotOf' = DOMAIN slotOf \cup {<<fn, at>>}
      /\ \A v \in DOMAIN slotOf' :
           slotOf'[v] = IF v = <<fn, at>> THEN nextSlot ELSE slotOf[v]
      /\ nextSlot' = nextSlot + 1
  BY DEF AssignSlot
<1>4. QED
  BY <1>1, <1>2, <1>3

(* A slot whose binding command was in the program still has it, after an
   append without an END. *)
LEMMA BoundStays ==
  ASSUME NEW p \in Seq(CommandType), NEW q \in Seq(CommandType), NEW slot,
         \A i \in DOMAIN q : q[i].kind # "END",
         program = p, program' = p \o q, BoundHere(slot)
  PROVE  BoundHere(slot)'
<1>1. /\ p \o q \in Seq(CommandType)
      /\ Len(p \o q) = Len(p) + Len(q)
      /\ \A i \in 1 .. Len(p) : (p \o q)[i] = p[i]
      /\ \A i \in 1 .. Len(q) : (p \o q)[Len(p) + i] = q[i]
  BY Appended
<1>2. Len(p) \in Nat /\ Len(q) \in Nat /\ DOMAIN p = 1 .. Len(p)
  OBVIOUS
<1>3. PICK i \in 1 .. Len(p) :
        /\ IsBind(p[i]) /\ p[i].ops[1] = slot
        /\ \A e \in i .. Len(p) : p[e].kind # "END"
  BY <1>2 DEF BoundHere, Binds
<1>4. i \in DOMAIN program' /\ IsBind(program'[i]) /\ program'[i].ops[1] = slot
  <2>1. program'[i] = p[i]
    BY <1>1
  <2>2. i \in DOMAIN program'
    BY <1>1, <1>2
  <2>3. QED
    BY <1>3, <2>1, <2>2
<1>5. ASSUME NEW e \in i .. Len(program') PROVE program'[e].kind # "END"
  <2>1. CASE e <= Len(p)
    BY <1>1, <1>2, <1>3, <2>1
  <2>2. CASE ~(e <= Len(p))
    <3>1. PICK f \in 1 .. Len(q) : e = Len(p) + f
      <4>1. e - Len(p) \in 1 .. Len(q) /\ e = Len(p) + (e - Len(p))
        BY <1>1, <1>2, <2>2
      <4>2. QED
        BY <4>1
    <3>2. QED
      BY <1>1, <1>2, <3>1
  <2>3. QED
    BY <2>1, <2>2
<1>6. QED
  BY <1>4, <1>5 DEF BoundHere, Binds, IsBind

(* Steps that leave the program and the slots alone. *)
LEMMA KeepProgram ==
  ASSUME IInv, TypeOK',
         UNCHANGED <<source, program, slotOf, nextSlot, rodata, fn>>,
         exes' = exes \/ program = <<>>,
         stage' \in {"images", "executables"} => stage \in {"images", "executables"}
  PROVE  IInv'
<1>1. CommandsWellFormed'
  <2>1. CASE exes' = exes
    BY <2>1 DEF IInv, CommandsWellFormed, WellFormed
  <2>2. CASE program = <<>>
    <3>1. DOMAIN program' = {}
      BY <2>2
    <3>2. QED
      BY <3>1 DEF CommandsWellFormed
  <2>3. QED
    BY <2>1, <2>2
<1>2. SlotsBoundOnce' /\ UsesAreBound'
  BY DEF IInv, SlotsBoundOnce, UsesAreBound, Binds, IsBind, UsesSlot
<1>3. SlotTable'
  BY DEF IInv, SlotTable, BoundHere, Binds, IsBind
<1>4. QED
  BY <1>1, <1>2, <1>3 DEF IInv

-----------------------------------------------------------------------------
(* The invariant holds of an empty program. *)
LEMMA InitInvariant == Init => IInv
<1> SUFFICES ASSUME Init PROVE IInv
  OBVIOUS
<1>1. TypeOK
  BY SourcesAssumption DEF Init, TypeOK, Stages, SourceType
<1>2. DOMAIN program = {} /\ DOMAIN slotOf = {}
  BY DEF Init
<1>3. QED
  BY <1>1, <1>2 DEF Init, IInv, CommandsWellFormed, SlotsBoundOnce, UsesAreBound, SlotTable

(* An executable is of its type. *)
LEMMA EntryTyped ==
  ASSUME source \in Sources, NEW p \in DOMAIN source.prims
  PROVE  Entry(p) \in ExecutableType
<1>1. source.prims \in Seq(PrimType)
  BY SourcesAssumption DEF SourceType
<1>2. source.prims[p] \in PrimType
  BY <1>1
<1>3. PICK prim \in PrimType : prim = source.prims[p]
  BY <1>2
<1>4. PICK m \in Nat, n \in Nat, k \in Nat :
        m = prim.m % ExtentLimit /\ n = prim.n % ExtentLimit /\ k = prim.k % ExtentLimit
  <2>1. prim.m \in Nat /\ prim.n \in Nat /\ prim.k \in Nat
    BY DEF PrimType
  <2>2. QED
    BY <2>1, RemainderTyped, ExtentAssumption
<1>5. Entry(p) = [kind |-> KernelKind(prim.kernel), device |-> IF prim.device = "cuda" THEN "cuda" ELSE "cpu",
                  m |-> m, n |-> n, k |-> IF KernelKind(prim.kernel) = "matmul" THEN k ELSE 0,
                  image |-> IF p \in images THEN "inside" ELSE "none"]
  BY <1>3, <1>4 DEF Entry
<1>6. QED
  BY <1>5 DEF KernelKind, ExecutableType, KernelKinds, Devices

(* Compiling device code keeps the invariant. *)
LEMMA CompileStep == IInv /\ CompileDeviceImages => IInv'
<1> SUFFICES ASSUME IInv, CompileDeviceImages PROVE IInv'
  OBVIOUS
<1>1. TypeOK'
  BY DEF IInv, TypeOK, CompileDeviceImages, CudaPrims, Stages, sections, slots
<1>2. QED
  BY <1>1, KeepProgram DEF CompileDeviceImages, sections, slots

(* So does collecting a prim func, *)
LEMMA CollectStep == IInv /\ CollectExecutable => IInv'
<1> SUFFICES ASSUME IInv, CollectExecutable PROVE IInv'
  OBVIOUS
<1>1. source \in Sources /\ TypeOK /\ program = <<>>
  BY DEF IInv, SlotTable, CollectExecutable
<1>2. source.prims \in Seq(PrimType)
  BY <1>1, SourcesAssumption DEF SourceType
<1>3. Len(exes) + 1 \in DOMAIN source.prims
  BY <1>1, <1>2 DEF TypeOK, CollectExecutable
<1>4. Entry(Len(exes) + 1) \in ExecutableType
  BY <1>1, <1>3, EntryTyped
<1>5. exes' \in Seq(ExecutableType) /\ Len(exes') <= Len(source.prims)
  <2>1. exes \in Seq(ExecutableType) /\ Len(exes) + 1 <= Len(source.prims)
    BY <1>1, <1>2 DEF TypeOK, CollectExecutable
  <2>2. exes' = exes \/ exes' = Append(exes, Entry(Len(exes) + 1))
    BY DEF CollectExecutable
  <2>3. QED
    BY <1>4, <2>1, <2>2
<1>6. TypeOK'
  BY <1>1, <1>5 DEF TypeOK, CollectExecutable, Stages, slots
<1>7. QED
  BY <1>1, <1>6, KeepProgram DEF CollectExecutable, slots

(* going on to the functions, *)
LEMMA ExecutablesDoneStep == IInv /\ ExecutablesDone => IInv'
<1> SUFFICES ASSUME IInv, ExecutablesDone PROVE IInv'
  OBVIOUS
<1>1. TypeOK'
  BY DEF IInv, TypeOK, ExecutablesDone, Stages, sections, slots
<1>2. QED
  BY <1>1, KeepProgram DEF ExecutablesDone, sections, slots

(* a function that begins, *)
LEMMA BeginFunctionStep == IInv /\ BeginFunction => IInv'
<1> SUFFICES ASSUME IInv, BeginFunction PROVE IInv'
  OBVIOUS
<1>1. source.funcs \in Seq(FunctionType)
  BY SourcesAssumption DEF IInv, SourceType
<1>2. fn \in DOMAIN source.funcs
  BY <1>1 DEF IInv, TypeOK, BeginFunction
<1>3. ShortName(Func.name) \in STRING
  BY <1>2, NameAssumption DEF IInv, Func
<1>4. names' \in Seq(SymbolType)
  BY <1>3 DEF IInv, TypeOK, BeginFunction, SymbolType
<1>5. TypeOK'
  BY <1>4 DEF IInv, TypeOK, BeginFunction, Advance, slots
<1>6. QED
  BY <1>5, KeepProgram DEF BeginFunction, Advance, slots

(* a return, *)
LEMMA ReturnStep == IInv /\ Return => IInv'
<1> SUFFICES ASSUME IInv, Return PROVE IInv'
  OBVIOUS
<1>1. TypeOK'
  BY DEF IInv, TypeOK, Return, Advance, sections, slots
<1>2. QED
  BY <1>1, KeepProgram DEF Return, Advance, sections, slots

(* an operation that is refused, *)
LEMMA UnsupportedStep == IInv /\ Unsupported => IInv'
<1> SUFFICES ASSUME IInv, Unsupported PROVE IInv'
  OBVIOUS
<1>1. TypeOK'
  BY DEF IInv, TypeOK, Unsupported, Reject, Stages, sections, slots
<1>2. QED
  BY <1>1, KeepProgram DEF Unsupported, Reject, sections, slots

(* and writing the file. *)
LEMMA WriteStep == IInv /\ Write => IInv'
<1> SUFFICES ASSUME IInv, Write PROVE IInv'
  OBVIOUS
<1>1. TypeOK'
  BY DEF IInv, TypeOK, Write, Stages, sections, slots
<1>2. QED
  BY <1>1, KeepProgram DEF Write, sections, slots

-----------------------------------------------------------------------------
(* The steps that append commands. *)

(* A binding command for a new value, without an END. *)
LEMMA BindNewValue ==
  ASSUME IInv, AssignSlot(<<fn, at>>), fn' = fn,
         NEW q \in Seq(CommandType), program' = program \o q,
         \A i \in DOMAIN q : q[i].kind # "END",
         NEW b \in DOMAIN q, IsBind(q[b]), q[b].ops[1] = nextSlot
  PROVE  /\ \A v \in DOMAIN slotOf' : v[1] <= fn' /\ slotOf'[v] < nextSlot'
         /\ \A v \in DOMAIN slotOf' : v[1] = fn' => BoundHere(slotOf[v])'
<1>1. /\ nextSlot' = nextSlot + 1
      /\ DOMAIN slotOf' = DOMAIN slotOf \cup {<<fn, at>>}
      /\ \A v \in DOMAIN slotOf' :
           slotOf'[v] = IF v = <<fn, at>> THEN nextSlot ELSE slotOf[v]
  BY SlotAssigned DEF IInv
<1>2. /\ fn \in Nat /\ nextSlot \in Nat /\ program \in Seq(CommandType)
      /\ \A v \in DOMAIN slotOf : slotOf[v] \in Nat
  BY DEF IInv, TypeOK
<1>3. \A v \in DOMAIN slotOf' : v[1] <= fn' /\ slotOf'[v] < nextSlot'
  BY <1>1, <1>2 DEF IInv, SlotTable
<1>4. ASSUME NEW v \in DOMAIN slotOf', v[1] = fn'
      PROVE  BoundHere(slotOf[v])'
  <2>1. PICK slot : slot = slotOf'[v]
    OBVIOUS
  <2>2. CASE v = <<fn, at>>
    <3>1. slot = nextSlot
      BY <1>1, <2>1, <2>2
    <3>2. PICK p \in Seq(CommandType) : p = program
      BY <1>2
    <3>3. /\ Len(program') = Len(p) + Len(q)
          /\ \A i \in 1 .. Len(q) : program'[Len(p) + i] = q[i]
          /\ program' \in Seq(CommandType)
          /\ Len(p) \in Nat /\ Len(q) \in Nat /\ b \in 1 .. Len(q)
      BY <3>2, Appended
    <3>4. Len(p) + b \in DOMAIN program' /\ program'[Len(p) + b] = q[b]
      BY <3>3
    <3>5. ASSUME NEW e \in Len(p) + b .. Len(program') PROVE program'[e].kind # "END"
      <4>1. PICK f \in 1 .. Len(q) : e = Len(p) + f
        <5>1. e - Len(p) \in 1 .. Len(q) /\ e = Len(p) + (e - Len(p))
          BY <3>3
        <5>2. QED
          BY <5>1
      <4>2. QED
        BY SMTT(30), <3>3, <4>1
    <3>6. QED
      BY <2>1, <3>1, <3>4, <3>5 DEF BoundHere, Binds, IsBind
  <2>3. CASE v # <<fn, at>>
    <3>1. v \in DOMAIN slotOf /\ slot = slotOf[v]
      BY <1>1, <2>1, <2>3
    <3>2. BoundHere(slot)
      BY <1>4, <3>1 DEF IInv, SlotTable
    <3>3. PICK p \in Seq(CommandType) : p = program
      BY <1>2
    <3>4. BoundHere(slot)'
      BY <3>2, <3>3, BoundStays
    <3>5. QED
      BY <2>1, <3>4 DEF BoundHere, Binds
  <2>4. QED
    BY <2>2, <2>3
<1>5. QED
  BY <1>3, <1>4

(* A constant binds a fresh slot. *)
LEMMA ConstantStep == IInv /\ Constant => IInv'
<1> SUFFICES ASSUME IInv, Constant PROVE IInv'
  OBVIOUS
<1>1. source \in Sources /\ TypeOK /\ At("constant")
  BY DEF IInv, Constant
<1>2. Size(Operation) \in Nat /\ stage = "functions"
  BY <1>1, OperationTyped DEF At
<1>3. CASE UNCHANGED <<rodata, program, slots>>
  <2>1. TypeOK' /\ fn' = fn
    BY SMTT(30), <1>1, <1>3 DEF TypeOK, Constant, Advance, Reject, slots, Stages
  <2>2. QED
    BY <1>2, <1>3, <2>1, KeepProgram DEF Constant, Advance, Reject, slots
<1>4. CASE /\ rodata' = rodata + Size(Operation)
           /\ Emit(<<Command("CONST", <<nextSlot, rodata, Size(Operation)>>)>>)
           /\ AssignSlot(<<fn, at>>)
           /\ Advance
  <2>1. PICK c : c = Command("CONST", <<nextSlot, rodata, Size(Operation)>>)
    OBVIOUS
  <2>2. /\ rodata \in Nat /\ nextSlot \in Nat /\ program \in Seq(CommandType)
        /\ fn \in Nat /\ at \in Nat
    BY <1>1 DEF TypeOK
  <2>3. /\ c.kind = "CONST" /\ Len(c.ops) = 3 /\ c \in CommandType
        /\ c.ops[1] = nextSlot /\ c.ops[2] = rodata /\ c.ops[3] = Size(Operation)
    <3>1. <<nextSlot, rodata, Size(Operation)>> \in Seq(Nat)
      BY <1>2, <2>2
    <3>2. c.kind = "CONST" /\ c.ops = <<nextSlot, rodata, Size(Operation)>>
      BY <2>1 DEF Command
    <3>3. c \in CommandType
      BY <2>1, <3>1 DEF Command, CommandType
    <3>4. QED
      BY <3>2, <3>3
  <2>4. PICK q \in Seq(CommandType) : q = <<c>>
    BY <2>3, OneCommand
  <2>5. DOMAIN q = {1} /\ q[1] = c /\ program' = program \o q
    BY <1>4, <2>1, <2>4 DEF Emit
  <2>6. /\ DOMAIN slotOf' \subseteq Nat \X Nat
        /\ \A v \in DOMAIN slotOf' : slotOf'[v] \in Nat
        /\ nextSlot' = nextSlot + 1 /\ nextSlot' \in Nat
    BY <1>1, <1>4, SlotAssigned
  <2>7. /\ rodata' \in Nat /\ rodata' = rodata + Size(Operation) /\ rodata <= rodata'
        /\ exes' = exes /\ nextSlot <= nextSlot' /\ fn' = fn /\ stage' = stage
    BY <1>2, <1>4, <2>2, <2>6 DEF Constant, Advance
  <2>8. /\ program' \in Seq(CommandType)
        /\ CommandsWellFormed' /\ SlotsBoundOnce' /\ UsesAreBound'
        /\ \A i \in DOMAIN program' : IsBind(program'[i]) => program'[i].ops[1] < nextSlot'
    <3>1. WellFormed(c)'
      BY <2>2, <2>3, <2>7 DEF WellFormed
    <3>2. \A i \in DOMAIN q : WellFormed(q[i])'
      BY <2>5, <3>1 DEF WellFormed
    <3>3. \A j \in DOMAIN q : \A slot \in Nat : ~UsesSlot(q[j], slot)
      BY <2>3, <2>5 DEF UsesSlot
    <3>4. /\ \A i \in DOMAIN q :
               IsBind(q[i]) => q[i].ops[1] = nextSlot /\ nextSlot' = nextSlot + 1
          /\ \A i, j \in DOMAIN q : IsBind(q[i]) /\ IsBind(q[j]) => i = j
      BY <2>3, <2>5, <2>6
    <3>5. QED
      BY <2>5, <2>6, <2>7, <3>2, <3>3, <3>4, AddCommands
  <2>9. TypeOK'
    BY <1>1, <1>4, <2>6, <2>7, <2>8 DEF TypeOK, Constant, Advance
  <2>10. /\ \A v \in DOMAIN slotOf' : v[1] <= fn' /\ slotOf'[v] < nextSlot'
         /\ \A v \in DOMAIN slotOf' : v[1] = fn' => BoundHere(slotOf[v])'
    <3>1. IsBind(q[1]) /\ q[1].ops[1] = nextSlot /\ \A i \in DOMAIN q : q[i].kind # "END"
      BY <2>3, <2>5 DEF IsBind
    <3>2. QED
      BY <1>4, <2>5, <2>7, <3>1, BindNewValue
  <2>11. SlotTable'
    BY <1>2, <2>7, <2>8, <2>10 DEF SlotTable, IsBind
  <2>12. QED
    BY <1>1, <2>8, <2>9, <2>11 DEF IInv, Constant
<1>5. QED
  BY <1>3, <1>4 DEF Constant

(* A print uses a slot that was bound in this function. *)
LEMMA PrintStep == IInv /\ PrintOp => IInv'
<1> SUFFICES ASSUME IInv, PrintOp PROVE IInv'
  OBVIOUS
<1>1. source \in Sources /\ TypeOK /\ At("print")
  BY DEF IInv, PrintOp
<1>2. /\ Operation.rows \in Nat /\ Operation.cols \in Nat /\ stage = "functions"
  BY <1>1, OperationTyped DEF At
<1>3. CASE Reject /\ UNCHANGED program
  <2>1. TypeOK' /\ fn' = fn
    BY <1>1, <1>3 DEF TypeOK, PrintOp, Reject, slots, Stages
  <2>2. QED
    BY <1>2, <1>3, <2>1, KeepProgram DEF PrintOp, Reject, slots
<1>4. CASE /\ HasSlot(Operation.args[1])
           /\ Emit(<<Command("PRINT", <<slotOf[<<fn, Operation.args[1]>>],
                                       Operation.rows, Operation.cols>>)>>)
           /\ Advance
  <2>1. PICK v : v = <<fn, Operation.args[1]>>
    OBVIOUS
  <2>2. /\ v \in DOMAIN slotOf /\ v[1] = fn /\ slotOf[v] \in Nat
        /\ program \in Seq(CommandType)
    BY <1>1, <1>4, <2>1 DEF HasSlot, TypeOK
  <2>3. PICK c : c = Command("PRINT", <<slotOf[v], Operation.rows, Operation.cols>>)
    OBVIOUS
  <2>4. /\ c.kind = "PRINT" /\ Len(c.ops) = 3 /\ c \in CommandType
        /\ c.ops[1] = slotOf[v]
    <3>1. <<slotOf[v], Operation.rows, Operation.cols>> \in Seq(Nat)
      BY <1>2, <2>2
    <3>2. c.kind = "PRINT" /\ c.ops = <<slotOf[v], Operation.rows, Operation.cols>>
      BY <2>3 DEF Command
    <3>3. c \in CommandType
      BY <2>3, <3>1 DEF Command, CommandType
    <3>4. QED
      BY <3>2, <3>3
  <2>5. PICK q \in Seq(CommandType) : q = <<c>>
    BY <2>4, OneCommand
  <2>6. DOMAIN q = {1} /\ q[1] = c /\ program' = program \o q
    BY <1>4, <2>1, <2>3, <2>5 DEF Emit
  <2>7. /\ rodata' = rodata /\ exes' = exes /\ nextSlot' = nextSlot /\ slotOf' = slotOf
        /\ fn' = fn /\ stage' = stage /\ nextSlot \in Nat /\ rodata \in Nat
    BY <1>1, <1>4 DEF PrintOp, Advance, slots, TypeOK
  <2>8. /\ program' \in Seq(CommandType)
        /\ CommandsWellFormed' /\ SlotsBoundOnce' /\ UsesAreBound'
        /\ \A i \in DOMAIN program' : IsBind(program'[i]) => program'[i].ops[1] < nextSlot'
    <3>1. \A i \in DOMAIN q : WellFormed(q[i])' /\ ~IsBind(q[i])
      BY <2>4, <2>6 DEF WellFormed, IsBind
    <3>2. \A j \in DOMAIN q : \A slot \in Nat :
            UsesSlot(q[j], slot) =>
              /\ \A e \in 1 .. j - 1 : q[e].kind # "END"
              /\ \E u \in DOMAIN slotOf : u[1] = fn /\ slotOf[u] = slot
      BY <2>2, <2>4, <2>6 DEF UsesSlot
    <3>3. rodata' \in Nat /\ rodata <= rodata' /\ nextSlot' \in Nat /\ nextSlot <= nextSlot'
      BY <2>7
    <3>4. /\ \A i \in DOMAIN q : WellFormed(q[i])'
          /\ \A i \in DOMAIN q : IsBind(q[i]) => q[i].ops[1] = nextSlot /\ nextSlot' = nextSlot + 1
          /\ \A i, j \in DOMAIN q : IsBind(q[i]) /\ IsBind(q[j]) => i = j
      BY <3>1
    <3>5. QED
      BY <2>6, <2>7, <3>2, <3>3, <3>4, AddCommands, SMTT(30)
  <2>9. TypeOK'
    BY <1>1, <1>4, <2>7, <2>8 DEF TypeOK, PrintOp, Advance
  <2>10. \A u \in DOMAIN slotOf' : u[1] = fn' => BoundHere(slotOf[u])'
    <3>1. SUFFICES ASSUME NEW u \in DOMAIN slotOf', u[1] = fn' PROVE BoundHere(slotOf[u])'
      OBVIOUS
    <3>2. PICK slot : slot = slotOf[u]
      OBVIOUS
    <3>3. BoundHere(slot)
      BY <2>7, <3>1, <3>2 DEF IInv, SlotTable
    <3>4. PICK p \in Seq(CommandType) : p = program
      BY <2>2
    <3>5. \A i \in DOMAIN q : q[i].kind # "END"
      BY <2>4, <2>6
    <3>6. BoundHere(slot)'
      BY <2>6, <3>3, <3>4, <3>5, BoundStays
    <3>7. slot = slotOf'[u]
      BY <2>7, <3>2
    <3>8. QED
      BY <3>6, <3>7 DEF BoundHere, Binds
  <2>11. SlotTable'
    <3>1. \A u \in DOMAIN slotOf' : u[1] <= fn' /\ slotOf'[u] < nextSlot'
      BY <2>7 DEF IInv, SlotTable
    <3>2. QED
      BY <1>2, <2>7, <2>8, <2>10, <3>1 DEF SlotTable, IsBind
  <2>12. QED
    BY <1>1, <2>8, <2>9, <2>11 DEF IInv, PrintOp
<1>5. QED
  BY <1>3, <1>4 DEF PrintOp

(* After END comes another function, of whose values none is bound yet. *)
LEMMA EndFunctionStep == IInv /\ EndFunction => IInv'
<1> SUFFICES ASSUME IInv, EndFunction PROVE IInv'
  OBVIOUS
<1>1. source \in Sources /\ TypeOK /\ program \in Seq(CommandType) /\ fn \in Nat
  BY DEF IInv, EndFunction, TypeOK
<1>2. PICK c : c = Command("END", <<>>)
  OBVIOUS
<1>3. c.kind = "END" /\ c \in CommandType
  <2>1. <<>> \in Seq(Nat)
    OBVIOUS
  <2>2. c = [kind |-> "END", ops |-> <<>>]
    BY <1>2 DEF Command
  <2>3. QED
    BY <2>1, <2>2 DEF CommandType
<1>4. PICK q \in Seq(CommandType) : q = <<c>>
  BY <1>3, OneCommand
<1>5. DOMAIN q = {1} /\ q[1] = c /\ program' = program \o q
  BY <1>2, <1>4 DEF Emit, EndFunction
<1>6. /\ rodata' = rodata /\ exes' = exes /\ nextSlot' = nextSlot /\ slotOf' = slotOf
      /\ fn' = fn + 1 /\ stage' = "functions" /\ nextSlot \in Nat /\ rodata \in Nat
  BY <1>1 DEF EndFunction, slots, TypeOK
<1>7. /\ program' \in Seq(CommandType)
      /\ CommandsWellFormed' /\ SlotsBoundOnce' /\ UsesAreBound'
      /\ \A i \in DOMAIN program' : IsBind(program'[i]) => program'[i].ops[1] < nextSlot'
  <2>1. \A i \in DOMAIN q : WellFormed(q[i])' /\ ~IsBind(q[i])
    BY <1>3, <1>5 DEF WellFormed, IsBind
  <2>2. \A j \in DOMAIN q : \A slot \in Nat : ~UsesSlot(q[j], slot)
    BY <1>3, <1>5 DEF UsesSlot
  <2>3. QED
    BY SMTT(30), <1>5, <1>6, <2>1, <2>2, AddCommands
<1>8. TypeOK'
  BY <1>1, <1>6, <1>7 DEF TypeOK, EndFunction, Stages
<1>9. /\ \A u \in DOMAIN slotOf' : u[1] <= fn' /\ slotOf'[u] < nextSlot'
      /\ \A u \in DOMAIN slotOf' : u[1] # fn'
  <2>1. DOMAIN slotOf \subseteq Nat \X Nat
    BY <1>1 DEF TypeOK
  <2>2. \A u \in DOMAIN slotOf : u[1] \in Nat /\ u[1] <= fn /\ slotOf[u] < nextSlot
    BY <2>1 DEF IInv, SlotTable
  <2>3. QED
    BY <1>1, <1>6, <2>2
<1>10. SlotTable'
  BY <1>6, <1>7, <1>9 DEF SlotTable, IsBind
<1>11. QED
  BY <1>1, <1>7, <1>8, <1>10 DEF IInv, EndFunction

(* The operands of a DISPATCH: the arguments' slots, then the destination. *)
LEMMA DispatchOperands ==
  ASSUME NEW callee \in Nat \ {0}, NEW args \in Seq(Nat), NEW dst \in Nat
  PROVE  LET ops == DispatchOps(callee, args, dst)
         IN /\ ops \in Seq(Nat) /\ Len(ops) = Len(args) + 3
            /\ ops[1] = callee - 1 /\ ops[2] = Len(args) + 1
            /\ \A a \in 3 .. Len(ops) : ops[a] = dst \/ \E b \in DOMAIN args : ops[a] = args[b]
<1> DEFINE head == <<callee - 1, Len(args) + 1>>
           tail == Append(args, dst)
<1>1. /\ head \in Seq(Nat) /\ Len(head) = 2
      /\ head[1] = callee - 1 /\ head[2] = Len(args) + 1
      /\ tail \in Seq(Nat) /\ Len(tail) = Len(args) + 1 /\ Len(args) \in Nat
      /\ \A b \in 1 .. Len(args) : tail[b] = args[b]
      /\ tail[Len(args) + 1] = dst /\ DOMAIN args = 1 .. Len(args)
  OBVIOUS
<1> HIDE DEF head, tail
<1>2. PICK ops : ops = head \o tail
  OBVIOUS
<1>3. /\ ops \in Seq(Nat) /\ Len(ops) = Len(args) + 3
      /\ \A i \in 1 .. Len(args) + 3 : ops[i] = IF i <= 2 THEN head[i] ELSE tail[i - 2]
  <2>1. /\ head \o tail \in Seq(Nat)
        /\ Len(head \o tail) = Len(head) + Len(tail)
        /\ \A i \in 1 .. Len(head) + Len(tail) : (head \o tail)[i] =
              IF i <= Len(head) THEN head[i] ELSE tail[i - Len(head)]
    BY <1>1, ConcatProperties
  <2>2. Len(head) + Len(tail) = Len(args) + 3
    BY <1>1
  <2>3. QED
    BY <1>1, <1>2, <2>1, <2>2
<1>4. ops[1] = callee - 1 /\ ops[2] = Len(args) + 1
  <2>1. 1 \in 1 .. Len(args) + 3 /\ 2 \in 1 .. Len(args) + 3
    BY <1>1
  <2>2. QED
    BY <1>1, <1>3, <2>1
<1>5. ASSUME NEW a \in 3 .. Len(ops)
      PROVE  ops[a] = dst \/ \E b \in DOMAIN args : ops[a] = args[b]
  <2>1. a - 2 \in 1 .. Len(args) + 1 /\ a \in 1 .. Len(args) + 3 /\ ~(a <= 2)
    BY <1>1, <1>3
  <2>2. ops[a] = tail[a - 2]
    BY <1>3, <2>1
  <2>3. CASE a - 2 = Len(args) + 1
    BY <1>1, <2>2, <2>3
  <2>4. CASE a - 2 # Len(args) + 1
    <3>1. a - 2 \in 1 .. Len(args)
      BY <1>1, <2>1, <2>4
    <3>2. QED
      BY <1>1, <2>2, <3>1
  <2>5. QED
    BY <2>3, <2>4
<1>6. DispatchOps(callee, args, dst) = ops
  BY <1>2 DEF DispatchOps, head, tail
<1>7. QED
  BY <1>3, <1>4, <1>5, <1>6

(* A call binds a fresh slot and uses bound ones. *)
LEMMA CallStep == IInv /\ CallTIR => IInv'
<1> SUFFICES ASSUME IInv, CallTIR PROVE IInv'
  OBVIOUS
<1>1. source \in Sources /\ TypeOK /\ At("call_tir")
  BY DEF IInv, CallTIR
<1>2. /\ Size(Operation) \in Nat /\ Operation.args \in Seq(Nat)
      /\ Operation.callee \in Nat /\ stage = "functions"
  BY <1>1, OperationTyped DEF At
<1>3. /\ nextSlot \in Nat /\ program \in Seq(CommandType) /\ rodata \in Nat
      /\ exes \in Seq(ExecutableType) /\ fn \in Nat /\ at \in Nat
      /\ rodata' = rodata /\ exes' = exes
  BY <1>1 DEF TypeOK, CallTIR
<1>4. PICK alloc : alloc = Command("ALLOC", <<nextSlot, Size(Operation)>>)
  OBVIOUS
<1>5. /\ alloc.kind = "ALLOC" /\ Len(alloc.ops) = 2 /\ alloc \in CommandType
      /\ alloc.ops[1] = nextSlot
  <2>1. <<nextSlot, Size(Operation)>> \in Seq(Nat)
    BY <1>2, <1>3
  <2>2. alloc.kind = "ALLOC" /\ alloc.ops = <<nextSlot, Size(Operation)>>
    BY <1>4 DEF Command
  <2>3. alloc \in CommandType
    BY <1>4, <2>1 DEF Command, CommandType
  <2>4. QED
    BY <2>2, <2>3
<1>6. CASE Reject /\ UNCHANGED <<program, slots>>
  <2>1. TypeOK' /\ fn' = fn
    BY <1>1, <1>6 DEF TypeOK, CallTIR, Reject, slots, Stages
  <2>2. QED
    BY <1>2, <1>6, <2>1, KeepProgram DEF CallTIR, Reject, slots
<1>7. ASSUME AssignSlot(<<fn, at>>), fn' = fn, stage' \in {"functions", "rejected"},
             at' \in Nat,
             NEW q \in Seq(CommandType), program' = program \o q,
             DOMAIN q \in {{1}, {1, 2}}, q[1] = alloc,
             2 \in DOMAIN q =>
               /\ q[2].kind = "DISPATCH" /\ WellFormed(q[2])
               /\ \A slot \in Nat : UsesSlot(q[2], slot) =>
                    slot = nextSlot \/ \E v \in DOMAIN slotOf : v[1] = fn /\ slotOf[v] = slot
      PROVE  IInv'
  <2>1. /\ DOMAIN slotOf' \subseteq Nat \X Nat
        /\ \A v \in DOMAIN slotOf' : slotOf'[v] \in Nat
        /\ nextSlot' = nextSlot + 1 /\ nextSlot' \in Nat
    BY <1>1, <1>7, SlotAssigned
  <2>2. IsBind(q[1]) /\ \A i \in DOMAIN q : IsBind(q[i]) => i = 1
    BY <1>5, <1>7 DEF IsBind
  <2>3. 1 \in DOMAIN q /\ \A i \in DOMAIN q : i = 1 \/ i = 2
    BY <1>7
  <2>4. /\ program' \in Seq(CommandType)
        /\ CommandsWellFormed' /\ SlotsBoundOnce' /\ UsesAreBound'
        /\ \A i \in DOMAIN program' : IsBind(program'[i]) => program'[i].ops[1] < nextSlot'
    <3>1. \A i \in DOMAIN q : WellFormed(q[i])'
      <4>1. WellFormed(q[1])'
        BY <1>5, <1>7 DEF WellFormed
      <4>2. ASSUME 2 \in DOMAIN q PROVE WellFormed(q[2])'
        BY <1>3, <1>7, <4>2 DEF WellFormed
      <4>3. QED
        BY <2>3, <4>1, <4>2 DEF WellFormed
    <3>2. \A i \in DOMAIN q :
            IsBind(q[i]) => q[i].ops[1] = nextSlot /\ nextSlot' = nextSlot + 1
      BY <1>5, <1>7, <2>1, <2>2
    <3>3. \A i, j \in DOMAIN q : IsBind(q[i]) /\ IsBind(q[j]) => i = j
      BY <2>2
    <3>4. ASSUME NEW j \in DOMAIN q, NEW slot \in Nat, UsesSlot(q[j], slot)
          PROVE  /\ \A e \in 1 .. j - 1 : q[e].kind # "END"
                 /\ \/ \E i \in 1 .. j - 1 : IsBind(q[i]) /\ q[i].ops[1] = slot
                    \/ \E v \in DOMAIN slotOf : v[1] = fn /\ slotOf[v] = slot
      <4>1. j = 2
        BY <1>5, <1>7, <2>3, <3>4 DEF UsesSlot
      <4>2. 1 .. j - 1 = {1}
        BY <4>1
      <4>3. q[1].kind # "END" /\ q[1].ops[1] = nextSlot
        BY <1>5, <1>7
      <4>4. slot = nextSlot \/ \E v \in DOMAIN slotOf : v[1] = fn /\ slotOf[v] = slot
        BY <1>7, <3>4, <4>1
      <4>5. QED
        BY <2>2, <4>2, <4>3, <4>4
    <3>5. nextSlot <= nextSlot' /\ rodata' \in Nat /\ rodata <= rodata'
      BY <1>3, <2>1
    <3>6. QED
      BY <1>3, <1>7, <2>1, <3>1, <3>2, <3>3, <3>4, <3>5, AddCommands
  <2>5. TypeOK'
    BY <1>1, <1>3, <1>7, <2>1, <2>4 DEF TypeOK, CallTIR, Stages
  <2>6. /\ \A v \in DOMAIN slotOf' : v[1] <= fn' /\ slotOf'[v] < nextSlot'
        /\ \A v \in DOMAIN slotOf' : v[1] = fn' => BoundHere(slotOf[v])'
    <3>1. q[1].ops[1] = nextSlot /\ \A i \in DOMAIN q : q[i].kind # "END"
      BY <1>5, <1>7, <2>3
    <3>2. QED
      BY <1>7, <2>2, <2>3, <3>1, BindNewValue
  <2>7. SlotTable'
    BY <1>7, <2>4, <2>6 DEF SlotTable, IsBind
  <2>8. QED
    BY <1>1, <2>4, <2>5, <2>7 DEF IInv, CallTIR
<1>8. CASE AssignSlot(<<fn, at>>) /\ Emit(<<alloc>>) /\ Reject
  <2>1. PICK q \in Seq(CommandType) : q = <<alloc>>
    BY <1>5, OneCommand
  <2>2. DOMAIN q = {1} /\ q[1] = alloc /\ program' = program \o q
    BY <1>8, <2>1 DEF Emit
  <2>3. fn' = fn /\ stage' = "rejected" /\ at' = at
    BY <1>8 DEF Reject
  <2>4. 2 \notin DOMAIN q /\ DOMAIN q \in {{1}, {1, 2}}
    BY <2>2
  <2>5. stage' \in {"functions", "rejected"} /\ at' \in Nat
    BY <1>3, <2>3
  <2>6. QED
    BY <1>7, <1>8, <2>2, <2>3, <2>4, <2>5
<1>9. CASE /\ Operation.callee \in DOMAIN exes
           /\ AssignSlot(<<fn, at>>)
           /\ \A a \in DOMAIN Operation.args : HasSlot(Operation.args[a])
           /\ Emit(<<alloc, Command("DISPATCH", DispatchOps(Operation.callee, ArgSlots, nextSlot))>>)
           /\ Advance
  <2>1. PICK d : d = Command("DISPATCH", DispatchOps(Operation.callee, ArgSlots, nextSlot))
    OBVIOUS
  <2>2. /\ ArgSlots \in Seq(Nat) /\ DOMAIN ArgSlots = DOMAIN Operation.args
        /\ \A a \in DOMAIN ArgSlots :
             /\ <<fn, Operation.args[a]>> \in DOMAIN slotOf
             /\ ArgSlots[a] = slotOf[<<fn, Operation.args[a]>>]
    <3>1. \A a \in DOMAIN Operation.args :
            /\ <<fn, Operation.args[a]>> \in DOMAIN slotOf
            /\ slotOf[<<fn, Operation.args[a]>>] \in Nat
      BY <1>1, <1>9 DEF HasSlot, TypeOK
    <3>2. DOMAIN Operation.args = 1 .. Len(Operation.args) /\ Len(Operation.args) \in Nat
      BY <1>2
    <3>3. ArgSlots \in [1 .. Len(Operation.args) -> Nat]
      BY <3>1, <3>2 DEF ArgSlots
    <3>4. QED
      BY <3>1, <3>2, <3>3 DEF ArgSlots
  <2>3. Operation.callee \in Nat \ {0} /\ Operation.callee - 1 < Len(exes)
    BY <1>2, <1>3, <1>9
  <2>4. PICK ops : ops = DispatchOps(Operation.callee, ArgSlots, nextSlot)
    OBVIOUS
  <2>5. /\ ops \in Seq(Nat) /\ Len(ops) = Len(ArgSlots) + 3
        /\ ops[1] = Operation.callee - 1 /\ ops[2] = Len(ArgSlots) + 1
        /\ \A a \in 3 .. Len(ops) :
             ops[a] = nextSlot \/ \E b \in DOMAIN ArgSlots : ops[a] = ArgSlots[b]
    <3>1. Operation.callee \in Nat \ {0}
      BY <2>3
    <3>2. ArgSlots \in Seq(Nat)
      BY <2>2
    <3>3. nextSlot \in Nat
      BY <1>3
    <3>4. QED
      <4>1. LET o == DispatchOps(Operation.callee, ArgSlots, nextSlot)
            IN /\ o \in Seq(Nat) /\ Len(o) = Len(ArgSlots) + 3
               /\ o[1] = Operation.callee - 1 /\ o[2] = Len(ArgSlots) + 1
               /\ \A a \in 3 .. Len(o) :
                    o[a] = nextSlot \/ \E b \in DOMAIN ArgSlots : o[a] = ArgSlots[b]
        BY ONLY <3>1, <3>2, <3>3, DispatchOperands
      <4>2. QED
        BY ONLY <2>4, <4>1
  <2>6. d.kind = "DISPATCH" /\ d.ops = ops /\ d \in CommandType
    BY <2>1, <2>4, <2>5 DEF Command, CommandType
  <2>7. WellFormed(d)
    <3>1. Len(ArgSlots) \in Nat
      BY <2>2
    <3>2. QED
      BY <2>3, <2>5, <2>6, <3>1 DEF WellFormed
  <2>8. ASSUME NEW slot \in Nat, UsesSlot(d, slot)
        PROVE  slot = nextSlot \/ \E v \in DOMAIN slotOf : v[1] = fn /\ slotOf[v] = slot
    <3>1. PICK a \in 3 .. Len(ops) : ops[a] = slot
      BY <2>6, <2>8 DEF UsesSlot
    <3>2. CASE \E b \in DOMAIN ArgSlots : ops[a] = ArgSlots[b]
      <4>1. PICK b \in DOMAIN ArgSlots : slot = ArgSlots[b]
        BY <3>1, <3>2
      <4>2. PICK v : v = <<fn, Operation.args[b]>>
        OBVIOUS
      <4>3. v \in DOMAIN slotOf /\ v[1] = fn /\ slotOf[v] = slot
        BY <2>2, <4>1, <4>2
      <4>4. QED
        BY <4>3
    <3>3. QED
      BY <2>5, <3>1, <3>2
  <2>9. PICK q \in Seq(CommandType) : q = <<alloc, d>>
    <3>1. <<alloc, d>> \in Seq(CommandType)
      BY <1>5, <2>6
    <3>2. QED
      BY <3>1
  <2>10. DOMAIN q = {1, 2} /\ q[1] = alloc /\ q[2] = d /\ program' = program \o q
    BY <1>9, <2>1, <2>9 DEF Emit
  <2>11. fn' = fn /\ stage' = "functions" /\ at' \in Nat
    BY <1>2, <1>3, <1>9 DEF Advance
  <2>12. QED
    BY <1>7, <1>9, <2>6, <2>7, <2>8, <2>10, <2>11
<1>10. QED
  BY <1>4, <1>6, <1>8, <1>9 DEF CallTIR

-----------------------------------------------------------------------------
(* IInv holds throughout. *)
THEOREM Invariance == Spec => []IInv
<1>1. IInv /\ UNCHANGED vars => IInv'
  <2> SUFFICES ASSUME IInv, UNCHANGED vars PROVE IInv'
    OBVIOUS
  <2>1. TypeOK'
    BY DEF IInv, TypeOK, vars
  <2>2. QED
    BY <2>1, KeepProgram DEF vars
<1>2. IInv /\ [Next]_vars => IInv'
  BY <1>1, CompileStep, CollectStep, ExecutablesDoneStep, BeginFunctionStep, ConstantStep,
     CallStep, PrintStep, ReturnStep, UnsupportedStep, EndFunctionStep, WriteStep DEF Next
<1>3. QED
  BY <1>2, InitInvariant, PTL DEF Spec

(* The variables keep their types. *)
THEOREM TypeCorrectness == Spec => []TypeOK
<1>1. IInv => TypeOK
  BY DEF IInv
<1>2. QED
  BY <1>1, Invariance, PTL

(* Every command written passes the runtime's static checks. *)
THEOREM WellFormedness == Spec => []CommandsWellFormed
<1>1. IInv => CommandsWellFormed
  BY DEF IInv
<1>2. QED
  BY <1>1, Invariance, PTL

(* The writer is always in a state it can go on from. *)
THEOREM WriterInvariant == Spec => []Inv
<1>1. IInv => Inv
  BY DEF IInv, Inv
<1>2. QED
  BY <1>1, Invariance, PTL

(* No slot is bound twice in the file: replaying it never releases a buffer
   that is still to be read or captured. *)
THEOREM SingleBinding == Spec => []SlotsBoundOnce
<1>1. IInv => SlotsBoundOnce
  BY DEF IInv
<1>2. QED
  BY <1>1, Invariance, PTL

(* A slot a command uses was bound earlier in the same function. *)
THEOREM Definedness == Spec => []BoundBeforeUse
<1>1. IInv => BoundBeforeUse
  <2>1. TypeOK => \A slot \in 0 .. nextSlot : slot \in Nat
    BY DEF TypeOK
  <2>2. QED
    BY <2>1 DEF IInv, BoundBeforeUse, UsesAreBound
<1>2. QED
  BY <1>1, Invariance, PTL

-----------------------------------------------------------------------------
(* The sections written so far are HostProgram's for the operations visited. *)

(* The operation the walk is at, and those of S it has passed. *)
Here == <<fn, at>>
Seen(S) == {v \in S : Before(v, Here)}

(* Where the walk is. *)
InPlace ==
  /\ fn <= Len(source.funcs) + 1
  /\ fn = Len(source.funcs) + 1 => at = 0
  /\ fn <= Len(source.funcs) => at <= Len(Func.body) + 1
  /\ stage \in {"images", "executables"} => fn = 1 /\ at = 0
  /\ stage = "written" => fn = Len(source.funcs) + 1

(* The slots handed out are those of the values passed, each its number among them. *)
SlotsFollow ==
  /\ DOMAIN slotOf = Seen(Stored(source))
  /\ \A v \in DOMAIN slotOf : slotOf[v] = Slot(source, v)
  /\ nextSlot = Cardinality(Seen(Stored(source)))

(* The constants passed fill RODATA so far. *)
RodataFollows == rodata = RodataSize(source, Seen(StoredConstants(source)))

(* The functions begun are in the symbol table, each at its offset. *)
NamesFollow ==
  /\ Len(names) = IF at = 0 THEN fn - 1 ELSE fn
  /\ \A f \in 1 .. Len(names) :
       names[f] = [name |-> ShortName(source.funcs[f].name), offset |-> FunctionOffset(source, f)]

(* The commands so far are those of the functions and of the operations passed. *)
ProgramFollows == program = FuncsUpTo(source, fn - 1) \o OpsUpTo(source, fn, at - 1)

(* What Serializable asks of an operation. *)
Acceptable(v) ==
  LET operation == OperationAt(source, v)
  IN /\ operation.op # "unsupported"
     /\ v \in StoredConstants(source) \/ operation.op = "print" => operation.regular
     /\ operation.op \in {"call_tir", "print"} =>
          \A a \in DOMAIN operation.args : <<v[1], operation.args[a]>> \in Stored(source)

(* Nothing that was passed should have been refused. *)
Accepted == \A v \in Seen(Positions(source.funcs)) : Acceptable(v)

(* The executables so far are those of the first prim funcs. *)
ExesFollow ==
  /\ stage = "images" => exes = <<>>
  /\ stage \in {"functions", "written"} => Len(exes) = Len(source.prims)
  /\ \A p \in 1 .. Len(exes) :
       /\ exes[p] = Executable(source.prims[p], p \in images)
       /\ source.prims[p].kernel # "missing" /\ source.prims[p].rank2

(* The sections so far are those of what has been visited. *)
Follows ==
  InPlace /\ SlotsFollow /\ RodataFollows /\ NamesFollow /\ ProgramFollows /\ Accepted /\ ExesFollow

(* As long as nothing is refused; what is refused has no host program. *)
WrittenInv ==
  /\ IInv
  /\ stage # "rejected" => Follows
  /\ stage = "rejected" => ~Serializable(source)

-----------------------------------------------------------------------------
(* The walk at an operation of a function. *)
LEMMA AtPosition ==
  ASSUME IInv, NEW op, At(op)
  PROVE  /\ source \in SourceType /\ Verified(source)
         /\ fn \in DOMAIN source.funcs /\ at \in DOMAIN source.funcs[fn].body
         /\ fn \in Nat \ {0} /\ at \in Nat \ {0} /\ at <= Len(source.funcs[fn].body)
         /\ Here \in Positions(source.funcs) /\ OperationAt(source, Here) = Operation
         /\ stage = "functions" /\ Func.body = source.funcs[fn].body
<1>1. source \in SourceType /\ Verified(source) /\ fn \in Nat \ {0} /\ at \in Nat
  BY SourcesAssumption DEF IInv, TypeOK
<1>2. fn \in DOMAIN source.funcs
  <2>1. source.funcs \in Seq(FunctionType)
    BY <1>1 DEF SourceType
  <2>2. fn <= Len(source.funcs)
    BY DEF At
  <2>3. QED
    BY <1>1, <2>1, <2>2
<1>3. at \in DOMAIN source.funcs[fn].body
  BY DEF At, Func
<1>4. DOMAIN source.funcs[fn].body = 1 .. Len(source.funcs[fn].body) /\ Len(source.funcs[fn].body) \in Nat
  BY <1>1, <1>2, BodyTyped
<1>5. at \in Nat \ {0} /\ at <= Len(source.funcs[fn].body)
  BY <1>3, <1>4
<1>6. Here \in Positions(source.funcs)
  BY <1>1, <1>2, <1>3, IsPosition DEF Here
<1>7. OperationAt(source, Here) = Operation
  BY DEF OperationAt, Here, Operation, Func
<1>8. QED
  BY <1>1, <1>2, <1>3, <1>5, <1>6, <1>7 DEF At, Func

(* The sets of what is stored. *)
LEMMA StoredSets ==
  ASSUME NEW s \in SourceType
  PROVE  /\ Stored(s) \in SUBSET Positions(s.funcs) /\ StoredConstants(s) \in SUBSET Positions(s.funcs)
         /\ IsFiniteSet(Stored(s)) /\ IsFiniteSet(StoredConstants(s))
<1>1. Stored(s) \in SUBSET Positions(s.funcs) /\ StoredConstants(s) \in SUBSET Positions(s.funcs)
  BY DEF Stored, StoredConstants
<1>2. QED
  BY <1>1, FinitePositions, FS_Subset

(* What is seen after the operation at hand. *)
LEMMA SeenNext ==
  ASSUME source \in SourceType, fn \in Nat, at \in Nat, NEW S \in SUBSET Positions(source.funcs),
         fn' = fn, at' = at + 1
  PROVE  /\ {v \in S : Before(v, Here')} = Seen(S) \cup (IF Here \in S THEN {Here} ELSE {})
         /\ Here \notin Seen(S)
         /\ Seen(S) \in SUBSET S
<1>1. Here' = <<fn, at + 1>>
  BY DEF Here
<1>2. /\ {v \in S : Before(v, <<fn, at + 1>>)}
           = {v \in S : Before(v, <<fn, at>>)} \cup {v \in S : v = <<fn, at>>}
      /\ <<fn, at>> \notin {v \in S : Before(v, <<fn, at>>)}
      /\ {v \in S : v = <<fn, at>>} = IF <<fn, at>> \in S THEN {<<fn, at>>} ELSE {}
  BY BeforeNext
<1>3. QED
  BY <1>1, <1>2 DEF Here, Seen

(* An operation that is passed with what it stands for. *)
LEMMA Passed ==
  ASSUME IInv, Follows, NEW op, At(op), Advance, Acceptable(Here),
         UNCHANGED <<source, images, exes, names>>,
         program' = program \o CommandsOf(source, Here),
         Here \in Stored(source) => AssignSlot(Here),
         Here \notin Stored(source) => UNCHANGED slots,
         rodata' = IF Here \in StoredConstants(source) THEN rodata + Size(Operation) ELSE rodata
  PROVE  Follows'
<1>1. /\ source \in SourceType /\ fn \in DOMAIN source.funcs /\ at \in DOMAIN source.funcs[fn].body
      /\ fn \in Nat \ {0} /\ at \in Nat \ {0} /\ at <= Len(source.funcs[fn].body)
      /\ Here \in Positions(source.funcs) /\ OperationAt(source, Here) = Operation
      /\ stage = "functions" /\ Func.body = source.funcs[fn].body
  BY AtPosition
<1>2. stage' = stage /\ fn' = fn /\ at' = at + 1 /\ source' = source
  BY DEF Advance
<1>4. InPlace'
  BY <1>1, <1>2, BodyTyped DEF Follows, InPlace, Func
<1>5. /\ Stored(source) \in SUBSET Positions(source.funcs)
      /\ StoredConstants(source) \in SUBSET Positions(source.funcs)
      /\ IsFiniteSet(Stored(source)) /\ IsFiniteSet(StoredConstants(source))
  BY <1>1, StoredSets
<1>6. SlotsFollow'
  <2> DEFINE S == Stored(source)
  <2>1. {v \in S : Before(v, Here')} = Seen(S) \cup (IF Here \in S THEN {Here} ELSE {}) /\ Here \notin Seen(S)
    BY <1>1, <1>2, <1>5, SeenNext
  <2>2. Seen(S)' = {v \in S : Before(v, Here')}
    BY <1>2 DEF Seen
  <2>3. /\ DOMAIN slotOf = Seen(S) /\ \A v \in DOMAIN slotOf : slotOf[v] = Slot(source, v)
        /\ nextSlot = Cardinality(Seen(S)) /\ nextSlot = Slot(source, Here)
    BY DEF Follows, SlotsFollow, Slot, Seen
  <2>4. IsFiniteSet(Seen(S))
    BY <1>5, FS_Subset DEF Seen
  <2> HIDE DEF S
  <2>5. CASE Here \in S
    <3>1. Seen(S)' = Seen(S) \cup {Here}
      BY <2>1, <2>2, <2>5
    <3>2. /\ DOMAIN slotOf' = DOMAIN slotOf \cup {Here} /\ nextSlot' = nextSlot + 1
          /\ \A v \in DOMAIN slotOf' : slotOf'[v] = IF v = Here THEN nextSlot ELSE slotOf[v]
      BY <2>5 DEF AssignSlot, S
    <3>3. Cardinality(Seen(S) \cup {Here}) = Cardinality(Seen(S)) + 1
      BY <2>1, <2>4, FS_AddElement
    <3>4. \A v \in DOMAIN slotOf' : slotOf'[v] = Slot(source, v)
      BY <2>3, <3>2
    <3>5. DOMAIN slotOf' = Seen(S)' /\ nextSlot' = Cardinality(Seen(S)')
      BY <2>3, <3>1, <3>2, <3>3
    <3>6. QED
      BY <1>2, <3>4, <3>5 DEF SlotsFollow, S
  <2>6. CASE Here \notin S
    <3>1. Seen(S)' = Seen(S)
      BY <2>1, <2>2, <2>6
    <3>2. slotOf' = slotOf /\ nextSlot' = nextSlot
      BY <2>6 DEF S, slots
    <3>3. QED
      BY <1>2, <2>3, <3>1, <3>2 DEF SlotsFollow, S
  <2>7. QED
    BY <2>5, <2>6
<1>7. RodataFollows'
  <2> DEFINE S == StoredConstants(source)
             w == [v \in Positions(source.funcs) |-> Size(OperationAt(source, v))]
  <2>1. /\ {v \in S : Before(v, Here')} = Seen(S) \cup (IF Here \in S THEN {Here} ELSE {})
        /\ Here \notin Seen(S) /\ Seen(S) \in SUBSET S
    BY <1>1, <1>2, <1>5, SeenNext
  <2>2. Seen(S)' = {v \in S : Before(v, Here')}
    BY <1>2 DEF Seen
  <2>3. rodata = RodataSize(source, Seen(S))
    BY DEF Follows, RodataFollows
  <2>4. w[Here] = Size(Operation)
    BY <1>1
  <2>5. S \in SUBSET Positions(source.funcs)
    BY <1>5
  <2>6. w = [v \in Positions(source.funcs) |-> Size(OperationAt(source, v))]
    OBVIOUS
  <2> HIDE DEF S, w
  <2>7. \A C \in SUBSET Positions(source.funcs) : RodataSize(source, C) = Total(w, C)
    BY <1>1, <2>6, RodataIsTotal
  <2>8. \A v \in Positions(source.funcs) : w[v] \in Nat
    <3>1. {} \in SUBSET Positions(source.funcs)
      OBVIOUS
    <3>2. QED
      BY <1>1, <2>6, <3>1, RodataIsTotal
  <2>9. CASE Here \in S
    <3>1. Seen(S)' = Seen(S) \cup {Here}
      BY <2>1, <2>2, <2>9
    <3>2. Total(w, Seen(S) \cup {Here}) = Total(w, Seen(S)) + w[Here]
      <4>1. IsFiniteSet(Positions(source.funcs)) /\ Seen(S) \in SUBSET Positions(source.funcs)
        BY <1>1, <2>1, <2>5, FinitePositions
      <4>2. PICK T, U, x : T = Positions(source.funcs) /\ U = Seen(S) /\ x = Here
        OBVIOUS
      <4>3. IsFiniteSet(T) /\ (\A u \in T : w[u] \in Nat) /\ U \in SUBSET T /\ x \in T /\ x \notin U
        BY ONLY <1>1, <2>1, <2>8, <4>1, <4>2
      <4>4. Total(w, U \cup {x}) = Total(w, U) + w[x]
        BY ONLY <4>3, TotalNext
      <4>5. QED
        BY ONLY <4>2, <4>4
    <3>3. rodata' = rodata + w[Here]
      BY <2>4, <2>9 DEF S
    <3>4. Seen(S) \in SUBSET Positions(source.funcs) /\ Seen(S) \cup {Here} \in SUBSET Positions(source.funcs)
      BY <1>1, <2>1, <2>5
    <3>5. RodataSize(source, Seen(S) \cup {Here}) = RodataSize(source, Seen(S)) + w[Here]
      BY <2>7, <3>2, <3>4
    <3>6. QED
      BY <1>2, <2>3, <3>1, <3>3, <3>5 DEF RodataFollows, S
  <2>10. CASE Here \notin S
    <3>1. Seen(S)' = Seen(S)
      BY <2>1, <2>2, <2>10
    <3>2. rodata' = rodata
      BY <2>10 DEF S
    <3>3. QED
      BY <1>2, <2>3, <3>1, <3>2 DEF RodataFollows, S
  <2>11. QED
    BY <2>9, <2>10
<1>8. NamesFollow'
  <2>1. at # 0 /\ at' # 0
    BY <1>1, <1>2
  <2>2. QED
    BY <1>2, <2>1 DEF Follows, NamesFollow
<1>9. ProgramFollows'
  <2>1. at - 1 \in Nat /\ (at - 1) + 1 = at /\ at' - 1 = at /\ fn - 1 \in Nat /\ fn - 1 <= Len(source.funcs)
    BY <1>1, <1>2, BodyTyped
  <2>2. OpsUpTo(source, fn, at - 1) \in Seq(Emits(source))
    <3>1. (at - 1) + 1 \in DOMAIN source.funcs[fn].body
      BY <1>1, <2>1
    <3>2. QED
      BY <1>1, <2>1, <3>1, OpsNext
  <2>3. OpsUpTo(source, fn, at) = OpsUpTo(source, fn, at - 1) \o CommandsOf(source, Here)
    <3>1. (at - 1) + 1 \in DOMAIN source.funcs[fn].body
      BY <1>1, <2>1
    <3>2. OpsUpTo(source, fn, (at - 1) + 1)
            = OpsUpTo(source, fn, at - 1) \o CommandsOf(source, <<fn, (at - 1) + 1>>)
      BY <1>1, <2>1, <3>1, OpsNext
    <3>3. QED
      BY <2>1, <3>2 DEF Here
  <2>4. FuncsUpTo(source, fn - 1) \in Seq(Emits(source))
    BY <1>1, <2>1, FuncsTyped
  <2>5. CommandsOf(source, Here) \in Seq(Emits(source))
    BY <1>1, CommandsTyped
  <2>6. \A a, b, c \in Seq(Emits(source)) : (a \o b) \o c = a \o (b \o c)
    BY SMTT(30), ConcatAssociative
  <2>7. program' = (FuncsUpTo(source, fn - 1) \o OpsUpTo(source, fn, at - 1)) \o CommandsOf(source, Here)
    BY DEF Follows, ProgramFollows
  <2>8. program' = FuncsUpTo(source, fn - 1) \o OpsUpTo(source, fn, at)
    BY ONLY SMTT(30), <2>2, <2>3, <2>4, <2>5, <2>6, <2>7
  <2>9. QED
    BY <1>2, <2>1, <2>8 DEF ProgramFollows
<1>10. Accepted'
  <2> DEFINE S == Positions(source.funcs)
  <2>1. {v \in S : Before(v, Here')} = Seen(S) \cup {Here}
    BY <1>1, <1>2, SeenNext
  <2>2. Accepted' <=> \A v \in {u \in S : Before(u, Here')} : Acceptable(v)
    BY <1>2 DEF Accepted, Acceptable, Seen
  <2>3. QED
    BY <2>1, <2>2 DEF Follows, Accepted
<1>11. ExesFollow'
  BY <1>2 DEF Follows, ExesFollow
<1>12. QED
  BY <1>4, <1>6, <1>7, <1>8, <1>9, <1>10, <1>11 DEF Follows

(* What is refused at an operation has no host program. *)
LEMMA Refused ==
  ASSUME IInv, NEW op, At(op), ~Acceptable(Here)
  PROVE  ~Serializable(source)
  BY AtPosition DEF Serializable, Acceptable

(* Where an operation is, its slot and its place in RODATA are the next ones. *)
LEMMA NextOnes ==
  ASSUME IInv, Follows, NEW op, At(op)
  PROVE  /\ Slot(source, Here) = nextSlot /\ RodataOffset(source, Here) = rodata
         /\ program \in Seq(CommandType) /\ program \o <<>> = program
<1>1. Slot(source, Here) = nextSlot /\ RodataOffset(source, Here) = rodata
  BY DEF Follows, SlotsFollow, RodataFollows, Slot, RodataOffset, Seen
<1>2. program \in Seq(CommandType)
  BY DEF IInv, TypeOK
<1>3. QED
  BY <1>1, <1>2

(* An operand has a slot if and only if it is stored. *)
LEMMA OperandSlots ==
  ASSUME IInv, Follows, NEW op, At(op), NEW a \in DOMAIN Operation.args
  PROVE  /\ HasSlot(Operation.args[a]) <=> <<fn, Operation.args[a]>> \in Stored(source)
         /\ HasSlot(Operation.args[a]) =>
              slotOf[<<fn, Operation.args[a]>>] = Slot(source, <<fn, Operation.args[a]>>)
<1>1. /\ source \in SourceType /\ Verified(source)
      /\ fn \in DOMAIN source.funcs /\ at \in DOMAIN source.funcs[fn].body
      /\ Func.body = source.funcs[fn].body
  BY AtPosition
<1>2. Operation.args[a] < at
  BY <1>1 DEF Verified, Operation
<1>3. DOMAIN slotOf = Seen(Stored(source)) /\ \A v \in DOMAIN slotOf : slotOf[v] = Slot(source, v)
  BY DEF Follows, SlotsFollow
<1>4. Before(<<fn, Operation.args[a]>>, Here)
  BY <1>2 DEF Before, Here
<1>5. QED
  BY <1>3, <1>4 DEF HasSlot, Seen

(* A constant that is stored is one more value with a slot, in RODATA where the last one ended. *)
LEMMA ConstantFollows ==
  ASSUME IInv, Follows, Constant
  PROVE  (stage' # "rejected" => Follows') /\ (stage' = "rejected" => ~Serializable(source'))
<1>1. /\ At("constant") /\ source' = source
      /\ UNCHANGED <<source, images, exes, names>>
  BY DEF Constant
<1>2. /\ Here \in Positions(source.funcs) /\ OperationAt(source, Here) = Operation
      /\ Operation.op = "constant" /\ stage = "functions" /\ Func.body = source.funcs[fn].body
      /\ source \in SourceType
  BY <1>1, AtPosition DEF At
<1>3. /\ Here \in StoredConstants(source) <=> Used(Func.body, at)
      /\ Here \in Stored(source) <=> Used(Func.body, at)
  <2>1. Here[1] = fn /\ Here[2] = at
    BY DEF Here
  <2>2. QED
    BY <1>2, <2>1 DEF StoredConstants, Stored
<1>4. Operation.regular \/ ~Used(Func.body, at) => Acceptable(Here)
  BY <1>2, <1>3 DEF Acceptable
<1>5. CASE ~Used(Func.body, at) /\ Advance /\ UNCHANGED <<rodata, program, slots>>
  <2>1. CommandsOf(source, Here) = <<>>
    BY <1>2, <1>3, <1>5, CommandsByKind
  <2>2. program' = program \o CommandsOf(source, Here)
    BY <1>1, <1>5, <2>1, NextOnes
  <2>3. QED
    BY <1>1, <1>2, <1>3, <1>4, <1>5, <2>2, Passed DEF Advance
<1>6. CASE Used(Func.body, at) /\ ~Operation.regular /\ Reject
  <2>1. ~Acceptable(Here)
    BY <1>2, <1>3, <1>6 DEF Acceptable
  <2>2. QED
    BY <1>1, <1>6, <2>1, Refused DEF Reject
<1>7. CASE /\ Used(Func.body, at) /\ Operation.regular
           /\ rodata' = rodata + Size(Operation)
           /\ Emit(<<Command("CONST", <<nextSlot, rodata, Size(Operation)>>)>>)
           /\ AssignSlot(<<fn, at>>)
           /\ Advance
  <2>1. CommandsOf(source, Here) = <<[kind |-> "CONST", ops |-> <<nextSlot, rodata, Size(Operation)>>]>>
    BY <1>1, <1>2, <1>3, <1>7, CommandsByKind, NextOnes
  <2>2. program' = program \o CommandsOf(source, Here)
    BY <1>7, <2>1 DEF Emit, Command
  <2>3. AssignSlot(Here)
    BY <1>7 DEF Here
  <2>4. QED
    BY <1>1, <1>2, <1>3, <1>4, <1>7, <2>2, <2>3, Passed DEF Advance
<1>8. QED
  BY <1>5, <1>6, <1>7 DEF Constant

(* A print reads the slot its operand has, or is refused. *)
LEMMA PrintFollows ==
  ASSUME IInv, Follows, PrintOp
  PROVE  (stage' # "rejected" => Follows') /\ (stage' = "rejected" => ~Serializable(source'))
<1>1. /\ At("print") /\ source' = source
      /\ UNCHANGED <<source, images, exes, names, rodata, slots>>
  BY DEF PrintOp
<1>2. /\ Here \in Positions(source.funcs) /\ OperationAt(source, Here) = Operation
      /\ Operation.op = "print" /\ stage = "functions" /\ source \in SourceType
  BY <1>1, AtPosition DEF At
<1>3. Here \notin StoredConstants(source) /\ Here \notin Stored(source)
  BY <1>2 DEF StoredConstants, Stored
<1>4. /\ Operation.args \in Seq(Nat) /\ Len(Operation.args) = 1
      /\ DOMAIN Operation.args = {1}
  <2>1. Operation.args \in Seq(Nat) /\ Len(Operation.args) = 1
    BY <1>1, OperationTyped DEF IInv
  <2>2. QED
    BY <2>1
<1>5. /\ HasSlot(Operation.args[1]) <=> <<fn, Operation.args[1]>> \in Stored(source)
      /\ HasSlot(Operation.args[1]) =>
           slotOf[<<fn, Operation.args[1]>>] = Slot(source, <<fn, Operation.args[1]>>)
  BY <1>1, <1>4, OperandSlots
<1>6. Acceptable(Here) <=> HasSlot(Operation.args[1]) /\ Operation.regular
  <2>1. Here[1] = fn
    BY DEF Here
  <2>2. QED
    BY <1>2, <1>3, <1>4, <1>5, <2>1 DEF Acceptable
<1>7. CASE HasSlot(Operation.args[1]) /\ Operation.regular
  <2>1. /\ Emit(<<Command("PRINT", <<slotOf[<<fn, Operation.args[1]>>], Operation.rows, Operation.cols>>)>>)
        /\ Advance
    BY <1>7 DEF PrintOp
  <2>2. CommandsOf(source, Here)
          = <<[kind |-> "PRINT", ops |-> <<slotOf[<<fn, Operation.args[1]>>], Operation.rows, Operation.cols>>]>>
    <3>1. Here[1] = fn
      BY DEF Here
    <3>2. QED
      BY ZenonT(40), <1>2, <1>5, <1>7, <3>1, CommandsByKind
  <2>3. program' = program \o CommandsOf(source, Here)
    BY <2>1, <2>2 DEF Emit, Command
  <2>4. Acceptable(Here)
    BY <1>6, <1>7
  <2>5. QED
    BY <1>1, <1>2, <1>3, <2>1, <2>3, <2>4, Passed DEF Advance
<1>8. CASE ~(HasSlot(Operation.args[1]) /\ Operation.regular)
  <2>1. Reject
    BY <1>8 DEF PrintOp
  <2>2. QED
    BY <1>1, <1>6, <1>8, <2>1, Refused DEF Reject
<1>9. QED
  BY <1>7, <1>8

(* A return writes nothing. *)
LEMMA ReturnFollows ==
  ASSUME IInv, Follows, Return
  PROVE  (stage' # "rejected" => Follows') /\ (stage' = "rejected" => ~Serializable(source'))
<1>1. /\ At("return") /\ Advance
      /\ UNCHANGED <<source, images, exes, names, rodata, program, slots>>
  BY DEF Return, sections
<1>2. /\ Here \in Positions(source.funcs) /\ OperationAt(source, Here) = Operation
      /\ Operation.op = "return" /\ stage = "functions" /\ source \in SourceType
  BY <1>1, AtPosition DEF At
<1>3. Here \notin StoredConstants(source) /\ Here \notin Stored(source)
  BY <1>2 DEF StoredConstants, Stored
<1>4. CommandsOf(source, Here) = <<>> /\ Acceptable(Here)
  <2>1. CommandsOf(source, Here) = <<>>
    BY <1>2, <1>3, CommandsByKind
  <2>2. Acceptable(Here)
    BY <1>2, <1>3 DEF Acceptable
  <2>3. QED
    BY <2>1, <2>2
<1>5. program' = program \o CommandsOf(source, Here)
  BY <1>1, <1>4, NextOnes
<1>6. QED
  BY <1>1, <1>2, <1>3, <1>4, <1>5, Passed DEF Advance

(* An operation that is none of these is refused, rightly. *)
LEMMA UnsupportedFollows ==
  ASSUME IInv, Follows, Unsupported
  PROVE  (stage' # "rejected" => Follows') /\ (stage' = "rejected" => ~Serializable(source'))
<1>1. At("unsupported") /\ Reject /\ source' = source
  BY DEF Unsupported
<1>2. OperationAt(source, Here) = Operation /\ Operation.op = "unsupported"
  BY <1>1, AtPosition DEF At
<1>3. ~Acceptable(Here)
  BY <1>2 DEF Acceptable
<1>4. QED
  BY <1>1, <1>3, Refused DEF Reject

(* A call binds a slot of its own, after all of its operands have theirs, or is refused. *)
LEMMA CallFollows ==
  ASSUME IInv, Follows, CallTIR
  PROVE  (stage' # "rejected" => Follows') /\ (stage' = "rejected" => ~Serializable(source'))
<1> DEFINE o == Operation
           args == [a \in DOMAIN o.args |-> Slot(source, <<fn, o.args[a]>>)]
           head == <<o.callee - 1, Len(o.args) + 1>>
           alloc == Command("ALLOC", <<nextSlot, Size(Operation)>>)
           dispatch == Command("DISPATCH", DispatchOps(Operation.callee, ArgSlots, nextSlot))
<1>1. /\ At("call_tir") /\ source' = source
      /\ UNCHANGED <<source, images, exes, names, rodata>>
  BY DEF CallTIR
<1>2. /\ Here \in Positions(source.funcs) /\ OperationAt(source, Here) = Operation
      /\ Operation.op = "call_tir" /\ stage = "functions" /\ source \in SourceType /\ Verified(source)
      /\ fn \in DOMAIN source.funcs /\ at \in DOMAIN source.funcs[fn].body /\ Func.body = source.funcs[fn].body
  BY <1>1, AtPosition DEF At
<1>3. Here \notin StoredConstants(source) /\ Here \in Stored(source)
  BY <1>2 DEF StoredConstants, Stored
<1>4. o.callee \in DOMAIN exes
  <2>1. o.callee \in DOMAIN source.prims
    BY <1>2 DEF Verified, Operation
  <2>2. source.prims \in Seq(PrimType) /\ exes \in Seq(ExecutableType)
    BY <1>2 DEF SourceType, IInv, TypeOK
  <2>3. Len(exes) = Len(source.prims)
    BY <1>2 DEF Follows, ExesFollow
  <2>4. QED
    BY <2>1, <2>2, <2>3
<1>5. /\ AssignSlot(<<fn, at>>)
      /\ \/ /\ \E a \in DOMAIN o.args : ~HasSlot(o.args[a])
            /\ Emit(<<alloc>>) /\ Reject
         \/ /\ \A a \in DOMAIN o.args : HasSlot(o.args[a])
            /\ Emit(<<alloc, dispatch>>) /\ Advance
  BY <1>4 DEF CallTIR
<1>6. Here[1] = fn
  BY DEF Here
<1>7. Acceptable(Here) <=> \A a \in DOMAIN o.args : HasSlot(o.args[a])
  <2>1. \A a \in DOMAIN o.args : HasSlot(o.args[a]) <=> <<fn, o.args[a]>> \in Stored(source)
    BY <1>1, OperandSlots
  <2>2. QED
    BY <1>2, <1>3, <1>6, <2>1 DEF Acceptable
<1>8. CASE (\E a \in DOMAIN o.args : ~HasSlot(o.args[a])) /\ Reject
  BY <1>1, <1>7, <1>8, Refused DEF Reject
<1>9. CASE (\A a \in DOMAIN o.args : HasSlot(o.args[a])) /\ Emit(<<alloc, dispatch>>) /\ Advance
  <2>1. ArgSlots = args
    BY <1>1, <1>9, OperandSlots DEF ArgSlots
  <2>2. Len(args) = Len(o.args) /\ args \in Seq(Nat) /\ nextSlot \in Nat
    <3>1. o.args \in Seq(Nat)
      BY <1>1, OperationTyped DEF IInv
    <3>2. \A a \in DOMAIN o.args : Slot(source, <<fn, o.args[a]>>) \in Nat
      <4>1. \A v \in DOMAIN slotOf : slotOf[v] \in Nat
        BY DEF IInv, TypeOK
      <4>2. ASSUME NEW a \in DOMAIN o.args
            PROVE  Slot(source, <<fn, o.args[a]>>) \in Nat
        <5>1. HasSlot(o.args[a]) /\ slotOf[<<fn, o.args[a]>>] = Slot(source, <<fn, o.args[a]>>)
          BY <1>1, <1>9, OperandSlots
        <5>2. QED
          BY <4>1, <5>1 DEF HasSlot
      <4>3. QED
        BY <4>2
    <3>3. nextSlot \in Nat
      BY DEF IInv, TypeOK
    <3>4. Len(args) = Len(o.args) /\ args \in Seq(Nat)
      <4>1. \A q \in Seq(Nat) : \A g :
              g = [a \in DOMAIN q |-> g[a]] /\ (\A a \in DOMAIN q : g[a] \in Nat) =>
                Len(g) = Len(q) /\ g \in Seq(Nat)
        OBVIOUS
      <4>2. args = [a \in DOMAIN o.args |-> args[a]] /\ \A a \in DOMAIN o.args : args[a] \in Nat
        BY <3>2
      <4> HIDE DEF args
      <4>3. QED
        BY ONLY <3>1, <4>1, <4>2
    <3>5. QED
      BY <3>3, <3>4
  <2>3. DispatchOps(o.callee, args, nextSlot) = (head \o args) \o <<nextSlot>>
    <3>1. PICK h \in Seq(Int), y \in Seq(Int), d \in Int : h = head /\ y = args /\ d = nextSlot
      <4>1. head \in Seq(Int)
        <5>1. o.callee \in Nat /\ o.args \in Seq(Nat)
          BY <1>1, OperationTyped DEF IInv
        <5>2. o.callee - 1 \in Int /\ Len(o.args) + 1 \in Int
          BY <5>1
        <5>3. QED
          BY <5>2
      <4>2. args \in Seq(Int) /\ nextSlot \in Int
        BY <2>2
      <4>3. QED
        BY <4>1, <4>2
    <3>2. Append(y, d) = y \o <<d>> /\ <<d>> \in Seq(Int)
      OBVIOUS
    <3>3. h \o (y \o <<d>>) = (h \o y) \o <<d>>
      BY <3>2, ConcatAssociative
    <3>4. DispatchOps(o.callee, args, nextSlot) = h \o Append(y, d)
      <4>1. DispatchOps(o.callee, args, nextSlot) = <<o.callee - 1, Len(args) + 1>> \o Append(args, nextSlot)
        BY DEF DispatchOps
      <4>2. <<o.callee - 1, Len(args) + 1>> = head
        BY <2>2
      <4> HIDE DEF head, args
      <4>3. QED
        BY <3>1, <4>1, <4>2
    <3> HIDE DEF head, args
    <3>5. QED
      BY <3>1, <3>2, <3>3, <3>4
  <2>4. CommandsOf(source, Here)
          = <<[kind |-> "ALLOC", ops |-> <<nextSlot, Size(o)>>],
              [kind |-> "DISPATCH", ops |-> (head \o args) \o <<nextSlot>>]>>
    <3>1. Slot(source, Here) = nextSlot
      BY <1>1, NextOnes
    <3>2. CommandsOf(source, Here)
            = <<[kind |-> "ALLOC", ops |-> <<Slot(source, Here), Size(o)>>],
                [kind |-> "DISPATCH",
                 ops |-> <<o.callee - 1, Len(o.args) + 1>>
                         \o [a \in DOMAIN o.args |-> Slot(source, <<Here[1], o.args[a]>>)] \o <<Slot(source, Here)>>]>>
      BY <1>2, CommandsByKind
    <3>3. QED
      BY <1>6, <3>1, <3>2
  <2>5. program' = program \o CommandsOf(source, Here)
    <3>1. program' = program \o <<alloc, dispatch>>
      BY <1>9 DEF Emit
    <3>2. /\ alloc = [kind |-> "ALLOC", ops |-> <<nextSlot, Size(o)>>]
          /\ dispatch = [kind |-> "DISPATCH", ops |-> (head \o args) \o <<nextSlot>>]
      BY <2>1, <2>3 DEF Command
    <3>3. QED
      BY <2>4, <3>1, <3>2
  <2>6. AssignSlot(Here) /\ Acceptable(Here)
    BY <1>5, <1>7, <1>9 DEF Here
  <2>7. QED
    BY <1>1, <1>2, <1>3, <1>9, <2>5, <2>6, Passed DEF Advance
<1>10. QED
  BY <1>5, <1>8, <1>9

(* Before anything is visited the sections are empty. *)
LEMMA InitFollows == IInv /\ Init => Follows
<1> SUFFICES ASSUME IInv, Init PROVE Follows
  OBVIOUS
<1>1. /\ source \in SourceType /\ fn = 1 /\ at = 0 /\ stage = "images" /\ exes = <<>> /\ names = <<>>
      /\ program = <<>> /\ rodata = 0 /\ nextSlot = 0 /\ DOMAIN slotOf = {}
  BY DEF IInv, TypeOK, Init
<1>2. Len(source.funcs) \in Nat
  <2>1. source.funcs \in Seq(FunctionType)
    BY <1>1 DEF SourceType
  <2>2. QED
    BY <2>1
<1>3. \A S \in SUBSET Positions(source.funcs) : Seen(S) = {}
  <2>1. ASSUME NEW v \in Positions(source.funcs) PROVE ~Before(v, Here)
    <3>1. v[1] \in Nat \ {0} /\ v[2] \in Nat \ {0}
      BY <1>1, PositionIs
    <3>2. QED
      BY <1>1, <3>1 DEF Before, Here
  <2>2. QED
    BY <2>1 DEF Seen
<1>4. Seen(Stored(source)) = {} /\ Seen(StoredConstants(source)) = {} /\ Seen(Positions(source.funcs)) = {}
  BY <1>1, <1>3, StoredSets
<1>5. InPlace
  <2>1. fn <= Len(source.funcs) => Len(Func.body) \in Nat
    <3>1. ASSUME fn <= Len(source.funcs) PROVE Len(Func.body) \in Nat
      <4>1. source.funcs \in Seq(FunctionType)
        BY <1>1 DEF SourceType
      <4>2. fn \in DOMAIN source.funcs
        BY <1>1, <1>2, <3>1, <4>1
      <4>3. QED
        BY <1>1, <4>2, BodyTyped DEF Func
    <3>2. QED
      BY <3>1
  <2>2. QED
    BY <1>1, <1>2, <2>1 DEF InPlace
<1>6. SlotsFollow
  BY <1>1, <1>4, FS_EmptySet DEF SlotsFollow
<1>7. RodataFollows
  <2>1. PICK w : w = [v \in Positions(source.funcs) |-> Size(OperationAt(source, v))]
    OBVIOUS
  <2>2. RodataSize(source, {}) = Total(w, {})
    BY <1>1, <2>1, RodataIsTotal
  <2>3. QED
    BY <1>1, <1>4, <2>2, TotalOfNothing DEF RodataFollows
<1>8. NamesFollow
  BY <1>1 DEF NamesFollow
<1>9. ProgramFollows
  <2>1. FuncsUpTo(source, 0) = <<>> /\ OpsUpTo(source, 1, -1) = <<>>
    BY NoneYet
  <2>2. fn - 1 = 0 /\ at - 1 = -1 /\ <<>> \o <<>> = <<>>
    BY <1>1
  <2>3. QED
    BY <1>1, <2>1, <2>2 DEF ProgramFollows
<1>10. Accepted /\ ExesFollow
  BY <1>1, <1>4 DEF Accepted, ExesFollow
<1>11. QED
  BY <1>5, <1>6, <1>7, <1>8, <1>9, <1>10 DEF Follows

(* Steps before the walk, and after it. *)
LEMMA WalkKept ==
  ASSUME Follows, UNCHANGED <<source, fn, at, slotOf, nextSlot, rodata, program, names>>
  PROVE  SlotsFollow' /\ RodataFollows' /\ NamesFollow' /\ ProgramFollows' /\ Accepted'
<1>1. \A S : {v \in S : Before(v, Here')} = Seen(S)
  BY DEF Seen, Here
<1>2. SlotsFollow' /\ RodataFollows'
  BY DEF Follows, SlotsFollow, RodataFollows, Seen, Here
<1>3. NamesFollow' /\ ProgramFollows'
  BY DEF Follows, NamesFollow, ProgramFollows
<1>4. Accepted'
  BY DEF Follows, Accepted, Acceptable, Seen, Here
<1>5. QED
  BY <1>2, <1>3, <1>4

(* Compiling device code decides which images there are, and no executable is there yet. *)
LEMMA CompileFollows ==
  ASSUME IInv, Follows, CompileDeviceImages
  PROVE  Follows'
<1>1. /\ UNCHANGED <<source, fn, at, slotOf, nextSlot, rodata, program, names, exes>>
      /\ stage = "images" /\ stage' = "executables"
  BY DEF CompileDeviceImages, sections, slots
<1>2. exes = <<>>
  BY <1>1 DEF Follows, ExesFollow
<1>3. ExesFollow'
  BY <1>1, <1>2 DEF ExesFollow
<1>4. InPlace'
  BY <1>1 DEF Follows, InPlace, Func
<1>5. QED
  BY <1>1, <1>3, <1>4, WalkKept DEF Follows

(* With the last prim func collected the walk begins. *)
LEMMA DoneFollows ==
  ASSUME IInv, Follows, ExecutablesDone
  PROVE  Follows'
<1>1. /\ UNCHANGED <<source, fn, at, slotOf, nextSlot, rodata, program, names, exes, images>>
      /\ stage = "executables" /\ stage' = "functions" /\ Len(exes) = Len(source.prims)
  BY DEF ExecutablesDone, sections, slots
<1>2. ExesFollow'
  BY <1>1 DEF Follows, ExesFollow
<1>3. InPlace'
  BY <1>1 DEF Follows, InPlace, Func
<1>4. QED
  BY <1>1, <1>2, <1>3, WalkKept DEF Follows

(* Writing the file changes no section. *)
LEMMA WriteFollows ==
  ASSUME IInv, Follows, Write
  PROVE  Follows'
<1>1. /\ UNCHANGED <<source, fn, at, slotOf, nextSlot, rodata, program, names, exes, images>>
      /\ stage = "functions" /\ stage' = "written" /\ fn > Len(source.funcs)
  BY DEF Write, sections, slots
<1>2. ExesFollow'
  BY <1>1 DEF Follows, ExesFollow
<1>3. InPlace'
  <2>1. source.funcs \in Seq(FunctionType) /\ fn \in Nat
    BY DEF IInv, TypeOK, SourceType
  <2>2. fn = Len(source.funcs) + 1
    BY <1>1, <2>1 DEF Follows, InPlace
  <2>3. QED
    BY <1>1, <2>2 DEF Follows, InPlace, Func
<1>4. QED
  BY <1>1, <1>2, <1>3, WalkKept DEF Follows

(* A prim func becomes the executable stated for it, or is refused rightly. *)
LEMMA CollectFollows ==
  ASSUME IInv, Follows, CollectExecutable
  PROVE  (stage' # "rejected" => Follows') /\ (stage' = "rejected" => ~Serializable(source'))
<1> DEFINE n == Len(exes)
           prim == source.prims[n + 1]
<1>1. /\ UNCHANGED <<source, fn, at, slotOf, nextSlot, rodata, program, names, images>>
      /\ stage = "executables" /\ n < Len(source.prims)
  BY DEF CollectExecutable, slots
<1>2. source.prims \in Seq(PrimType) /\ exes \in Seq(ExecutableType)
  BY DEF IInv, TypeOK, SourceType
<1>3. n \in Nat /\ n + 1 \in DOMAIN source.prims
  BY <1>1, <1>2
<1>4. CASE prim.kernel = "missing" \/ ~prim.rank2
  <2>1. stage' = "rejected"
    BY <1>4 DEF CollectExecutable
  <2>2. ~Serializable(source)
    BY <1>3, <1>4 DEF Serializable
  <2>3. QED
    BY <1>1, <2>1, <2>2
<1>5. CASE ~(prim.kernel = "missing" \/ ~prim.rank2)
  <2>1. exes' = Append(exes, Entry(n + 1)) /\ stage' = stage
    BY <1>5 DEF CollectExecutable
  <2>2. Entry(n + 1) = Executable(prim, n + 1 \in images)
    BY DEF Entry, Executable, KernelKind
  <2>3. /\ Len(exes') = n + 1 /\ exes'[n + 1] = Entry(n + 1)
        /\ \A p \in 1 .. n : exes'[p] = exes[p]
    <3>1. \A e : /\ Len(Append(exes, e)) = n + 1 /\ Append(exes, e)[n + 1] = e
                 /\ \A p \in 1 .. n : Append(exes, e)[p] = exes[p]
      BY <1>2
    <3>2. QED
      BY <2>1, <3>1
  <2>4. ExesFollow'
    <3>1. ASSUME NEW p \in 1 .. n + 1
          PROVE  /\ exes'[p] = Executable(source.prims[p], p \in images)
                 /\ source.prims[p].kernel # "missing" /\ source.prims[p].rank2
      <4>1. CASE p = n + 1
        BY <1>5, <2>2, <2>3, <4>1
      <4>2. CASE p # n + 1
        <5>1. p \in 1 .. n
          BY <1>3, <4>2
        <5>2. QED
          BY <2>3, <5>1 DEF Follows, ExesFollow
      <4>3. QED
        BY <4>1, <4>2
    <3> HIDE DEF n
    <3>2. QED
      BY <1>1, <2>1, <2>3, <3>1 DEF ExesFollow
  <2>5. InPlace'
    BY <1>1, <2>1 DEF Follows, InPlace, Func
  <2>6. Follows'
    BY <1>1, <2>4, <2>5, WalkKept DEF Follows
  <2>7. QED
    BY <1>1, <2>1, <2>6
<1>6. QED
  BY <1>4, <1>5

(* A function begins where the commands so far end. *)
LEMMA BeginFollows ==
  ASSUME IInv, Follows, BeginFunction
  PROVE  Follows'
<1>1. /\ UNCHANGED <<source, images, exes, rodata, program, slotOf, nextSlot, stage, fn>>
      /\ stage = "functions" /\ at = 0 /\ at' = 1 /\ fn <= Len(source.funcs)
      /\ names' = Append(names, [name |-> ShortName(Func.name), offset |-> Len(program)])
  BY DEF BeginFunction, Advance, slots
<1>2. /\ source \in SourceType /\ fn \in Nat \ {0} /\ names \in Seq(SymbolType)
  BY DEF IInv, TypeOK
<1>3. fn \in DOMAIN source.funcs
  <2>1. source.funcs \in Seq(FunctionType)
    BY <1>2 DEF SourceType
  <2>2. QED
    BY <1>1, <1>2, <2>1
<1>4. Len(source.funcs[fn].body) \in Nat /\ Len(source.funcs) \in Nat
  BY <1>2, <1>3, BodyTyped
<1>5. InPlace'
  BY SMTT(30), <1>1, <1>2, <1>4 DEF Follows, InPlace, Func
<1>6. \A S \in SUBSET Positions(source.funcs) : {v \in S : Before(v, Here')} = Seen(S)
  <2>1. ASSUME NEW v \in Positions(source.funcs) PROVE v[2] # 0
    BY <1>2, PositionIs
  <2>2. ASSUME NEW S \in SUBSET Positions(source.funcs)
        PROVE  {v \in S : Before(v, Here')} = Seen(S)
    <3>1. Here \notin S
      BY <1>1, <2>1 DEF Here
    <3>2. {v \in S : Before(v, Here')} = Seen(S) \cup (IF Here \in S THEN {Here} ELSE {})
      BY <1>1, <1>2, SeenNext
    <3>3. QED
      BY <3>1, <3>2
  <2>3. QED
    BY <2>2
<1>7. /\ Seen(Stored(source))' = Seen(Stored(source))
      /\ Seen(StoredConstants(source))' = Seen(StoredConstants(source))
      /\ Seen(Positions(source.funcs))' = Seen(Positions(source.funcs))
  BY <1>1, <1>2, <1>6, StoredSets DEF Seen
<1>8. SlotsFollow' /\ RodataFollows'
  BY <1>1, <1>7 DEF Follows, SlotsFollow, RodataFollows
<1>9. Accepted'
  BY <1>1, <1>7 DEF Follows, Accepted, Acceptable
<1>10. ExesFollow'
  BY <1>1 DEF Follows, ExesFollow
<1>11. ProgramFollows' /\ program = FuncsUpTo(source, fn - 1)
  <2>1. OpsUpTo(source, fn, -1) = <<>> /\ OpsUpTo(source, fn, 0) = <<>> /\ at - 1 = -1 /\ at' - 1 = 0
    BY <1>1, NoneYet
  <2>2. FuncsUpTo(source, fn - 1) \in Seq(Emits(source))
    BY <1>2, <1>4, <1>1, FuncsTyped
  <2>3. FuncsUpTo(source, fn - 1) \o <<>> = FuncsUpTo(source, fn - 1)
    BY <2>2
  <2>4. program = FuncsUpTo(source, fn - 1) \o <<>>
    BY <2>1 DEF Follows, ProgramFollows
  <2>5. QED
    BY <1>1, <2>1, <2>3, <2>4 DEF ProgramFollows
<1>12. NamesFollow'
  <2>1. Len(names) = fn - 1
    BY <1>1 DEF Follows, NamesFollow
  <2>2. FunctionOffset(source, fn) = Len(program)
    <3>1. fn - 1 \in Nat /\ fn - 1 <= Len(source.funcs) /\ (fn - 1) + 1 = fn
      BY <1>1, <1>2, <1>4
    <3>2. FunctionOffset(source, (fn - 1) + 1) = Len(FuncsUpTo(source, fn - 1))
      BY <1>2, <3>1, OffsetIsLength
    <3>3. QED
      BY <1>11, <3>1, <3>2
  <2>3. /\ Len(names') = fn
        /\ names'[fn] = [name |-> ShortName(Func.name), offset |-> Len(program)]
        /\ \A f \in 1 .. fn - 1 : names'[f] = names[f]
    <3>1. \A e : /\ Len(Append(names, e)) = Len(names) + 1 /\ Append(names, e)[Len(names) + 1] = e
                 /\ \A f \in 1 .. Len(names) : Append(names, e)[f] = names[f]
      BY <1>2
    <3>2. Len(names) + 1 = fn
      BY <1>2, <2>1
    <3>3. QED
      BY <1>1, <2>1, <3>1, <3>2
  <2>4. ASSUME NEW f \in 1 .. fn
        PROVE  names'[f] = [name |-> ShortName(source.funcs[f].name), offset |-> FunctionOffset(source, f)]
    <3>1. CASE f = fn
      BY <2>2, <2>3, <3>1 DEF Func
    <3>2. CASE f # fn
      <4>1. f \in 1 .. fn - 1
        BY <1>2, <3>2
      <4>2. QED
        BY <2>1, <2>3, <4>1 DEF Follows, NamesFollow
    <3>3. QED
      BY <3>1, <3>2
  <2>5. QED
    BY <1>1, <2>3, <2>4 DEF NamesFollow
<1>13. QED
  BY <1>5, <1>8, <1>9, <1>10, <1>11, <1>12 DEF Follows

(* A function ends with END, and the next one comes after all of its operations. *)
LEMMA EndFollows ==
  ASSUME IInv, Follows, EndFunction
  PROVE  Follows'
<1>1. /\ UNCHANGED <<source, stage, images, exes, names, rodata, slotOf, nextSlot>>
      /\ stage = "functions" /\ fn <= Len(source.funcs) /\ at = Len(Func.body) + 1
      /\ fn' = fn + 1 /\ at' = 0 /\ program' = program \o <<EndCommand>>
  BY DEF EndFunction, slots, Emit, Command, EndCommand
<1>2. /\ source \in SourceType /\ fn \in Nat \ {0}
  BY DEF IInv, TypeOK
<1>3. fn \in DOMAIN source.funcs /\ Func.body = source.funcs[fn].body
  <2>1. source.funcs \in Seq(FunctionType)
    BY <1>2 DEF SourceType
  <2>2. QED
    BY <1>1, <1>2, <2>1 DEF Func
<1>4. Len(source.funcs[fn].body) \in Nat /\ Len(source.funcs) \in Nat
  BY <1>2, <1>3, BodyTyped
<1>5. InPlace'
  <2>1. fn + 1 <= Len(source.funcs) => Len(source.funcs[fn + 1].body) \in Nat
    <3>1. ASSUME fn + 1 <= Len(source.funcs) PROVE Len(source.funcs[fn + 1].body) \in Nat
      <4>1. fn + 1 \in DOMAIN source.funcs
        <5>1. DOMAIN source.funcs = 1 .. Len(source.funcs)
          BY <1>2, <1>3, BodyTyped
        <5>2. QED
          BY <1>2, <1>4, <3>1, <5>1
      <4>2. QED
        BY <1>2, <4>1, BodyTyped
    <3>2. QED
      BY <3>1
  <2>2. QED
    BY <1>1, <1>2, <1>4, <2>1 DEF InPlace, Func
<1>6. \A S \in SUBSET Positions(source.funcs) : {v \in S : Before(v, Here')} = Seen(S)
  <2>1. Here' = <<fn + 1, 0>> /\ Here = <<fn, Len(source.funcs[fn].body) + 1>>
    BY <1>1, <1>3 DEF Here
  <2>2. ASSUME NEW S \in SUBSET Positions(source.funcs)
        PROVE  {v \in S : Before(v, Here')} = Seen(S)
    <3>1. PICK i : i = Len(source.funcs[fn].body) + 1
      OBVIOUS
    <3>2. {v \in S : Before(v, <<fn + 1, 0>>)} = {v \in S : Before(v, <<fn, i>>)}
      BY <1>2, <1>3, <3>1, BeforeFunction
    <3>3. QED
      BY <2>1, <3>1, <3>2 DEF Seen
  <2>3. QED
    BY <2>2
<1>7. /\ Seen(Stored(source))' = Seen(Stored(source))
      /\ Seen(StoredConstants(source))' = Seen(StoredConstants(source))
      /\ Seen(Positions(source.funcs))' = Seen(Positions(source.funcs))
  BY <1>1, <1>2, <1>6, StoredSets DEF Seen
<1>8. SlotsFollow' /\ RodataFollows'
  BY <1>1, <1>7 DEF Follows, SlotsFollow, RodataFollows
<1>9. Accepted'
  BY <1>1, <1>7 DEF Follows, Accepted, Acceptable
<1>10. ExesFollow'
  BY <1>1 DEF Follows, ExesFollow
<1>11. NamesFollow'
  <2>1. at # 0 /\ (fn + 1) - 1 = fn
    BY <1>1, <1>2, <1>3, <1>4
  <2>2. QED
    BY <1>1, <2>1 DEF Follows, NamesFollow
<1>12. ProgramFollows'
  <2> DEFINE l == Len(source.funcs[fn].body)
             F == FuncsUpTo(source, fn - 1)
             O == OpsUpTo(source, fn, l)
  <2>1. at - 1 = l /\ fn - 1 \in Nat /\ (fn - 1) + 1 = fn /\ fn - 1 <= Len(source.funcs) /\ fn' - 1 = fn /\ at' - 1 = -1
    BY <1>1, <1>2, <1>3, <1>4
  <2>2. program = F \o O
    BY <2>1 DEF Follows, ProgramFollows
  <2>3. F \in Seq(Emits(source))
    BY <1>2, <2>1, FuncsTyped
  <2>4. /\ O \in Seq(Emits(source)) /\ <<EndCommand>> \in Seq(Emits(source))
        /\ FunctionCommands(source, fn) = O \o <<EndCommand>>
    BY <1>2, <1>3, FunctionIs
  <2>5. FuncsUpTo(source, fn) = F \o FunctionCommands(source, fn) /\ FuncsUpTo(source, fn) \in Seq(Emits(source))
    <3>1. (fn - 1) + 1 \in DOMAIN source.funcs
      BY <1>3, <2>1
    <3>2. /\ FuncsUpTo(source, (fn - 1) + 1) = F \o FunctionCommands(source, (fn - 1) + 1)
          /\ FuncsUpTo(source, (fn - 1) + 1) \in Seq(Emits(source))
      BY <1>2, <2>1, <3>1, FuncsNext
    <3>3. QED
      BY <2>1, <3>2
  <2> HIDE DEF F, O, l
  <2>6. (F \o O) \o <<EndCommand>> = F \o (O \o <<EndCommand>>)
    BY <2>3, <2>4, ConcatAssociative
  <2>7. program' = FuncsUpTo(source, fn)
    BY <1>1, <2>2, <2>4, <2>5, <2>6
  <2>8. FuncsUpTo(source, fn) \o <<>> = FuncsUpTo(source, fn)
    BY <2>5
  <2>9. OpsUpTo(source, fn + 1, -1) = <<>>
    BY NoneYet
  <2>10. QED
    BY <1>1, <2>1, <2>7, <2>8, <2>9 DEF ProgramFollows
<1>13. QED
  BY <1>5, <1>8, <1>9, <1>10, <1>11, <1>12 DEF Follows

(* Each step keeps the sections true to what was visited. *)
LEMMA WrittenStep == WrittenInv /\ IInv' /\ [Next]_vars => WrittenInv'
<1> SUFFICES ASSUME WrittenInv, IInv', [Next]_vars PROVE WrittenInv'
  OBVIOUS
<1>1. IInv /\ (stage # "rejected" => Follows) /\ (stage = "rejected" => ~Serializable(source))
  BY DEF WrittenInv
<1>2. ASSUME Next PROVE (stage' # "rejected" => Follows') /\ (stage' = "rejected" => ~Serializable(source'))
  <2>0. stage # "rejected" => Follows
    BY <1>1
  <2>1. CASE CompileDeviceImages
    BY <1>1, <2>1, CompileFollows DEF CompileDeviceImages
  <2>2. CASE CollectExecutable
    BY <1>1, <2>2, CollectFollows DEF CollectExecutable
  <2>3. CASE ExecutablesDone
    BY <1>1, <2>3, DoneFollows DEF ExecutablesDone
  <2>4. CASE BeginFunction
    <3>1. stage = "functions" /\ stage' = stage
      BY <2>4 DEF BeginFunction, Advance
    <3>2. QED
      BY <1>1, <2>4, <3>1, BeginFollows
  <2>5. CASE Constant
    <3>1. stage = "functions"
      BY <2>5 DEF Constant, At
    <3>2. QED
      BY <1>1, <2>5, <3>1, ConstantFollows
  <2>6. CASE CallTIR
    <3>1. stage = "functions"
      BY <2>6 DEF CallTIR, At
    <3>2. QED
      BY <1>1, <2>6, <3>1, CallFollows
  <2>7. CASE PrintOp
    <3>1. stage = "functions"
      BY <2>7 DEF PrintOp, At
    <3>2. QED
      BY <1>1, <2>7, <3>1, PrintFollows
  <2>8. CASE Return
    <3>1. stage = "functions"
      BY <2>8 DEF Return, At
    <3>2. QED
      BY <1>1, <2>8, <3>1, ReturnFollows
  <2>9. CASE Unsupported
    <3>1. stage = "functions"
      BY <2>9 DEF Unsupported, At
    <3>2. QED
      BY <1>1, <2>9, <3>1, UnsupportedFollows
  <2>10. CASE EndFunction
    <3>1. stage = "functions" /\ stage' = stage
      BY <2>10 DEF EndFunction
    <3>2. QED
      BY <1>1, <2>10, <3>1, EndFollows
  <2>11. CASE Write
    BY <1>1, <2>11, WriteFollows DEF Write
  <2>12. QED
    BY <1>2, <2>1, <2>2, <2>3, <2>4, <2>5, <2>6, <2>7, <2>8, <2>9, <2>10, <2>11 DEF Next
<1>3. CASE UNCHANGED vars
  <2>1. /\ UNCHANGED <<source, fn, at, slotOf, nextSlot, rodata, program, names>>
        /\ UNCHANGED <<stage, exes, images>>
    BY <1>3 DEF vars
  <2>2. Follows => Follows'
    <3>1. Follows => InPlace'
      BY <2>1 DEF Follows, InPlace, Func
    <3>2. Follows => ExesFollow'
      BY <2>1 DEF Follows, ExesFollow
    <3>3. QED
      BY <2>1, <3>1, <3>2, WalkKept DEF Follows
  <2>3. QED
    BY <1>1, <2>1, <2>2 DEF WrittenInv
<1>4. QED
  BY <1>2, <1>3 DEF WrittenInv

(* At the end everything was visited. *)
LEMMA AllVisited ==
  ASSUME IInv, Follows, stage = "written"
  PROVE  /\ source \in SourceType /\ at = 0 /\ fn = Len(source.funcs) + 1
         /\ Len(source.funcs) \in Nat /\ DOMAIN source.funcs = 1 .. Len(source.funcs)
         /\ \A S \in SUBSET Positions(source.funcs) : Seen(S) = S
         /\ program = FuncsUpTo(source, Len(source.funcs))
         /\ Len(names) = Len(source.funcs) /\ names \in Seq(SymbolType)
         /\ Len(exes) = Len(source.prims) /\ exes \in Seq(ExecutableType) /\ source.prims \in Seq(PrimType)
<1>1. /\ source \in SourceType /\ at = 0 /\ fn = Len(source.funcs) + 1
      /\ names \in Seq(SymbolType) /\ exes \in Seq(ExecutableType)
  BY DEF IInv, TypeOK, Follows, InPlace
<1>2. source.funcs \in Seq(FunctionType) /\ source.prims \in Seq(PrimType)
  BY <1>1 DEF SourceType
<1>3. Len(source.funcs) \in Nat /\ DOMAIN source.funcs = 1 .. Len(source.funcs)
  BY <1>2
<1>4. \A S \in SUBSET Positions(source.funcs) : Seen(S) = S
  <2>1. ASSUME NEW v \in Positions(source.funcs) PROVE Before(v, Here)
    <3>1. v[1] \in Nat /\ v[1] <= Len(source.funcs)
      BY <1>1, <1>3, PositionIs
    <3>2. QED
      BY <1>1, <1>3, <3>1 DEF Before, Here
  <2>2. QED
    BY <2>1 DEF Seen
<1>5. program = FuncsUpTo(source, Len(source.funcs))
  <2>1. fn - 1 = Len(source.funcs) /\ at - 1 = -1
    BY <1>1, <1>3
  <2>2. OpsUpTo(source, fn, -1) = <<>>
    BY NoneYet
  <2>3. FuncsUpTo(source, Len(source.funcs)) \in Seq(Emits(source))
    BY <1>1, <1>3, FuncsTyped
  <2>4. FuncsUpTo(source, Len(source.funcs)) \o <<>> = FuncsUpTo(source, Len(source.funcs))
    BY <2>3
  <2>5. QED
    BY <2>1, <2>2, <2>4 DEF Follows, ProgramFollows
<1>6. Len(names) = Len(source.funcs)
  BY <1>1, <1>3 DEF Follows, NamesFollow
<1>7. Len(exes) = Len(source.prims)
  BY DEF Follows, ExesFollow
<1>8. QED
  BY <1>1, <1>2, <1>3, <1>4, <1>5, <1>6, <1>7

(* When everything was visited the sections are those of the module. *)
LEMMA HostProgramWritten == WrittenInv => WritesHostProgram
<1> SUFFICES ASSUME WrittenInv, stage = "written"
             PROVE  [symbols |-> "present", names |-> names, program |-> "present",
                     commands |-> program, hasRodata |-> TRUE, rodata |-> rodata,
                     exeTable |-> "fits", exes |-> exes] = SectionsOf(source, images)
  BY DEF WritesHostProgram
<1>1. IInv /\ Follows
  BY DEF WrittenInv
<1>2. /\ source \in SourceType /\ at = 0 /\ fn = Len(source.funcs) + 1
      /\ Len(source.funcs) \in Nat /\ DOMAIN source.funcs = 1 .. Len(source.funcs)
      /\ \A S \in SUBSET Positions(source.funcs) : Seen(S) = S
      /\ program = FuncsUpTo(source, Len(source.funcs))
      /\ Len(names) = Len(source.funcs) /\ names \in Seq(SymbolType)
      /\ Len(exes) = Len(source.prims) /\ exes \in Seq(ExecutableType) /\ source.prims \in Seq(PrimType)
  BY <1>1, AllVisited
<1>3. names = [f \in DOMAIN source.funcs |->
                 [name |-> ShortName(source.funcs[f].name), offset |-> FunctionOffset(source, f)]]
  <2>1. \A f \in 1 .. Len(names) :
          names[f] = [name |-> ShortName(source.funcs[f].name), offset |-> FunctionOffset(source, f)]
    BY <1>1 DEF Follows, NamesFollow
  <2>2. names = [f \in 1 .. Len(names) |-> names[f]]
    BY <1>2
  <2>3. QED
    BY <1>2, <2>1, <2>2
<1>4. program = FlattenSeq([f \in DOMAIN source.funcs |-> FunctionCommands(source, f)])
  BY <1>2 DEF FuncsUpTo
<1>5. rodata = RodataSize(source, StoredConstants(source))
  BY <1>1, <1>2, StoredSets DEF Follows, RodataFollows
<1>6. exes = [p \in DOMAIN source.prims |-> Executable(source.prims[p], p \in images)]
  <2>1. \A p \in 1 .. Len(exes) : exes[p] = Executable(source.prims[p], p \in images)
    BY <1>1 DEF Follows, ExesFollow
  <2>2. exes = [p \in 1 .. Len(exes) |-> exes[p]] /\ DOMAIN source.prims = 1 .. Len(source.prims)
    BY <1>2
  <2>3. QED
    BY <1>2, <2>1, <2>2
<1>7. QED
  BY <1>3, <1>4, <1>5, <1>6 DEF SectionsOf

(* When everything was visited there was nothing to refuse. *)
LEMMA RejectedRightly == WrittenInv => RejectsTheUnserializable
<1> SUFFICES ASSUME WrittenInv, stage = "written" PROVE Serializable(source)
  BY DEF WrittenInv, RejectsTheUnserializable
<1>1. IInv /\ Follows
  BY DEF WrittenInv
<1>2. /\ \A S \in SUBSET Positions(source.funcs) : Seen(S) = S
      /\ Len(exes) = Len(source.prims) /\ source.prims \in Seq(PrimType)
  BY <1>1, AllVisited
<1>3. \A v \in Positions(source.funcs) : Acceptable(v)
  BY <1>1, <1>2 DEF Follows, Accepted
<1>4. \A p \in DOMAIN source.prims : source.prims[p].kernel # "missing" /\ source.prims[p].rank2
  BY <1>1, <1>2 DEF Follows, ExesFollow
<1>5. QED
  BY <1>3, <1>4 DEF Serializable, Acceptable

-----------------------------------------------------------------------------
(* The dump.                                                                *)

(* A function's commands end where its END is, and nowhere before. *)
LEMMA OneEnd ==
  ASSUME NEW s \in SourceType, NEW f \in DOMAIN s.funcs, NEW q, q = FunctionCommands(s, f)
  PROVE  /\ q \in Seq(Emits(s)) /\ Len(q) \in Nat \ {0}
         /\ q[Len(q)].kind = "END" /\ \A i \in 1 .. Len(q) - 1 : q[i].kind # "END"
<1> DEFINE n == Len(s.funcs[f].body)
           T == {c \in Emits(s) : c.kind # "END"}
           seqs == [i \in 1 .. n |-> CommandsOf(s, <<f, i>>)]
           o == OpsUpTo(s, f, n)
<1>1. n \in Nat /\ 1 .. n = DOMAIN s.funcs[f].body
  BY BodyTyped
<1>2. ASSUME NEW i \in 1 .. n PROVE CommandsOf(s, <<f, i>>) \in Seq(T)
  <2>1. PICK c : c = CommandsOf(s, <<f, i>>)
    OBVIOUS
  <2>2. c \in Seq(Emits(s)) /\ \A j \in DOMAIN c : c[j].kind # "END"
    BY <1>1, <2>1, IsPosition, CommandsTyped
  <2>3. \A j \in 1 .. Len(c) : c[j] \in T
    BY <2>2
  <2> HIDE DEF T
  <2>4. c \in Seq(T)
    BY <2>2, <2>3
  <2>5. QED
    BY <2>1, <2>4
<1>3. seqs \in Seq(Seq(T))
  <2> HIDE DEF T, n
  <2>1. QED
    BY <1>1, <1>2
<1>4. o \in Seq(T)
  <2>1. FlattenSeq(seqs) \in Seq(T)
    <3> HIDE DEF seqs, T
    <3>1. QED
      BY <1>3, FlattenPlaces
  <2>2. QED
    BY <2>1 DEF OpsUpTo
<1>5. \A i \in 1 .. Len(o) : o[i].kind # "END"
  <2> HIDE DEF o
  <2>1. \A i \in 1 .. Len(o) : o[i] \in T
    BY <1>4
  <2>2. QED
    BY <2>1
<1>6. /\ q = o \o <<EndCommand>> /\ q \in Seq(Emits(s)) /\ o \in Seq(Emits(s)) /\ <<EndCommand>> \in Seq(Emits(s))
      /\ Len(q) \in Nat \ {0}
  BY FunctionIs
<1> HIDE DEF o
<1>7. /\ Len(q) = Len(o) + 1 /\ (\A i \in 1 .. Len(o) : q[i] = o[i]) /\ q[Len(o) + 1] = EndCommand
      /\ Len(o) \in Nat
  <2>1. Len(<<EndCommand>>) = 1 /\ <<EndCommand>>[1] = EndCommand
    OBVIOUS
  <2>2. Len(o) \in Nat
    BY <1>6
  <2>3. QED
    BY <1>6, <2>1, <2>2, Extension
<1>8. QED
  BY <1>5, <1>6, <1>7 DEF EndCommand

(* The first function is written first. *)
LEMMA FirstIsFirst ==
  ASSUME NEW s \in SourceType, NEW n \in Nat \ {0}, n <= Len(s.funcs), NEW q, q = FunctionCommands(s, 1)
  PROVE  /\ Len(q) <= Len(FuncsUpTo(s, n))
         /\ \A i \in 1 .. Len(q) : FuncsUpTo(s, n)[i] = q[i]
<1>0. Len(s.funcs) \in Nat /\ DOMAIN s.funcs = 1 .. Len(s.funcs)
  <2>1. s.funcs \in Seq(FunctionType)
    BY DEF SourceType
  <2>2. QED
    BY <2>1
<1> DEFINE Good(k) == /\ Len(q) <= Len(FuncsUpTo(s, k))
                      /\ \A i \in 1 .. Len(q) : FuncsUpTo(s, k)[i] = q[i]
           S == {k \in Nat \ {0} : Good(k)}
<1>1. q \in Seq(Emits(s)) /\ Len(q) \in Nat
  BY <1>0, OneEnd
<1>2. 1 \in S
  <2>1. FuncsUpTo(s, 0) = <<>>
    BY NoneYet
  <2>2. PICK z \in Nat : z = 0
    OBVIOUS
  <2>3. FuncsUpTo(s, z + 1) = FuncsUpTo(s, z) \o FunctionCommands(s, z + 1)
    <3>1. z + 1 \in DOMAIN s.funcs
      BY <1>0, <2>2
    <3>2. QED
      BY <3>1, FuncsNext
  <2>4. FuncsUpTo(s, 1) = q
    <3>1. z + 1 = 1
      BY <2>2
    <3>2. FuncsUpTo(s, 1) = <<>> \o q
      BY ONLY <2>1, <2>2, <2>3, <3>1, q = FunctionCommands(s, 1), Zenon
    <3>3. <<>> \o q = q
      BY <1>1
    <3>4. QED
      BY ONLY <3>2, <3>3
  <2>5. QED
    BY <1>1, <2>4
<1>3. ASSUME NEW k \in 1 .. n - 1, k \in S PROVE k + 1 \in S
  <2>1. k \in Nat /\ k + 1 \in DOMAIN s.funcs /\ Good(k)
    BY <1>0, <1>3
  <2> HIDE DEF S
  <2>2. /\ FuncsUpTo(s, k) \in Seq(Emits(s)) /\ FunctionCommands(s, k + 1) \in Seq(Emits(s))
        /\ FuncsUpTo(s, k + 1) = FuncsUpTo(s, k) \o FunctionCommands(s, k + 1)
    BY <2>1, FuncsNext, FunctionIs
  <2>3. /\ Len(FuncsUpTo(s, k)) \in Nat /\ Len(FunctionCommands(s, k + 1)) \in Nat
        /\ Len(FuncsUpTo(s, k + 1)) = Len(FuncsUpTo(s, k)) + Len(FunctionCommands(s, k + 1))
        /\ \A l \in 1 .. Len(FuncsUpTo(s, k)) : FuncsUpTo(s, k + 1)[l] = FuncsUpTo(s, k)[l]
    BY <2>2, Concatenation
  <2>4. Good(k + 1)
    BY <1>1, <2>1, <2>3
  <2>5. QED
    BY <2>1, <2>4 DEF S
<1>4. n \in S
  <2> HIDE DEF S
  <2>1. QED
    BY <1>2, <1>3, InductionUpTo
<1>5. QED
  BY <1>4

(* Each command under its own, the entry before the first. *)
LEMMA ShownInOrder ==
  ASSUME NEW T, NEW q \in Seq(T), Len(q) # 0, NEW e,
         NEW seqs, seqs = [i \in 1 .. Len(q) |-> (IF i = 1 THEN <<e>> ELSE <<>>) \o <<[command |-> q[i]]>>]
  PROVE  FlattenSeq(seqs) = <<e>> \o [i \in DOMAIN q |-> [command |-> q[i]]]
<1> DEFINE c == [i \in 1 .. Len(q) |-> [command |-> q[i]]]
           U == {e} \cup {[command |-> t] : t \in T}
           Shown(k) == <<e>> \o [i \in 1 .. k |-> c[i]]
           First(k) == [i \in 1 .. k |-> seqs[i]]
           S == {k \in 1 .. Len(q) : FlattenSeq(First(k)) = Shown(k)}
<1>0. Len(q) \in Nat \ {0} /\ DOMAIN q = 1 .. Len(q)
  OBVIOUS
<1>1. e \in U /\ \A i \in 1 .. Len(q) : c[i] \in U
  OBVIOUS
<1>2. c = [i \in DOMAIN q |-> [command |-> q[i]]] /\ DOMAIN c = 1 .. Len(q) /\ c = [i \in 1 .. Len(q) |-> c[i]]
  BY <1>0
<1>3. \A i \in 1 .. Len(q) : seqs[i] = (IF i = 1 THEN <<e>> ELSE <<>>) \o <<c[i]>>
  OBVIOUS
<1>4. seqs = [i \in 1 .. Len(q) |-> seqs[i]] /\ DOMAIN seqs = 1 .. Len(q)
  OBVIOUS
<1> HIDE DEF U, c
<1>5. \A d \in U : <<d>> \in Seq(U) /\ <<>> \o <<d>> = <<d>> /\ <<e>> \o <<d>> \in Seq(U)
  <2>1. ASSUME NEW d \in U PROVE <<d>> \in Seq(U) /\ <<>> \o <<d>> = <<d>> /\ <<e>> \o <<d>> \in Seq(U)
    <3>1. <<d>> \in Seq(U) /\ <<e>> \in Seq(U)
      BY <1>1
    <3>2. QED
      BY ONLY <3>1
  <2>2. QED
    BY ONLY <2>1
<1>6. /\ seqs[1] = <<e>> \o <<c[1]>>
      /\ \A i \in 2 .. Len(q) : seqs[i] = <<c[i]>>
      /\ \A i \in 1 .. Len(q) : seqs[i] \in Seq(U)
  <2>1. seqs[1] = <<e>> \o <<c[1]>>
    BY ONLY <1>0, <1>3
  <2>2. ASSUME NEW i \in 2 .. Len(q) PROVE seqs[i] = <<c[i]>>
    <3>1. i \in 1 .. Len(q) /\ i # 1
      BY ONLY <1>0, <2>2
    <3>2. seqs[i] = <<>> \o <<c[i]>>
      BY ONLY <1>3, <3>1
    <3>3. QED
      BY ONLY <1>1, <1>5, <3>1, <3>2
  <2>3. ASSUME NEW i \in 1 .. Len(q) PROVE seqs[i] \in Seq(U)
    <3>1. CASE i = 1
      BY ONLY <1>1, <1>5, <2>1, <2>3, <3>1
    <3>2. CASE i # 1
      <4>1. i \in 2 .. Len(q)
        BY ONLY <1>0, <2>3, <3>2
      <4>2. QED
        BY ONLY <1>1, <1>5, <2>2, <2>3, <4>1
    <3>3. QED
      BY ONLY <3>1, <3>2
  <2>4. QED
    BY ONLY <2>1, <2>2, <2>3
<1>7. ASSUME NEW k \in 1 .. Len(q)
      PROVE  /\ First(k) \in Seq(Seq(U)) /\ Len(First(k)) = k
             /\ \A i \in 1 .. k : First(k)[i] = seqs[i]
  <2>1. k \in Nat /\ \A i \in 1 .. k : i \in 1 .. Len(q)
    BY ONLY <1>0, <1>7
  <2>2. PICK W : W = Seq(U)
    OBVIOUS
  <2>3. \A i \in 1 .. k : seqs[i] \in W
    BY ONLY <1>6, <2>1, <2>2
  <2>4. [i \in 1 .. k |-> seqs[i]] \in Seq(W) /\ Len([i \in 1 .. k |-> seqs[i]]) = k
    BY ONLY <2>1, <2>3
  <2>5. QED
    BY <2>2, <2>4
<1>8. 1 \in S
  <2>0. PICK z \in Nat : z = 0
    OBVIOUS
  <2>1. 1 \in 1 .. Len(q) /\ z + 1 = 1
    BY ONLY <1>0, <2>0
  <2>2. PICK one : one = First(1)
    OBVIOUS
  <2>3. one \in Seq(Seq(U)) /\ Len(one) = z + 1 /\ one[1] = seqs[1]
    <3> HIDE DEF First
    <3>1. one \in Seq(Seq(U)) /\ Len(one) = 1 /\ \A i \in 1 .. 1 : one[i] = seqs[i]
      BY ONLY <1>7, <2>1, <2>2
    <3>2. 1 \in 1 .. 1
      OBVIOUS
    <3>3. QED
      BY ONLY <2>1, <3>1, <3>2
  <2>4. PICK before : before = [i \in 1 .. z |-> one[i]]
    OBVIOUS
  <2>5. FlattenSeq(one) = FlattenSeq(before) \o one[z + 1]
    BY ONLY <2>3, <2>4, FlattenNext
  <2>6. FlattenSeq(before) = <<>>
    <3>1. before = <<>>
      BY ONLY <2>0, <2>4
    <3>2. QED
      BY ONLY <3>1 DEF FlattenSeq
  <2>7. FlattenSeq(one) = <<e>> \o <<c[1]>>
    <3>1. seqs[1] \in Seq(U)
      BY ONLY <1>6, <2>1
    <3>2. <<>> \o seqs[1] = seqs[1]
      BY ONLY <3>1
    <3>3. one[z + 1] = seqs[1]
      BY ONLY <2>1, <2>3
    <3>4. QED
      BY ONLY <1>6, <2>5, <2>6, <3>2, <3>3
  <2>8. [i \in 1 .. 1 |-> c[i]] = <<c[1]>>
    BY ONLY TRUE
  <2>9. QED
    BY ONLY <2>1, <2>2, <2>7, <2>8
<1>9. ASSUME NEW k \in 1 .. Len(q) - 1, k \in S PROVE k + 1 \in S
  <2>1. k \in Nat /\ k \in 1 .. Len(q) /\ k + 1 \in 1 .. Len(q) /\ k + 1 \in 2 .. Len(q) /\ k + 1 \in 1 .. k + 1
    BY ONLY <1>0, <1>9
  <2>2. PICK now : now = First(k)
    OBVIOUS
  <2>3. PICK next : next = First(k + 1)
    OBVIOUS
  <2>4. /\ next \in Seq(Seq(U)) /\ Len(next) = k + 1
        /\ \A i \in 1 .. k + 1 : next[i] = seqs[i]
    BY <1>7, <2>1, <2>3
  <2>5. next[k + 1] = <<c[k + 1]>>
    BY ONLY <1>6, <2>1, <2>4
  <2>6. now = [i \in 1 .. k |-> next[i]]
    <3>1. \A i \in 1 .. k : i \in 1 .. k + 1
      BY ONLY <2>1
    <3>2. \A i \in 1 .. k : next[i] = seqs[i]
      BY ONLY <2>4, <3>1
    <3>3. now = [i \in 1 .. k |-> seqs[i]]
      BY <2>2
    <3>4. QED
      BY ONLY <3>2, <3>3
  <2>7. FlattenSeq(next) = FlattenSeq(now) \o next[k + 1]
    BY ONLY <2>1, <2>4, <2>6, FlattenNext
  <2>8. FlattenSeq(now) = <<e>> \o [i \in 1 .. k |-> c[i]]
    BY <1>9, <2>2
  <2>9. PICK C : C = [i \in 1 .. k |-> c[i]]
    OBVIOUS
  <2>10. PICK D : D = [i \in 1 .. k + 1 |-> c[i]]
    OBVIOUS
  <2>11. PICK d \in U : d = c[k + 1]
    BY ONLY <1>1, <2>1
  <2>12. C \in Seq(U) /\ Len(C) = k /\ D \in Seq(U) /\ Len(D) = k + 1
    <3>1. \A i \in 1 .. k + 1 : c[i] \in U
      BY ONLY <1>0, <1>1, <2>1
    <3>2. D \in Seq(U) /\ Len(D) = k + 1
      BY ONLY <2>1, <2>10, <3>1
    <3>3. \A i \in 1 .. k : c[i] \in U
      BY ONLY <2>1, <3>1
    <3>4. C \in Seq(U) /\ Len(C) = k
      BY ONLY <2>1, <2>9, <3>3
    <3>5. QED
      BY ONLY <3>2, <3>4
  <2>13. (\A i \in 1 .. k : D[i] = C[i]) /\ D[k + 1] = d
    BY ONLY <2>1, <2>9, <2>10, <2>11
  <2>14. C \o <<d>> = D
    BY ONLY <2>1, <2>11, <2>12, <2>13
  <2>15. <<e>> \in Seq(U) /\ <<d>> \in Seq(U)
    BY ONLY <1>1, <2>11
  <2>16. (<<e>> \o C) \o <<d>> = <<e>> \o (C \o <<d>>)
    BY ONLY <2>12, <2>15, ConcatAssociative
  <2>17. FlattenSeq(next) = <<e>> \o D
    BY ONLY <2>5, <2>7, <2>8, <2>9, <2>11, <2>14, <2>16
  <2>18. FlattenSeq(First(k + 1)) = Shown(k + 1)
    BY <2>3, <2>10, <2>17
  <2> HIDE DEF First, Shown
  <2>19. QED
    BY <2>1, <2>18
<1>10. Len(q) \in S
  <2> HIDE DEF S
  <2>1. QED
    BY <1>0, <1>8, <1>9, InductionUpTo
<1>11. FlattenSeq(seqs) = <<e>> \o c
  BY <1>2, <1>4, <1>10
<1>12. QED
  BY <1>2, <1>11

(* The first END is the first function's, no other entry starts before it, and the
   first one starts at the first command. *)
LEMMA DumpRight == WrittenInv => DumpShowsWhatRuns
<1> DEFINE q == FunctionCommands(source, 1)
           e == [entry |-> ShortName(source.funcs[1].name)]
           ends == {i \in DOMAIN program : program[i].kind = "END"}
<1> SUFFICES ASSUME WrittenInv, stage = "written", source.funcs # <<>>
             PROVE  ShownProgram(program, names) = <<e>> \o [i \in DOMAIN q |-> [command |-> q[i]]]
  BY DEF DumpShowsWhatRuns
<1>1. IInv /\ Follows
  BY DEF WrittenInv
<1>2. /\ source \in SourceType /\ Len(source.funcs) \in Nat /\ DOMAIN source.funcs = 1 .. Len(source.funcs)
      /\ program = FuncsUpTo(source, Len(source.funcs))
      /\ Len(names) = Len(source.funcs) /\ names \in Seq(SymbolType)
  BY <1>1, AllVisited
<1>3. Len(source.funcs) # 0 /\ 1 \in DOMAIN source.funcs
  <2>1. source.funcs \in Seq(FunctionType)
    BY <1>2 DEF SourceType
  <2>2. QED
    BY <1>2, <2>1
<1> HIDE DEF q
<1>4. /\ q \in Seq(Emits(source)) /\ Len(q) \in Nat \ {0}
      /\ q[Len(q)].kind = "END" /\ \A i \in 1 .. Len(q) - 1 : q[i].kind # "END"
  BY <1>2, <1>3, OneEnd DEF q
<1>5. Len(q) <= Len(program) /\ \A i \in 1 .. Len(q) : program[i] = q[i]
  BY <1>2, <1>3, FirstIsFirst DEF q
<1>6. program \in Seq(CommandType) /\ Len(program) \in Nat /\ DOMAIN program = 1 .. Len(program)
  BY <1>1 DEF IInv, TypeOK
<1>7. Len(q) \in ends /\ \A i \in ends : Len(q) <= i
  <2>1. Len(q) \in DOMAIN program
    BY <1>4, <1>5, <1>6
  <2>2. ASSUME NEW i \in ends PROVE Len(q) <= i
    <3>1. CASE i \in 1 .. Len(q) - 1
      <4>1. program[i] = q[i]
        BY <1>4, <1>5, <3>1
      <4>2. QED
        BY <1>4, <3>1, <4>1
    <3>2. CASE i \notin 1 .. Len(q) - 1
      BY <1>4, <1>6, <3>2
    <3>3. QED
      BY <3>1, <3>2
  <2>3. QED
    BY <1>4, <1>5, <2>1, <2>2
<1>8. Min(ends) = Len(q) /\ ends # {}
  <2>1. ends \subseteq Nat
    BY <1>6
  <2> HIDE DEF ends
  <2>2. PICK x \in ends : x = Min(ends) /\ \A y \in ends : x <= y
    BY <1>7 DEF Min
  <2>3. QED
    BY <1>7, <2>1, <2>2
<1>9. ASSUME NEW i \in 1 .. Len(q)
      PROVE  Marker(names, i - 1) = IF i = 1 THEN <<e>> ELSE <<>>
  <2>1. \A f \in 1 .. Len(names) :
          names[f] = [name |-> ShortName(source.funcs[f].name), offset |-> FunctionOffset(source, f)]
    BY <1>1 DEF Follows, NamesFollow
  <2>2. names[1].offset = 0 /\ names[1].name = ShortName(source.funcs[1].name)
    <3>1. FunctionOffset(source, 1) = Len(FuncsUpTo(source, 1 - 1))
      BY <1>2, <1>3, OffsetOf
    <3>2. FuncsUpTo(source, 1 - 1) = <<>> /\ Len(<<>>) = 0
      <4>1. 1 - 1 = 0
        OBVIOUS
      <4>2. QED
        BY <4>1, NoneYet
    <3>3. 1 \in 1 .. Len(names)
      BY <1>2, <1>3
    <3>4. PICK n, o : n = ShortName(source.funcs[1].name) /\ o = FunctionOffset(source, 1)
      OBVIOUS
    <3>5. names[1] = [name |-> n, offset |-> o]
      BY <2>1, <3>3, <3>4
    <3>6. o = 0
      BY <3>1, <3>2, <3>4
    <3>7. QED
      BY ONLY <3>4, <3>5, <3>6
  <2>3. ASSUME NEW f \in 2 .. Len(names) PROVE names[f].offset # i - 1
    <3>1. f - 1 \in Nat \ {0} /\ f - 1 <= Len(source.funcs) /\ (f - 1) + 1 = f /\ f \in 1 .. Len(names)
      BY <1>2
    <3>2. FunctionOffset(source, f) = Len(FuncsUpTo(source, f - 1))
      BY <1>2, <3>1, OffsetOf
    <3>3. Len(q) <= Len(FuncsUpTo(source, f - 1)) /\ Len(FuncsUpTo(source, f - 1)) \in Nat
      BY <1>2, <3>1, FirstIsFirst, FuncsTyped DEF q
    <3>4. names[f].offset = Len(FuncsUpTo(source, f - 1))
      <4>1. PICK n, o : n = ShortName(source.funcs[f].name) /\ o = FunctionOffset(source, f)
        OBVIOUS
      <4>2. names[f] = [name |-> n, offset |-> o]
        BY <2>1, <3>1, <4>1
      <4>3. names[f].offset = o
        BY ONLY <4>2
      <4>4. QED
        BY <3>2, <4>1, <4>3
    <3>5. QED
      BY <1>4, <3>3, <3>4
  <2>4. DOMAIN names = 1 .. Len(names)
    BY <1>2
  <2>5. CASE i = 1
    <3>1. StartsAt(names, i - 1) = {1}
      <4>1. ASSUME NEW f \in DOMAIN names, f # 1 PROVE names[f].offset # 0
        <5>1. f \in 2 .. Len(names)
          BY <1>2, <2>4, <4>1
        <5>2. QED
          BY <2>3, <2>5, <5>1
      <4>2. 1 \in DOMAIN names
        BY <1>2, <1>3, <2>4
      <4>3. QED
        BY <2>2, <2>5, <4>1, <4>2 DEF StartsAt
    <3>2. Max({1}) = 1
      BY DEF Max
    <3>3. QED
      BY <2>2, <2>5, <3>1, <3>2 DEF Marker
  <2>6. CASE i # 1
    <3>1. StartsAt(names, i - 1) = {}
      <4>1. ASSUME NEW f \in DOMAIN names PROVE names[f].offset # i - 1
        <5>1. CASE f = 1
          BY <2>2, <2>6, <5>1
        <5>2. CASE f # 1
          <6>1. f \in 2 .. Len(names)
            BY <1>2, <2>4, <5>2
          <6>2. QED
            BY <2>3, <6>1
        <5>3. QED
          BY <5>1, <5>2
      <4>2. QED
        BY <4>1 DEF StartsAt
    <3>2. QED
      BY <2>6, <3>1 DEF Marker
  <2>7. QED
    BY <2>5, <2>6
<1> DEFINE seqs == [i \in 1 .. Len(q) |-> Marker(names, i - 1) \o <<[command |-> program[i]]>>]
<1>10. ShownProgram(program, names) = FlattenSeq(seqs)
  BY <1>8 DEF ShownProgram
<1>11. seqs = [i \in 1 .. Len(q) |-> (IF i = 1 THEN <<e>> ELSE <<>>) \o <<[command |-> q[i]]>>]
  <2>1. \A i \in 1 .. Len(q) : seqs[i] = (IF i = 1 THEN <<e>> ELSE <<>>) \o <<[command |-> q[i]]>>
    BY <1>5, <1>9
  <2>2. QED
    BY <2>1
<1> HIDE DEF seqs, e
<1>12. FlattenSeq(seqs) = <<e>> \o [i \in DOMAIN q |-> [command |-> q[i]]]
  BY <1>4, <1>11, ShownInOrder
<1>13. QED
  BY <1>10, <1>12

(* At every step the sections are those of the operations visited so far, and the walk
   refuses only what has no host program, whatever the module. *)
THEOREM Correctness == Spec => []WrittenInv
<1>1. Init => WrittenInv
  BY InitInvariant, InitFollows DEF WrittenInv, Init
<1>2. Spec => []IInv
  BY Invariance
<1>3. WrittenInv /\ IInv' /\ [Next]_vars => WrittenInv'
  BY WrittenStep
<1>4. QED
  BY <1>1, <1>2, <1>3, PTL DEF Spec

(* What is written is the host program of the module: every slot, offset, command,
   symbol and executable. *)
THEOREM HostProgramIsWritten == Spec => []WritesHostProgram
BY Correctness, HostProgramWritten, PTL

(* serialize() fails for the modules that have no host program, and for no other. *)
THEOREM RefusedRightly == Spec => []RejectsTheUnserializable
BY Correctness, RejectedRightly, PTL

(* hxb-dump shows the first function of what was written, under its name and command for
   command. *)
THEOREM DumpIsRight == Spec => []DumpShowsWhatRuns
BY Correctness, DumpRight, PTL
=============================================================================
