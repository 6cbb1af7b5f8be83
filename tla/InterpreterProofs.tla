------------------------- MODULE InterpreterProofs -------------------------
(***************************************************************************)
(* Proofs about Interpreter, for every module, memory size and device, and *)
(* about CompileAndRun, for every graph the compiler accepts.              *)
(* The inductive invariant IInv ties the slots to the heap and the driver's*)
(* objects to the handler that holds them; no conjunct is inductive alone: *)
(* a kernel's buffers stay allocated because the host cannot leave         *)
(* cuda_launch before it, and the host stays there because the slots it    *)
(* checked are still bound.  Of a compiled module, CInv also says how far  *)
(* in the graph the host is, and that the slots hold what the ops before   *)
(* that mean.                                                              *)
(***************************************************************************)
EXTENDS CompileAndRun, ListLemmas, SequenceTheorems, FiniteSetTheorems, WellFoundedInduction, TLAPS

(* What the type of a module says of the command at pc. *)
LEMMA CommandTyped ==
  ASSUME TypeOK, InProgram(call, pc)
  PROVE  /\ Cmd \in CommandType
         /\ Ops \in Seq(Nat)
<1>1. Sections(call.module) \in SectionsType
  BY CallsAssumption DEF TypeOK, Calls
<1>2. Sections(call.module).commands \in Seq(CommandType \cup {Truncated})
  BY <1>1 DEF SectionsType
<1>3. pc + 1 \in 1 .. Len(Sections(call.module).commands)
  BY <1>2 DEF InProgram, TypeOK
<1>4. Cmd \in CommandType
  BY <1>2, <1>3 DEF InProgram, Cmd, CommandAt
<1>5. QED
  BY <1>4 DEF CommandType, Ops

(* A well formed DISPATCH names an executable of the module. *)
LEMMA ExecutableTyped ==
  ASSUME TypeOK, InProgram(call, pc), WellFormed
  PROVE  /\ Exe \in ExecutableType
         /\ Ops[1] \in Nat /\ Ops[1] + 1 \in DOMAIN ExesOf(call)
<1>1. Sections(call.module) \in SectionsType
  BY CallsAssumption DEF TypeOK, Calls
<1>2. Ops \in Seq(Nat)
  BY CommandTyped
<1>3. ExesOf(call) \in Seq(ExecutableType)
  BY <1>1 DEF ExesOf, SectionsType
<1>4. Ops[1] \in Nat /\ Ops[1] < Len(ExesOf(call))
  BY <1>2 DEF WellFormed, WellFormedDispatch
<1>5. Ops[1] + 1 \in DOMAIN ExesOf(call)
  BY <1>3, <1>4
<1>6. QED
  BY <1>3, <1>4, <1>5 DEF Exe, ExeOf

(* A set of numbers has a least member. *)
LEMMA LeastMember ==
  ASSUME NEW T \in SUBSET Nat, T # {}
  PROVE  \E i \in T : \A j \in T : i <= j
<1>1. PICK i \in T : \A j \in T : ~ (<<j, i>> \in OpToRel(<, Nat))
  BY NatLessThanWellFounded, WFMin
<1>2. \A j \in T : ~ (j < i)
  BY <1>1 DEF OpToRel
<1>3. QED
  BY <1>2

(* What SubSeq leaves of a sequence without its first two elements. *)
LEMMA FromThird ==
  ASSUME NEW s \in Seq(Nat), NEW n \in Nat, 2 <= n, n <= Len(s)
  PROVE  /\ SubSeq(s, 3, n) \in Seq(Nat)
         /\ Len(SubSeq(s, 3, n)) = n - 2
         /\ \A i \in 1 .. n - 2 : SubSeq(s, 3, n)[i] = s[i + 2]
<1>1. SubSeq(s, 3, n) \in Seq(Nat)
  OBVIOUS
<1>2. Len(SubSeq(s, 3, n)) = n - 2
  OBVIOUS
<1>3. \A i \in 1 .. n - 2 : SubSeq(s, 3, n)[i] = s[i + 2]
  OBVIOUS
<1>4. QED
  BY <1>1, <1>2, <1>3

(* The arguments of a DISPATCH are its operands from the third on, the last
   of them its destination. *)
LEMMA ArgsTyped ==
  ASSUME TypeOK, InProgram(call, pc), WellFormed
  PROVE  /\ Args \in Seq(Nat) /\ Len(Args) = Len(Ops) - 2
         /\ \A i \in DOMAIN Args : Args[i] = Ops[i + 2]
         /\ Len(Args) > 0 =>
              /\ InputsOf(Ops) \in Seq(Nat)
              /\ Len(InputsOf(Ops)) = Len(Args) - 1
              /\ \A i \in DOMAIN InputsOf(Ops) : InputsOf(Ops)[i] = Args[i]
              /\ Dst = Args[Len(Args)] /\ Dst \in Nat
<1>1. Ops \in Seq(Nat) /\ Len(Ops) \in Nat /\ 2 <= Len(Ops)
  BY CommandTyped DEF WellFormed, WellFormedDispatch
<1>2. /\ Args \in Seq(Nat) /\ Len(Args) = Len(Ops) - 2
      /\ \A i \in 1 .. Len(Ops) - 2 : Args[i] = Ops[i + 2]
  <2>1. Len(Ops) <= Len(Ops)
    BY <1>1
  <2>2. QED
    BY <1>1, <2>1, FromThird DEF Args, ArgsOf
<1>3. DOMAIN Args = 1 .. Len(Ops) - 2
  BY <1>2
<1>4. ASSUME Len(Args) > 0
      PROVE  /\ InputsOf(Ops) \in Seq(Nat)
             /\ Len(InputsOf(Ops)) = Len(Args) - 1
             /\ \A i \in DOMAIN InputsOf(Ops) : InputsOf(Ops)[i] = Args[i]
             /\ Dst = Args[Len(Args)] /\ Dst \in Nat
  <2>1. Len(Ops) - 1 \in Nat /\ 2 <= Len(Ops) - 1 /\ Len(Ops) - 1 <= Len(Ops)
    BY <1>1, <1>2, <1>4
  <2>2. /\ InputsOf(Ops) \in Seq(Nat)
        /\ Len(InputsOf(Ops)) = Len(Ops) - 1 - 2
        /\ \A i \in 1 .. Len(Ops) - 1 - 2 : InputsOf(Ops)[i] = Ops[i + 2]
    BY <1>1, <2>1, FromThird DEF InputsOf
  <2>3. DOMAIN InputsOf(Ops) = 1 .. Len(Ops) - 1 - 2
    BY <2>2
  <2>4. Len(Ops) - 2 \in 1 .. Len(Ops) - 2
    BY <1>1, <2>1
  <2>5. Dst = Args[Len(Args)] /\ Dst \in Nat
    <3>1. Args[Len(Args)] = Ops[Len(Ops) - 2 + 2]
      BY <1>2, <2>4
    <3>2. Len(Ops) - 2 + 2 = Len(Ops)
      BY <1>1
    <3>3. Len(Ops) \in DOMAIN Ops
      BY <1>1
    <3>4. QED
      BY <1>1, <3>1, <3>2, <3>3 DEF Dst, DstOf
  <2>6. \A i \in DOMAIN InputsOf(Ops) : InputsOf(Ops)[i] = Args[i]
    <3>1. \A i \in 1 .. Len(Ops) - 1 - 2 : i \in 1 .. Len(Ops) - 2
      BY <1>1
    <3>2. QED
      BY <1>2, <2>2, <2>3, <3>1
  <2>7. QED
    BY <1>1, <1>2, <2>2, <2>5, <2>6
<1>5. QED
  BY <1>2, <1>3, <1>4

(* A bound slot is a slot, and holds an address. *)
LEMMA BoundSlot ==
  ASSUME TypeOK, NEW s, IsBound(s)
  PROVE  s \in Slots /\ SlotBuffer(s) = slots[s] /\ slots[s] \in Buffers
BY DEF TypeOK, IsBound, SlotBuffer

(* A kernel whose arity fits its arguments writes a value, to a live buffer. *)
LEMMA ResultsTyped ==
  ASSUME TypeOK, InProgram(call, pc), WellFormed, ArgsBound,
         Exe.kind \in KernelKinds, Len(Args) = Arity(Exe.kind)
  PROVE  /\ Results \subseteq Values
         /\ Dst \in Slots /\ SlotBuffer(Dst) = slots[Dst] /\ slots[Dst] \in Buffers
<1>1. Len(Args) \in {2, 3} /\ Args \in Seq(Nat)
  BY ArgsTyped DEF Arity
<1>2. /\ InputsOf(Ops) \in Seq(Nat) /\ Len(InputsOf(Ops)) = Len(Args) - 1
      /\ \A i \in DOMAIN InputsOf(Ops) : InputsOf(Ops)[i] = Args[i]
      /\ Dst = Args[Len(Args)]
  BY <1>1, ArgsTyped
<1>3. IsBound(Dst)
  BY <1>1, <1>2 DEF ArgsBound
<1>4. Dst \in Slots /\ SlotBuffer(Dst) = slots[Dst] /\ slots[Dst] \in Buffers
  BY <1>3, BoundSlot
<1>5. \A i \in DOMAIN InputsOf(Ops) : heap[SlotBuffer(InputsOf(Ops)[i])].value \in Values
  <2>1. SUFFICES ASSUME NEW i \in DOMAIN InputsOf(Ops)
                 PROVE  heap[SlotBuffer(InputsOf(Ops)[i])].value \in Values
    OBVIOUS
  <2>2. i \in DOMAIN Args /\ InputsOf(Ops)[i] = Args[i]
    BY <1>1, <1>2
  <2>3. IsBound(Args[i])
    BY <2>2 DEF ArgsBound
  <2>4. SlotBuffer(Args[i]) \in Buffers
    BY <2>3, BoundSlot
  <2>5. QED
    BY <2>2, <2>4 DEF TypeOK, Buffer
<1>6. DEFINE inputs == InputsOf(Ops)
             held == [i \in DOMAIN inputs |-> heap[SlotBuffer(inputs[i])].value]
<1>7. Kernel(Exe.kind, held) \in Values
  <2>1. CASE Len(Args) = 2
    <3>1. held = <<held[1]>> /\ held[1] \in Values
      BY <1>2, <1>5, <2>1
    <3>2. QED
      BY <3>1, ValuesAssumption
  <2>2. CASE Len(Args) = 3
    <3>1. held = <<held[1], held[2]>> /\ held[1] \in Values /\ held[2] \in Values
      BY <1>2, <1>5, <2>2
    <3>2. Kernel(Exe.kind, <<held[1], held[2]>>) \in Values
      <4> HIDE DEF held
      <4>1. QED
        BY <3>1, ValuesAssumption
    <3>3. QED
      BY <3>1, <3>2
  <2>3. QED
    BY <1>1, <2>1, <2>2
<1>8. Results \subseteq Values
  BY <1>7 DEF Results, ResultValues
<1>9. QED
  BY <1>4, <1>8

-----------------------------------------------------------------------------
(* What the slot operations do to the heap.                                  *)

(* vm_bind frees what the slot held, and the new buffer is bound to it alone. *)
LEMMA BindOwned ==
  ASSUME TypeOK, SlotsOwnTheHeap, NEW s, NEW b \in Buffers,
         NEW size \in Nat, NEW v \in Values, Bind(s, b, size, v)
  PROVE  /\ slots' \in [Slots -> Buffers \cup {None}]
         /\ heap' \in [Buffers -> Buffer]
         /\ SlotsOwnTheHeap'
         /\ s \in Slots /\ slots'[s] = b
         /\ \A t \in Slots : slots[t] # None => slots'[t] # None
<1>1. /\ s \in Slots
      /\ slots \in [Slots -> Buffers \cup {None}] /\ heap \in [Buffers -> Buffer]
      /\ slots' = [slots EXCEPT ![s] = b]
      /\ heap' = [ReleasedHeap(s) EXCEPT ![b] = Holding(size, v)]
      /\ b \in Free \/ b = slots[s]
  BY DEF Bind, TypeOK
<1>2. Freed \in Buffer /\ Holding(size, v) \in Buffer /\ Holding(size, v).live /\ ~Freed.live
  BY ValuesAssumption DEF Freed, Holding, Buffer
<1>3. ReleasedHeap(s) \in [Buffers -> Buffer]
  BY <1>1, <1>2 DEF ReleasedHeap
<1>4. heap' \in [Buffers -> Buffer] /\ slots' \in [Slots -> Buffers \cup {None}]
  BY <1>1, <1>2, <1>3
<1>5. \A c \in Buffers :
        heap'[c].live <=> c = b \/ (heap[c].live /\ c # slots[s])
  BY <1>1, <1>2, <1>3, BuffersAssumption DEF ReleasedHeap
<1>6. \A t \in Slots \ {s} : slots[t] # b
  BY <1>1, BuffersAssumption DEF SlotsOwnTheHeap, Free
<1>7. SlotsOwnTheHeap'
  <2>1. \A t \in Slots : slots'[t] # None => heap'[slots'[t]].live
    BY <1>1, <1>4, <1>5 DEF SlotsOwnTheHeap
  <2>2. \A t, u \in Slots : slots'[t] = slots'[u] /\ slots'[t] # None => t = u
    BY <1>1, <1>6 DEF SlotsOwnTheHeap
  <2>3. \A c \in Buffers : heap'[c].live => \E t \in Slots : slots'[t] = c
    BY <1>1, <1>5 DEF SlotsOwnTheHeap
  <2>4. QED
    BY <2>1, <2>2, <2>3 DEF SlotsOwnTheHeap
<1>8. QED
  BY <1>1, <1>4, <1>7, BuffersAssumption

(* vm_bind touches one slot and the buffer it gets. *)
LEMMA BindLeavesOthers ==
  ASSUME TypeOK, SlotsOwnTheHeap, NEW s, NEW b \in Buffers,
         NEW size \in Nat, NEW v \in Values, Bind(s, b, size, v)
  PROVE  /\ s \in Slots /\ slots'[s] = b /\ heap'[b].value = v
         /\ \A t \in Slots \ {s} :
              slots'[t] = slots[t] /\ (slots[t] # None => heap'[slots[t]] = heap[slots[t]])
<1>1. /\ s \in Slots
      /\ slots \in [Slots -> Buffers \cup {None}] /\ heap \in [Buffers -> Buffer]
      /\ slots' = [slots EXCEPT ![s] = b]
      /\ heap' = [ReleasedHeap(s) EXCEPT ![b] = Holding(size, v)]
      /\ b \in Free \/ b = slots[s]
  BY DEF Bind, TypeOK
<1>2. DOMAIN ReleasedHeap(s) = Buffers
  BY <1>1 DEF ReleasedHeap
<1>3. slots'[s] = b /\ heap'[b] = Holding(size, v)
  BY <1>1, <1>2
<1>4. ASSUME NEW t \in Slots \ {s}
      PROVE  slots'[t] = slots[t] /\ (slots[t] # None => heap'[slots[t]] = heap[slots[t]])
  <2>1. slots'[t] = slots[t]
    BY <1>1
  <2>2. ASSUME slots[t] # None PROVE heap'[slots[t]] = heap[slots[t]]
    <3>1. slots[t] \in Buffers /\ slots[t] # slots[s] /\ heap[slots[t]].live
      BY <1>1, <2>2 DEF SlotsOwnTheHeap
    <3>2. slots[t] # b
      BY <1>1, <3>1 DEF Free
    <3>3. ReleasedHeap(s)[slots[t]] = heap[slots[t]]
      BY <1>1, <3>1 DEF ReleasedHeap
    <3>4. QED
      BY <1>1, <1>2, <3>1, <3>2, <3>3
  <2>3. QED
    BY <2>1, <2>2
<1>5. heap'[b].value = v
  BY <1>3 DEF Holding
<1>6. QED
  BY <1>1, <1>3, <1>4, <1>5

(* vm_bind out of memory leaves the slot empty and its old buffer free. *)
LEMMA BindFailsOwned ==
  ASSUME TypeOK, SlotsOwnTheHeap, NEW s, BindFails(s)
  PROVE  /\ slots' \in [Slots -> Buffers \cup {None}]
         /\ heap' \in [Buffers -> Buffer]
         /\ SlotsOwnTheHeap'
         /\ host' = "exit" /\ pc' = pc /\ status' \in Errors
<1>1. host' = "exit" /\ pc' = pc /\ status' \in Errors
  BY DEF BindFails, Fail, Errors
<1>2. CASE UNCHANGED <<slots, heap>>
  BY <1>1, <1>2 DEF TypeOK, SlotsOwnTheHeap
<1>3. CASE /\ s \in Slots /\ heap' = ReleasedHeap(s)
           /\ slots' = [slots EXCEPT ![s] = None]
  <2>1. Freed \in Buffer /\ ~Freed.live
    BY ValuesAssumption DEF Freed, Buffer
  <2>2. heap' \in [Buffers -> Buffer] /\ slots' \in [Slots -> Buffers \cup {None}]
    BY <1>3, <2>1 DEF ReleasedHeap, TypeOK
  <2>3. \A c \in Buffers : heap'[c].live <=> heap[c].live /\ c # slots[s]
    BY <1>3, <2>1, BuffersAssumption DEF ReleasedHeap, TypeOK
  <2>4. slots'[s] = None /\ \A t \in Slots \ {s} : slots'[t] = slots[t]
    BY <1>3 DEF TypeOK
  <2>5. \A t \in Slots : slots'[t] # None => heap'[slots'[t]].live
    BY <1>3, <2>2, <2>3, <2>4 DEF SlotsOwnTheHeap
  <2>6. \A t, u \in Slots : slots'[t] = slots'[u] /\ slots'[t] # None => t = u
    BY <2>4 DEF SlotsOwnTheHeap
  <2>7. \A c \in Buffers : heap'[c].live => \E t \in Slots : slots'[t] = c
    BY <2>3, <2>4 DEF SlotsOwnTheHeap
  <2>8. QED
    BY <1>1, <2>2, <2>5, <2>6, <2>7 DEF SlotsOwnTheHeap
<1>4. QED
  BY <1>2, <1>3 DEF BindFails

(* vm_release frees everything, since every live buffer is in some slot. *)
LEMMA ReleaseAllOwned ==
  ASSUME TypeOK, SlotsOwnTheHeap, ReleaseAll
  PROVE  /\ slots' = [s \in Slots |-> None]
         /\ heap' \in [Buffers -> Buffer]
         /\ \A b \in Buffers : ~heap'[b].live
         /\ SlotsOwnTheHeap'
<1>1. Freed \in Buffer /\ ~Freed.live
  BY ValuesAssumption DEF Freed, Buffer
<1>2. slots' = [s \in Slots |-> None] /\ heap' \in [Buffers -> Buffer]
  BY <1>1 DEF ReleaseAll, TypeOK
<1>3. \A b \in Buffers : ~heap'[b].live
  BY <1>1 DEF ReleaseAll, SlotsOwnTheHeap
<1>4. QED
  BY <1>2, <1>3 DEF SlotsOwnTheHeap

(* A kernel changes what a buffer holds, and nothing else of the heap. *)
LEMMA WriteOwned ==
  ASSUME TypeOK, SlotsOwnTheHeap, NEW b \in Buffers, NEW v \in Values,
         heap' = [heap EXCEPT ![b].value = v], UNCHANGED slots
  PROVE  /\ heap' \in [Buffers -> Buffer]
         /\ SlotsOwnTheHeap'
         /\ \A c \in Buffers : heap'[c].live = heap[c].live /\ heap'[c].size = heap[c].size
         /\ heap'[b].value = v
<1>1. heap \in [Buffers -> Buffer]
  BY DEF TypeOK
<1>2. /\ heap' \in [Buffers -> Buffer] /\ heap'[b].value = v
      /\ \A c \in Buffers : heap'[c].live = heap[c].live /\ heap'[c].size = heap[c].size
  BY <1>1 DEF Buffer
<1>3. QED
  BY <1>2 DEF SlotsOwnTheHeap, TypeOK

-----------------------------------------------------------------------------
(* Type correctness.                                                         *)

LEMMA InitTyped == Init => IInv
<1>1. SUFFICES ASSUME Init PROVE IInv
  OBVIOUS
<1>2. TypeOK
  <2>1. output \in Seq(LineType)
    BY <1>1 DEF Init, InitMachine
  <2>2. Freed \in Buffer
    BY ValuesAssumption DEF Freed, Buffer
  <2>3. QED
    BY <1>1, <2>1, <2>2 DEF Init, InitMachine, TypeOK, HostStates
<1>3. SlotsOwnTheHeap
  BY <1>1, <1>2 DEF Init, InitMachine, SlotsOwnTheHeap, Freed
<1>4. HandlersOwnTheDriver /\ ResultStaysBound /\ PlacementHonoured
  BY <1>1
  DEF Init, InitMachine, HandlersOwnTheDriver, Launching, ResultStaysBound,
      PlacementHonoured
<1>5. CaptureComesLast /\ LastResultKept /\ CapturesLastDispatch
  BY <1>1
  DEF Init, InitMachine, CaptureComesLast, LastResultKept, CapturesLastDispatch
<1>6. QED
  BY <1>2, <1>3, <1>4, <1>5 DEF IInv

(* Where a launch stands when the invariant holds: a well formed DISPATCH, the
   right device, bound arguments. *)
LEMMA LaunchingTyped ==
  ASSUME IInv, host \in {"get_function", "launch", "synchronize"} \/ gpu # "idle"
  PROVE  /\ TypeOK /\ InProgram(call, pc) /\ WellFormed /\ Placed /\ ArgsBound
         /\ Launching /\ Cmd.kind = "DISPATCH"
BY DEF IInv, HandlersOwnTheDriver, Launching

(* What a kernel writes, on either device. *)
LEMMA KernelWrites ==
  ASSUME IInv, RunReferenceKernel \/ KernelFinishes \/ KernelFaults
  PROVE  /\ Dst \in Slots /\ SlotBuffer(Dst) = slots[Dst] /\ slots[Dst] \in Buffers
         /\ \E b \in Buffers, v \in Values :
              /\ b = slots[Dst] /\ heap' = [heap EXCEPT ![b].value = v]
              /\ RunReferenceKernel => last' = Ran(v)
         /\ UNCHANGED <<call, slots>>
         /\ InProgram(call, pc) /\ WellFormed /\ Placed /\ ArgsBound
<1>0. TypeOK
  BY DEF IInv
<1>1. InProgram(call, pc) /\ WellFormed /\ Placed /\ ArgsBound
  BY LaunchingTyped
  DEF RunReferenceKernel, RunsReference, Dispatching, AtCommand, KernelFinishes, KernelFaults
<1>2. Exe.kind \in KernelKinds /\ Len(Args) = Arity(Exe.kind)
  BY DEF RunReferenceKernel, KernelFinishes, KernelFaults, KernelFits, LoopsFit
<1>3. /\ Results \subseteq Values /\ Dst \in Slots
      /\ SlotBuffer(Dst) = slots[Dst] /\ slots[Dst] \in Buffers
  BY <1>0, <1>1, <1>2, ResultsTyped
<1>4. \E b \in Buffers, v \in Values :
        /\ b = slots[Dst] /\ heap' = [heap EXCEPT ![b].value = v]
        /\ RunReferenceKernel => last' = Ran(v)
  <2>1. CASE RunReferenceKernel
    BY <1>3, <2>1 DEF RunReferenceKernel
  <2>2. CASE ~RunReferenceKernel
    BY <1>3, <2>2 DEF KernelFinishes, KernelFaults
  <2>3. QED
    BY <2>1, <2>2
<1>5. UNCHANGED <<call, slots>>
  BY DEF RunReferenceKernel, KernelFinishes, KernelFaults
<1>6. QED
  BY <1>1, <1>3, <1>4, <1>5

(* The operands of an ALLOC. *)
LEMMA AllocTyped ==
  ASSUME TypeOK, Alloc
  PROVE  Ops[1] \in Nat /\ Ops[2] \in Nat
<1>1. Ops \in Seq(Nat)
  BY CommandTyped DEF Alloc, AtCommand
<1>2. 1 \in DOMAIN Ops /\ 2 \in DOMAIN Ops
  BY <1>1 DEF Alloc
<1>3. QED
  BY <1>1, <1>2

(* The operands of a CONST that passed its checks. *)
LEMMA ConstTyped ==
  ASSUME TypeOK, Const
  PROVE  /\ Ops[1] \in Nat /\ Ops[2] \in Nat /\ Ops[3] \in Nat
         /\ FreshValues(call, Ops[3]) \subseteq Values
         /\ Literal(call.module, Ops[2], Ops[3]) \in Values
<1>1. Ops[1] \in Nat /\ Ops[2] \in Nat /\ Ops[3] \in Nat
  <2>1. Ops \in Seq(Nat)
    BY CommandTyped DEF Const, AtCommand
  <2>2. 1 \in DOMAIN Ops /\ 2 \in DOMAIN Ops /\ 3 \in DOMAIN Ops
    BY <2>1 DEF Const
  <2>3. QED
    BY <2>1, <2>2
<1>2. FreshValues(call, Ops[3]) \subseteq Values
  BY ValuesAssumption DEF FreshValues
<1>3. M \in SectionsType
  BY CallsAssumption DEF TypeOK, Calls, M
<1>4. Ops[2] \in 0 .. M.rodata /\ Ops[3] \in 0 .. M.rodata
  BY <1>1, <1>3 DEF Const, OutsideRodata, SectionsType
<1>5. Literal(call.module, Ops[2], Ops[3]) \in Values
  BY <1>4, CallsAssumption DEF TypeOK, Calls, M
<1>6. QED
  BY <1>1, <1>2, <1>5

(* No action breaks the types. *)
LEMMA TypePreserved ==
  ASSUME IInv, [Next]_vars
  PROVE  TypeOK'
<1> USE DEF machine, driver, effects
<1>0. TypeOK /\ SlotsOwnTheHeap /\ HandlersOwnTheDriver
  BY DEF IInv
<1>1. CASE StartFails \/ FetchFails \/ WrongOperandCount \/ ConstOutsideRodata
        \/ DispatchRejected \/ DescriptorRejected \/ LaunchRejected \/ PrintRejected
  BY <1>0, <1>1
  DEF StartFails, FetchFails, WrongOperandCount, ConstOutsideRodata, DispatchRejected,
      DescriptorRejected, LaunchRejected, PrintRejected, Fail, TypeOK, HostStates, Errors
<1>2. CASE Start
  <2>1. EntryOffset(call) \in Nat
    <3>1. Sections(call.module).names \in Seq(SymbolType)
      BY <1>0, CallsAssumption DEF TypeOK, Calls, SectionsType
    <3>2. SymbolIndices(call) # {} /\ SymbolIndices(call) \subseteq DOMAIN Sections(call.module).names
      BY <1>2 DEF Start, SymbolIndices
    <3>5. SymbolIndices(call) \in SUBSET Nat
      BY <3>1, <3>2
    <3>3. \E i \in SymbolIndices(call) : \A j \in SymbolIndices(call) : i <= j
      BY <3>1, <3>2, <3>5, LeastMember
    <3>4. QED
      <4> DEFINE Least(i) == \A j \in SymbolIndices(call) : i <= j
                first == CHOOSE i \in SymbolIndices(call) : Least(i)
      <4>1. first \in SymbolIndices(call)
        BY <3>3
      <4>2. Sections(call.module).names[first].offset \in Nat
        <5>1. first \in DOMAIN Sections(call.module).names
          BY <3>2, <4>1
        <5> HIDE DEF first
        <5>2. Sections(call.module).names[first] \in SymbolType
          BY <3>1, <5>1
        <5>3. QED
          BY <5>2 DEF SymbolType
      <4>3. QED
        BY <4>2 DEF EntryOffset
  <2>2. QED
    BY <1>0, <1>2, <2>1 DEF Start, TypeOK, HostStates
<1>3. CASE Alloc
  <2>1. Ops[2] \in Nat
    BY <1>0, <1>3, AllocTyped
  <2>2. CASE BindFails(Ops[1])
    BY <1>0, <1>3, <2>2, BindFailsOwned DEF Alloc, TypeOK, HostStates
  <2>3. ASSUME NEW b \in Buffers, NEW v \in FreshValues(call, Ops[2]), Bind(Ops[1], b, Ops[2], v), Continue
        PROVE  TypeOK'
    <3>1. v \in Values
      BY ValuesAssumption DEF FreshValues
    <3>2. slots' \in [Slots -> Buffers \cup {None}] /\ heap' \in [Buffers -> Buffer]
      BY <1>0, <2>1, <2>3, <3>1, BindOwned
    <3>3. QED
      BY <1>0, <1>3, <2>3, <3>2 DEF Alloc, Continue, TypeOK, HostStates
  <2>4. QED
    BY <1>3, <2>2, <2>3 DEF Alloc
<1>4. CASE Const
  <2>1. CASE BindFails(Ops[1])
    BY <1>0, <1>4, <2>1, BindFailsOwned DEF Const, TypeOK, HostStates
  <2>2. ASSUME NEW b \in Buffers, NEW v \in Values, Bind(Ops[1], b, Ops[3], v),
               Continue \/ Fail("INVALID_ARGUMENT") \/ Fail("DEVICE")
        PROVE  TypeOK'
    <3>1. slots' \in [Slots -> Buffers \cup {None}] /\ heap' \in [Buffers -> Buffer]
      BY <1>0, <1>4, <2>2, BindOwned, ConstTyped
    <3>2. QED
      BY <1>0, <1>4, <2>2, <3>1 DEF Const, Continue, Fail, TypeOK, HostStates, Errors
  <2>3. QED
    BY <1>0, <1>4, <2>1, <2>2, ConstTyped DEF Const
<1>5. CASE RunReferenceKernel \/ KernelFinishes \/ KernelFaults
  <2>1. PICK b \in Buffers, v \in Values :
          /\ heap' = [heap EXCEPT ![b].value = v]
          /\ RunReferenceKernel => last' = Ran(v)
    BY <1>5, KernelWrites
  <2>2. /\ Dst \in Slots /\ slots[Dst] \in Buffers /\ UNCHANGED <<call, slots>>
        /\ InProgram(call, pc) /\ WellFormed
    BY <1>5, KernelWrites
  <2>3. heap' \in [Buffers -> Buffer]
    <3>1. UNCHANGED slots
      BY <2>2
    <3>2. QED
      BY <1>0, <2>1, <3>1, WriteOwned
  <2>4. Ops[1] \in Nat
    BY <1>0, <2>2, ExecutableTyped
  <2>5. Ran(v) \in RunType /\ Dst + 1 \in Nat
    BY <1>0, <2>2, <2>4 DEF Ran, RunType, Slots, TypeOK
  <2>6. CASE RunReferenceKernel
    <3>1. /\ Continue /\ resultSlot' = Dst + 1
          /\ UNCHANGED <<call, slots, driver, output, captured>>
      BY <2>6 DEF RunReferenceKernel
    <3>2. last' \in RunType /\ resultSlot' \in Nat
      BY <2>1, <2>5, <2>6, <3>1
    <3>3. QED
      BY <1>0, <2>3, <3>1, <3>2 DEF Continue, TypeOK, HostStates
  <2>7. CASE KernelFinishes \/ KernelFaults
    BY <1>0, <2>3, <2>7 DEF KernelFinishes, KernelFaults, TypeOK
  <2>8. QED
    BY <1>5, <2>6, <2>7
<1>6. CASE LoadImage \/ GetFunction \/ LaunchKernel \/ PrintStage \/ KernelOverruns \/ PrintOverruns
  BY ZenonT(40), <1>0, <1>6
  DEF LoadImage, GetFunction, LaunchKernel, PrintStage, KernelOverruns, PrintOverruns, Fail, TypeOK,
      HostStates, Errors
<1>7. CASE Synchronize
  <2>1. InProgram(call, pc) /\ WellFormed /\ ArgsBound
    BY <1>7, LaunchingTyped DEF Synchronize
  <2>2. CASE gpu = "finished"
    <3>1. Exe.kind \in KernelKinds /\ Len(Args) = Arity(Exe.kind)
      BY <1>0, <2>2 DEF HandlersOwnTheDriver, KernelFits, LoopsFit
    <3>2. Dst \in Nat /\ SlotBuffer(Dst) \in Buffers
      BY <1>0, <2>1, <3>1, ResultsTyped DEF Slots
    <3>3. Ran(heap[SlotBuffer(Dst)].value) \in RunType
      BY <1>0, <2>1, <3>2, ExecutableTyped DEF Ran, RunType, TypeOK, Buffer
    <3>4. QED
      <4>1. /\ Continue /\ cumodule' = FALSE /\ gpu' = "idle"
            /\ resultSlot' = Dst + 1 /\ last' = Ran(heap[SlotBuffer(Dst)].value)
            /\ UNCHANGED <<call, slots, heap, staging, output, captured>>
        BY <1>7, <2>2 DEF Synchronize
      <4>2. Dst + 1 \in Nat
        BY <3>2
      <4>3. pc + 1 \in Nat
        BY <1>0 DEF TypeOK
      <4>4. host' \in HostStates /\ status' \in Errors \cup {"OK"} /\ pc' \in Nat
        BY <4>1, <4>3 DEF Continue, HostStates
      <4>5. last' \in RunType \cup {None}
        BY <3>3, <4>1
      <4>6. QED
        BY <1>0, <4>1, <4>2, <4>4, <4>5 DEF TypeOK
  <2>3. CASE gpu = "faulted"
    BY <1>0, <1>7, <2>3 DEF Synchronize, Fail, TypeOK, HostStates, Errors
  <2>4. QED
    BY <1>7, <2>2, <2>3 DEF Synchronize
<1>8. CASE PrintMapped \/ PrintRead
  <2>1. InProgram(call, pc) /\ Len(Ops) = 3 /\ Printable
    BY <1>0, <1>8 DEF PrintMapped, PrintRead, AtCommand, HandlersOwnTheDriver
  <2>2. Ops[1] \in Nat /\ Ops[2] \in Nat /\ Ops[3] \in Nat
    <3>1. Ops \in Seq(Nat)
      BY <1>0, <2>1, CommandTyped
    <3>2. 1 \in DOMAIN Ops /\ 2 \in DOMAIN Ops /\ 3 \in DOMAIN Ops
      BY <2>1, <3>1
    <3>3. QED
      BY <3>1, <3>2
  <2>3. SlotBuffer(Ops[1]) \in Buffers
    BY <1>0, <2>1, BoundSlot DEF Printable
  <2>4. Ops[2] * Ops[3] \in Nat
    BY <2>2
  <2>5. Printed \in LineType
    BY <1>0, <2>2, <2>3, <2>4 DEF Printed, PrintSize, LineType, TypeOK, Buffer
  <2>6. Append(output, Printed) \in Seq(LineType)
    BY <1>0, <2>5 DEF TypeOK
  <2>7. CASE PrintMapped
    <3>1. /\ Continue /\ output' = Append(output, Printed)
          /\ UNCHANGED <<call, machine, driver, captured, last>>
      BY <2>7 DEF PrintMapped
    <3>2. output' \in Seq(LineType)
      BY <2>6, <3>1
    <3>3. host' \in HostStates /\ status' \in Errors \cup {"OK"} /\ pc' \in Nat
      BY <1>0, <3>1 DEF Continue, HostStates, TypeOK
    <3>4. UNCHANGED <<call, slots, heap, resultSlot, staging, cumodule, gpu, captured, last>>
      BY <3>1
    <3>5. QED
      BY <1>0, <3>2, <3>3, <3>4 DEF TypeOK
  <2>8. CASE PrintRead
    <3>1. /\ (Continue /\ output' = Append(output, Printed)) \/ (Fail("DEVICE") /\ UNCHANGED output)
          /\ staging' = FALSE
          /\ UNCHANGED <<call, machine, cumodule, gpu, captured, last>>
      BY <2>8 DEF PrintRead
    <3>2. output' \in Seq(LineType)
      BY <1>0, <2>6, <3>1 DEF TypeOK
    <3>3. host' \in HostStates /\ status' \in Errors \cup {"OK"} /\ pc' \in Nat
      BY <1>0, <3>1 DEF Continue, Fail, HostStates, Errors, TypeOK
    <3>4. UNCHANGED <<call, slots, heap, resultSlot, cumodule, gpu, captured, last>>
      BY <3>1
    <3>5. QED
      BY <1>0, <3>1, <3>2, <3>3, <3>4 DEF TypeOK
  <2>9. QED
    BY <1>8, <2>7, <2>8
<1>9. CASE End
  <2>1. slots' \in [Slots -> Buffers \cup {None}] /\ heap' \in [Buffers -> Buffer]
    BY <1>0, <1>9, ReleaseAllOwned DEF End
  <2>2. captured' \in Values \cup {None} /\ status' \in Errors \cup {"OK"}
    <3>1. CASE UNCHANGED captured
      BY <1>0, <1>9, <3>1 DEF End, TypeOK, Errors
    <3>2. CASE Capturable /\ captured' = heap[SlotBuffer(resultSlot - 1)].value /\ UNCHANGED status
      <4>1. SlotBuffer(resultSlot - 1) \in Buffers
        BY <1>0, <3>2, BoundSlot DEF Capturable
      <4>2. QED
        BY <1>0, <3>2, <4>1 DEF TypeOK, Buffer
    <3>3. QED
      BY <1>9, <3>1, <3>2 DEF End
  <2>3. QED
    BY <1>0, <1>9, <2>1, <2>2 DEF End, TypeOK, HostStates
<1>10. CASE Exit
  BY <1>0, <1>10, ReleaseAllOwned DEF Exit, TypeOK, HostStates
<1>11. CASE UNCHANGED vars
  BY <1>0, <1>11 DEF vars, TypeOK
<1>12. QED
  BY <1>1, <1>2, <1>3, <1>4, <1>5, <1>6, <1>7, <1>8, <1>9, <1>10, <1>11
  DEF Next, HostStep, GpuStep

-----------------------------------------------------------------------------
(* Ownership.                                                                *)

LEMMA HeapPreserved ==
  ASSUME IInv, [Next]_vars
  PROVE  SlotsOwnTheHeap'
<1> USE DEF machine
<1>0. TypeOK /\ SlotsOwnTheHeap
  BY DEF IInv
<1>1. CASE UNCHANGED <<slots, heap>>
  BY <1>0, <1>1 DEF SlotsOwnTheHeap
<1>2. CASE Alloc
  <2>1. Ops[2] \in Nat
    BY <1>0, <1>2, AllocTyped
  <2>2. FreshValues(call, Ops[2]) \subseteq Values
    BY ValuesAssumption DEF FreshValues
  <2>3. QED
    BY <1>0, <1>2, <2>1, <2>2, BindOwned, BindFailsOwned DEF Alloc
<1>3. CASE Const
  <2>1. /\ Ops[3] \in Nat /\ FreshValues(call, Ops[3]) \subseteq Values
        /\ Literal(call.module, Ops[2], Ops[3]) \in Values
    BY <1>0, <1>3, ConstTyped
  <2>2. QED
    BY <1>0, <1>3, <2>1, BindOwned, BindFailsOwned DEF Const
<1>4. CASE RunReferenceKernel \/ KernelFinishes \/ KernelFaults
  <2>1. PICK b \in Buffers, v \in Values : heap' = [heap EXCEPT ![b].value = v]
    BY <1>4, KernelWrites
  <2>2. UNCHANGED slots
    BY <1>4, KernelWrites
  <2>3. QED
    BY <1>0, <2>1, <2>2, WriteOwned
<1>5. CASE End \/ Exit
  BY <1>0, <1>5, ReleaseAllOwned DEF End, Exit
<1>6. QED
  BY <1>1, <1>2, <1>3, <1>4, <1>5
  DEF Next, HostStep, GpuStep, vars, StartFails, Start, FetchFails, WrongOperandCount,
      ConstOutsideRodata, DispatchRejected, DescriptorRejected, LaunchRejected, LoadImage,
      GetFunction, LaunchKernel, Synchronize, PrintRejected, PrintMapped, PrintStage,
      PrintRead, PrintOverruns, KernelOverruns

-----------------------------------------------------------------------------
(* The handlers and the driver.                                              *)

(* While a handler is inside a command and binds nothing, what it checked
   stays true. *)
LEMMA CheckedStaysTrue ==
  ASSUME UNCHANGED <<call, pc, slots>>
  PROVE  /\ InProgram(call, pc)' <=> InProgram(call, pc)
         /\ Cmd' = Cmd /\ Ops' = Ops /\ Args' = Args
         /\ WellFormed' <=> WellFormed
         /\ Exe' = Exe /\ (Placed' <=> Placed)
         /\ \A s : SlotBuffer(s)' = SlotBuffer(s)
         /\ ArgsBound' <=> ArgsBound
<1>1. /\ InProgram(call, pc)' <=> InProgram(call, pc)
      /\ Cmd' = Cmd /\ Ops' = Ops /\ Args' = Args
  BY DEF InProgram, Cmd, Ops, CommandAt, Args, ArgsOf
<1>2. /\ WellFormed' <=> WellFormed
      /\ Exe' = Exe
  BY <1>1 DEF WellFormed, WellFormedDispatch, Exe, ExeOf, ExesOf
<1>3. Placed' <=> Placed
  BY <1>2 DEF Placed
<1>4. \A s : SlotBuffer(s)' = SlotBuffer(s)
  BY DEF SlotBuffer
<1>5. ArgsBound' <=> ArgsBound
  BY <1>1, <1>4 DEF ArgsBound, IsBound
<1>6. QED
  BY <1>1, <1>2, <1>3, <1>4, <1>5

LEMMA HandlersPreserved ==
  ASSUME IInv, [Next]_vars
  PROVE  HandlersOwnTheDriver'
<1> USE DEF machine, driver, Launching
<1>0. TypeOK /\ SlotsOwnTheHeap /\ HandlersOwnTheDriver
  BY DEF IInv
<1>1. CASE StartFails \/ Start
  BY <1>0, <1>1 DEF StartFails, Start, HandlersOwnTheDriver
<1>2. ASSUME host = "fetch", UNCHANGED driver,
             Continue \/ \E s \in Errors : Fail(s)
      PROVE  HandlersOwnTheDriver'
  BY <1>0, <1>2 DEF Continue, Fail, Errors, HandlersOwnTheDriver
<1>3. CASE FetchFails \/ WrongOperandCount \/ ConstOutsideRodata \/ DispatchRejected
        \/ DescriptorRejected \/ LaunchRejected \/ PrintRejected
  <2>1. host = "fetch" /\ UNCHANGED driver /\ \E s \in Errors : Fail(s)
    BY <1>3
    DEF FetchFails, WrongOperandCount, ConstOutsideRodata, DispatchRejected,
        DescriptorRejected, LaunchRejected, PrintRejected, AtCommand, Dispatching, Errors
  <2>2. QED
    BY <1>2, <2>1
<1>4. CASE Alloc \/ Const \/ RunReferenceKernel \/ PrintMapped
  <2>1. host = "fetch" /\ UNCHANGED driver
    BY <1>4 DEF Alloc, Const, RunReferenceKernel, PrintMapped, AtCommand, RunsReference, Dispatching
  <2>2. Continue \/ \E s \in Errors : Fail(s)
    BY <1>4 DEF Alloc, Const, RunReferenceKernel, PrintMapped, BindFails, Errors
  <2>3. QED
    BY <1>2, <2>1, <2>2
<1>5. CASE LoadImage
  <2>1. /\ host = "fetch" /\ InProgram(call, pc) /\ Cmd.kind = "DISPATCH"
        /\ WellFormed /\ Placed /\ ArgsBound
        /\ UNCHANGED <<call, pc, slots, status, staging, gpu>> /\ cumodule' /\ host' = "get_function"
    BY <1>5 DEF LoadImage, Dispatching, AtCommand
  <2>2. QED
    BY <1>0, <2>1, CheckedStaysTrue DEF HandlersOwnTheDriver
<1>6. CASE GetFunction \/ LaunchKernel
  <2>1. CASE Fail("NOT_FOUND") \/ Fail("DEVICE")
    BY <1>0, <1>6, <2>1 DEF GetFunction, LaunchKernel, Fail, HandlersOwnTheDriver
  <2>2. CASE ~Fail("NOT_FOUND") /\ ~Fail("DEVICE")
    <3>1. /\ host' \in {"launch", "synchronize"} /\ host \in {"get_function", "launch"}
          /\ UNCHANGED <<call, pc, slots, status, cumodule, staging>>
          /\ gpu' = gpu \/ (gpu' = "running" /\ host' = "synchronize")
      BY <1>6, <2>2 DEF GetFunction, LaunchKernel
    <3>2. QED
      BY <1>0, <3>1, CheckedStaysTrue DEF HandlersOwnTheDriver
  <2>3. QED
    BY <2>1, <2>2
<1>7. CASE Synchronize
  <2>1. /\ host = "synchronize" /\ gpu' = "idle" /\ ~cumodule' /\ UNCHANGED <<slots, staging>>
        /\ Continue \/ Fail("DEVICE")
    BY <1>7 DEF Synchronize
  <2>2. QED
    BY <1>0, <2>1 DEF Continue, Fail, HandlersOwnTheDriver
<1>8. CASE KernelFinishes \/ KernelFaults
  <2>1. /\ gpu = "running" /\ host = "synchronize" /\ KernelFits
        /\ UNCHANGED <<call, host, status, pc, slots, cumodule, staging>>
    BY <1>0, <1>8 DEF KernelFinishes, KernelFaults, HandlersOwnTheDriver
  <2>2. Cmd' = Cmd /\ ArgsBound /\ Args' = Args /\ Exe' = Exe
    BY <1>0, <2>1, CheckedStaysTrue DEF HandlersOwnTheDriver
  <2>3. \A i \in DOMAIN Args : SizeOf(Args[i])' = SizeOf(Args[i])
    <3>1. PICK b \in Buffers, v \in Values : heap' = [heap EXCEPT ![b].value = v]
      BY <1>8, KernelWrites
    <3>2. \A c \in Buffers : heap'[c].size = heap[c].size
      BY <1>0, <2>1, <3>1, WriteOwned
    <3>3. \A i \in DOMAIN Args : /\ SlotBuffer(Args[i]) \in Buffers
                                /\ SlotBuffer(Args[i])' = SlotBuffer(Args[i])
      BY <1>0, <2>1, <2>2, BoundSlot, CheckedStaysTrue DEF ArgsBound
    <3>4. QED
      BY <2>2, <3>2, <3>3 DEF SizeOf
  <2>4. KernelFits'
    <3>1. Exe.kind \in KernelKinds /\ Len(Args) = Arity(Exe.kind)
      BY <2>1 DEF KernelFits, LoopsFit
    <3>2. Args \in Seq(Nat)
      BY <1>0, <2>1, ArgsTyped DEF HandlersOwnTheDriver
    <3>3. CASE Exe.kind = "matmul"
      <4>1. 1 \in DOMAIN Args /\ 2 \in DOMAIN Args /\ 3 \in DOMAIN Args
        BY <3>1, <3>2, <3>3 DEF Arity
      <4>2. QED
        BY <2>1, <2>2, <2>3, <3>3, <4>1 DEF KernelFits, LoopsFit
    <3>4. CASE Exe.kind # "matmul"
      BY <2>1, <2>2, <2>3, <3>4 DEF KernelFits, LoopsFit
    <3>5. QED
      BY <3>3, <3>4
  <2>5. QED
    BY <1>0, <2>1, <2>4, CheckedStaysTrue DEF HandlersOwnTheDriver
<1>9. CASE KernelOverruns
  <2>1. /\ host \in {"fetch", "synchronize"} /\ host' = "undefined" /\ gpu' = "idle"
        /\ UNCHANGED <<status, slots, staging, cumodule>>
    BY <1>0, <1>9
    DEF KernelOverruns, RunsReference, Dispatching, AtCommand, HandlersOwnTheDriver
  <2>2. QED
    BY <1>0, <2>1 DEF HandlersOwnTheDriver
<1>9a. CASE PrintOverruns
  <2>1. /\ host \in {"fetch", "print_read"} /\ host' = "undefined"
        /\ UNCHANGED <<status, slots, staging, cumodule, gpu>>
    BY <1>9a DEF PrintOverruns, AtCommand
  <2>2. QED
    BY <1>0, <2>1 DEF HandlersOwnTheDriver
<1>10. CASE PrintStage
  <2>1. CASE Fail("OUT_OF_MEMORY") /\ UNCHANGED staging
    BY <1>0, <1>10, <2>1 DEF PrintStage, AtCommand, Fail, HandlersOwnTheDriver
  <2>2. CASE host' = "print_read" /\ UNCHANGED <<status, pc>>
    <3>1. /\ InProgram(call, pc) /\ Cmd.kind = "PRINT" /\ Len(Ops) = 3 /\ Printable
          /\ UNCHANGED <<call, slots, heap, cumodule, gpu>> /\ host = "fetch"
      BY <1>10 DEF PrintStage, AtCommand
    <3>2. Printable'
      BY <2>2, <3>1, CheckedStaysTrue DEF Printable, IsBound, PrintSize, SizeOf
    <3>3. QED
      BY <1>0, <2>2, <3>1, <3>2, CheckedStaysTrue DEF HandlersOwnTheDriver
  <2>3. QED
    BY <1>10, <2>1, <2>2 DEF PrintStage
<1>11. CASE PrintRead
  BY <1>0, <1>11 DEF PrintRead, Continue, Fail, HandlersOwnTheDriver
<1>12. CASE End \/ Exit
  BY <1>0, <1>12, ReleaseAllOwned DEF End, Exit, AtCommand, HandlersOwnTheDriver
<1>13. CASE UNCHANGED vars
  <2>1. UNCHANGED <<call, host, status, pc, slots, heap, staging, cumodule, gpu>>
    BY <1>13 DEF vars
  <2>2. (Printable' <=> Printable) /\ (KernelFits' <=> KernelFits)
    BY <2>1, CheckedStaysTrue DEF Printable, IsBound, PrintSize, SizeOf, KernelFits, LoopsFit
  <2>3. QED
    BY <1>0, <2>1, <2>2, CheckedStaysTrue DEF HandlersOwnTheDriver
<1>14. QED
  BY <1>1, <1>3, <1>4, <1>5, <1>6, <1>7, <1>8, <1>9, <1>10, <1>11, <1>12, <1>13,
     <1>9a
  DEF Next, HostStep, GpuStep

-----------------------------------------------------------------------------
(* The result slot, and placement.                                           *)

LEMMA ResultSlotPreserved ==
  ASSUME IInv, [Next]_vars
  PROVE  ResultStaysBound'
<1> USE DEF machine
<1>0. TypeOK /\ SlotsOwnTheHeap /\ HandlersOwnTheDriver /\ ResultStaysBound
  BY DEF IInv
<1>1. ASSUME UNCHANGED <<slots, resultSlot>>,
             status' = "OK" /\ host' \notin {"done", "undefined"}
               => status = "OK" /\ host \notin {"done", "undefined"}
      PROVE  ResultStaysBound'
  BY <1>0, <1>1 DEF ResultStaysBound, IsBound, SlotBuffer
<1>2. CASE status' # "OK" \/ host' \in {"done", "undefined"}
  BY <1>2 DEF ResultStaysBound
<1>3. CASE Alloc \/ Const
  <2>1. status' = "OK" => host = "fetch" /\ status = "OK"
    BY <1>0, <1>3 DEF Alloc, Const, AtCommand, HandlersOwnTheDriver
  <2>2. UNCHANGED resultSlot
    BY <1>3 DEF Alloc, Const
  <2>3. ASSUME status' = "OK"
        PROVE  \A t \in Slots : slots[t] # None => slots'[t] # None
    <3>1. ~BindFails(Ops[1])
      BY <2>3 DEF BindFails, Fail
    <3>2. \E b \in Buffers, size \in Nat, v \in Values : Bind(Ops[1], b, size, v)
      <4>1. CASE Alloc
        <5>1. Ops[2] \in Nat
          BY <1>0, <4>1, AllocTyped
        <5>2. FreshValues(call, Ops[2]) \subseteq Values
          BY ValuesAssumption DEF FreshValues
        <5>3. QED
          BY <3>1, <4>1, <5>1, <5>2 DEF Alloc
      <4>2. CASE Const
        BY <1>0, <3>1, <4>2, ConstTyped DEF Const
      <4>3. QED
        BY <1>3, <4>1, <4>2
    <3>3. QED
      BY <1>0, <3>2, BindOwned
  <2>4. ASSUME status' = "OK", resultSlot > 0
        PROVE  IsBound(resultSlot - 1)'
    <3>1. IsBound(resultSlot - 1)
      BY <1>0, <2>1, <2>4 DEF ResultStaysBound
    <3>2. resultSlot - 1 \in Slots /\ slots[resultSlot - 1] # None
      BY <3>1 DEF IsBound, SlotBuffer
    <3>3. slots'[resultSlot - 1] # None
      BY <2>3, <2>4, <3>2
    <3>4. QED
      BY <2>2, <3>2, <3>3 DEF IsBound, SlotBuffer
  <2>5. QED
    BY <2>2, <2>4 DEF ResultStaysBound
<1>4. CASE RunReferenceKernel \/ (Synchronize /\ gpu = "finished")
  <2>1. resultSlot' = Dst + 1 /\ UNCHANGED slots
    BY <1>4 DEF RunReferenceKernel, Synchronize
  <2>2. /\ InProgram(call, pc) /\ WellFormed /\ ArgsBound
        /\ Exe.kind \in KernelKinds /\ Len(Args) = Arity(Exe.kind)
    BY <1>0, <1>4
    DEF RunReferenceKernel, RunsReference, Dispatching, AtCommand, KernelFits, LoopsFit, Synchronize,
        HandlersOwnTheDriver, Launching
  <2>3. Dst \in Slots /\ slots[Dst] \in Buffers
    BY <1>0, <2>2, ResultsTyped
  <2>4. resultSlot' - 1 = Dst
    BY <2>1, <2>3 DEF Slots
  <2>5. slots'[Dst] # None
    BY <2>1, <2>3, BuffersAssumption
  <2>6. IsBound(resultSlot - 1)'
    BY <2>3, <2>4, <2>5 DEF IsBound, SlotBuffer
  <2>7. QED
    BY <2>6 DEF ResultStaysBound
<1>5. CASE StartFails \/ FetchFails \/ WrongOperandCount \/ ConstOutsideRodata
        \/ DispatchRejected \/ DescriptorRejected \/ LaunchRejected \/ PrintRejected
  BY <1>0, <1>2, <1>5
  DEF StartFails, FetchFails, WrongOperandCount, ConstOutsideRodata, DispatchRejected,
      DescriptorRejected, LaunchRejected, PrintRejected, Fail
<1>6. CASE Start \/ LoadImage \/ GetFunction \/ LaunchKernel \/ PrintMapped \/ PrintStage
        \/ PrintRead
  <2>1. UNCHANGED <<slots, resultSlot>> /\ host \notin {"exit", "done", "undefined"}
    BY <1>6
    DEF Start, LoadImage, GetFunction, LaunchKernel, PrintMapped, PrintStage, PrintRead,
        Dispatching, AtCommand
  <2>2. QED
    BY <1>0, <1>1, <2>1 DEF HandlersOwnTheDriver
<1>7. CASE Synchronize /\ gpu # "finished"
  BY <1>2, <1>7 DEF Synchronize, Fail
<1>8. CASE KernelFinishes \/ KernelFaults \/ UNCHANGED vars
  BY <1>1, <1>8 DEF KernelFinishes, KernelFaults, vars
<1>9. CASE KernelOverruns \/ PrintOverruns \/ End \/ Exit
  BY <1>2, <1>9 DEF KernelOverruns, PrintOverruns, End, Exit
<1>10. QED
  BY <1>3, <1>4, <1>5, <1>6, <1>7, <1>8, <1>9 DEF Next, HostStep, GpuStep

LEMMA PlacementPreserved ==
  ASSUME IInv, [Next]_vars
  PROVE  PlacementHonoured'
<1>0. TypeOK /\ HandlersOwnTheDriver /\ PlacementHonoured
  BY DEF IInv
<1>1. CASE UNCHANGED <<call, last>>
  BY <1>0, <1>1 DEF PlacementHonoured, ExesOf
<1>2. CASE RunReferenceKernel \/ Synchronize
  <2>1. /\ Placed /\ UNCHANGED call
        /\ UNCHANGED last \/ \E v : last' = Ran(v)
    BY <1>0, <1>2
    DEF RunReferenceKernel, RunsReference, Dispatching, Synchronize, HandlersOwnTheDriver,
        Launching
  <2>2. CASE UNCHANGED last
    BY <1>1, <2>1, <2>2
  <2>3. CASE \E v : last' = Ran(v)
    <3>1. last'.exe = Ops[1]
      BY <2>3 DEF Ran
    <3>2. QED
      BY <2>1, <3>1 DEF PlacementHonoured, Placed, Exe, ExeOf, ExesOf
  <2>4. QED
    BY <2>1, <2>2, <2>3
<1>3. QED
  BY <1>1, <1>2
  DEF Next, HostStep, GpuStep, vars, effects, StartFails, Start, FetchFails,
      WrongOperandCount, Alloc, ConstOutsideRodata, Const, DispatchRejected,
      DescriptorRejected, LaunchRejected, LoadImage, GetFunction, LaunchKernel,
      PrintRejected, PrintMapped, PrintStage, PrintRead, PrintOverruns, KernelOverruns, KernelFinishes,
      KernelFaults, End, Exit

-----------------------------------------------------------------------------
(* The captured result.                                                      *)

(* Nothing happens after the call returned. *)
LEMMA ReturnedStays ==
  ASSUME IInv, [Next]_vars, host = "done"
  PROVE  UNCHANGED vars
<1>1. gpu = "idle"
  BY DEF IInv, HandlersOwnTheDriver
<1>2. QED
  BY <1>1
  DEF Next, HostStep, GpuStep, StartFails, Start, FetchFails, WrongOperandCount, Alloc,
      ConstOutsideRodata, Const, DispatchRejected, DescriptorRejected, RunReferenceKernel,
      RunsReference, LaunchRejected, LoadImage, Dispatching, GetFunction, LaunchKernel,
      Synchronize, PrintRejected, PrintMapped, PrintStage, PrintRead, End, Exit, AtCommand,
      PrintOverruns, KernelOverruns, KernelFinishes, KernelFaults

(* A handler that bound a slot and went on: which command did. *)
LEMMA BindsHere ==
  ASSUME IInv, Alloc \/ Const, status' = "OK"
  PROVE  /\ UNCHANGED <<call, resultSlot, last, gpu>> /\ Continue /\ host = "fetch"
         /\ pc + 1 \in DOMAIN M.commands /\ Binds(pc + 1) /\ M.commands[pc + 1].ops[1] = Ops[1]
         /\ \E b \in Buffers, size \in Nat, v \in Values :
              Bind(Ops[1], b, size, v) /\ v \in PutBy(M.commands[pc + 1])
<1>0. TypeOK
  BY DEF IInv
<1>1. ~BindFails(Ops[1])
  BY DEF BindFails, Fail
<1>2. UNCHANGED <<call, resultSlot, last, gpu>> /\ host = "fetch" /\ InProgram(call, pc)
  BY DEF Alloc, Const, AtCommand, effects, driver
<1>3. /\ Continue
      /\ \E b \in Buffers, size \in Nat, v \in Values :
           Bind(Ops[1], b, size, v) /\ v \in PutBy(M.commands[pc + 1])
  <2>0. Cmd = M.commands[pc + 1] /\ Ops = M.commands[pc + 1].ops
    BY DEF Cmd, Ops, CommandAt, M
  <2>1. CASE Alloc
    <3>1. Ops[2] \in Nat
      BY <1>0, <2>1, AllocTyped
    <3>2. FreshValues(call, Ops[2]) \subseteq Values
      BY ValuesAssumption DEF FreshValues
    <3>3. PutBy(M.commands[pc + 1]) = FreshValues(call, Ops[2])
      BY <2>0, <2>1 DEF Alloc, AtCommand, PutBy
    <3>4. QED
      BY <1>1, <2>1, <3>1, <3>2, <3>3 DEF Alloc
  <2>2. CASE Const
    <3>1. Ops[3] \in Nat /\ Literal(call.module, Ops[2], Ops[3]) \in Values
      BY <1>0, <2>2, ConstTyped
    <3>2. PutBy(M.commands[pc + 1]) = {Literal(call.module, Ops[2], Ops[3])}
      BY <2>0, <2>2 DEF Const, AtCommand, PutBy
    <3>3. Continue /\ \E b \in Buffers : Bind(Ops[1], b, Ops[3], Literal(call.module, Ops[2], Ops[3]))
      BY <1>1, <2>2 DEF Const, Fail
    <3>4. QED
      BY <3>1, <3>2, <3>3
  <2>3. QED
    BY <2>1, <2>2
<1>4. pc + 1 \in DOMAIN M.commands
  <2>1. M \in SectionsType
    BY <1>0, CallsAssumption DEF TypeOK, Calls, M
  <2>2. M.commands \in Seq(CommandType \cup {Truncated})
    BY <2>1 DEF SectionsType
  <2>3. QED
    BY <1>0, <1>2, <2>2 DEF InProgram, TypeOK, M
<1>5. Binds(pc + 1) /\ M.commands[pc + 1].ops[1] = Ops[1]
  BY DEF Alloc, Const, AtCommand, Binds, Cmd, Ops, CommandAt, M
<1>6. QED
  BY <1>2, <1>3, <1>4, <1>5

(* Only END fills out_result. *)
LEMMA CaptureLastPreserved ==
  ASSUME IInv, [Next]_vars
  PROVE  CaptureComesLast'
<1>1. CASE host = "done"
  BY <1>1, ReturnedStays DEF IInv, CaptureComesLast, vars, effects
<1>2. CASE host # "done" /\ End
  BY <1>2 DEF End, CaptureComesLast
<1>3. CASE host # "done" /\ UNCHANGED captured
  BY <1>3 DEF IInv, CaptureComesLast
<1>4. End \/ UNCHANGED captured
  BY DEF Next, HostStep, GpuStep, vars, effects, StartFails, Start, FetchFails,
      WrongOperandCount, Alloc, ConstOutsideRodata, Const, DispatchRejected,
      DescriptorRejected, RunReferenceKernel, LaunchRejected, LoadImage, GetFunction,
      LaunchKernel, Synchronize, PrintRejected, PrintMapped, PrintStage, PrintRead,
      PrintOverruns, KernelOverruns, KernelFinishes, KernelFaults, Exit
<1>5. QED
  BY <1>1, <1>2, <1>3, <1>4

(* A command that does not bind the last destination leaves what was put there. *)
LEMMA RebindsStay ==
  ASSUME TypeOK, UNCHANGED <<call, last>>, last # None,
         \/ pc' = pc
         \/ /\ pc' = pc + 1
            /\ ~(pc + 1 \in DOMAIN M.commands /\ Binds(pc + 1) /\ M.commands[pc + 1].ops[1] = LastDst)
  PROVE  /\ M' = M /\ LastDst' = LastDst /\ Rebinds' = Rebinds
         /\ \A command : PutBy(command)' = PutBy(command)
<1>1. M' = M /\ \A i : Binds(i)' <=> Binds(i)
  BY DEF M, Binds
<1>2. LastDst' = LastDst
  BY <1>1 DEF LastDst
<1>3. \A command : PutBy(command)' = PutBy(command)
  BY DEF PutBy, FreshValues
<1>4. pc \in Nat /\ last.at \in Nat
  BY DEF TypeOK, RunType
<1>5. Rebinds' = Rebinds
  <2>1. CASE pc' = pc
    BY <1>1, <1>2, <2>1 DEF Rebinds
  <2>2. CASE pc' # pc
    <3>1. /\ pc' = pc + 1
          /\ ~(pc + 1 \in DOMAIN M.commands /\ Binds(pc + 1) /\ M.commands[pc + 1].ops[1] = LastDst)
      BY <2>2
    <3>2. \A i \in last.at + 1 .. pc + 1 : i \in last.at + 1 .. pc \/ i = pc + 1
      BY <1>4
    <3>3. \A i \in last.at + 1 .. pc : i \in last.at + 1 .. pc + 1
      BY <1>4
    <3>4. Rebinds' = {i \in last.at + 1 .. pc + 1 :
                        i \in DOMAIN M.commands /\ Binds(i) /\ M.commands[i].ops[1] = LastDst}
      BY <1>1, <1>2, <3>1 DEF Rebinds
    <3>5. QED
      BY <3>1, <3>2, <3>3, <3>4 DEF Rebinds
  <2>3. QED
    BY <2>1, <2>2
<1>6. QED
  BY <1>1, <1>2, <1>3, <1>5

(* One that does is the last of them. *)
LEMMA RebindsOneMore ==
  ASSUME TypeOK, UNCHANGED <<call, last>>, last # None, last.at <= pc, pc' = pc + 1,
         pc + 1 \in DOMAIN M.commands, Binds(pc + 1), M.commands[pc + 1].ops[1] = LastDst
  PROVE  /\ M' = M /\ LastDst' = LastDst
         /\ pc + 1 \in Rebinds' /\ \A j \in Rebinds' : j <= pc + 1
         /\ \A command : PutBy(command)' = PutBy(command)
<1>1. M' = M /\ \A i : Binds(i)' <=> Binds(i)
  BY DEF M, Binds
<1>2. LastDst' = LastDst
  BY <1>1 DEF LastDst
<1>3. \A command : PutBy(command)' = PutBy(command)
  BY DEF PutBy, FreshValues
<1>4. pc \in Nat /\ last.at \in Nat
  BY DEF TypeOK, RunType
<1>5. Rebinds' = {i \in last.at + 1 .. pc + 1 :
                    i \in DOMAIN M.commands /\ Binds(i) /\ M.commands[i].ops[1] = LastDst}
  BY <1>1, <1>2 DEF Rebinds
<1>6. pc + 1 \in last.at + 1 .. pc + 1 /\ \A j \in last.at + 1 .. pc + 1 : j <= pc + 1
  BY <1>4
<1>7. QED
  BY <1>1, <1>2, <1>3, <1>5, <1>6

(* A dispatch that ran to its end is the last one, and its slot is bound as it was. *)
LEMMA LastIsThis ==
  ASSUME TypeOK, InProgram(call, pc), UNCHANGED call, pc' = pc + 1,
         NEW v \in Values, last' = Ran(v)
  PROVE  /\ last'.at \in DOMAIN M'.commands /\ last'.at <= pc'
         /\ LastDst' = Dst /\ Rebinds' = {} /\ last'.value = v
<1>1. last'.at = pc + 1 /\ last'.value = v
  BY DEF Ran
<1>2. pc \in Nat
  BY DEF TypeOK
<1>3. M' = M
  BY DEF M
<1>4. pc + 1 \in DOMAIN M.commands
  <2>1. M \in SectionsType
    BY CallsAssumption DEF TypeOK, Calls, M
  <2>2. M.commands \in Seq(CommandType \cup {Truncated})
    BY <2>1 DEF SectionsType
  <2>3. QED
    BY <1>2, <2>2 DEF InProgram, M
<1>5. LastDst' = Dst
  BY <1>1, <1>3 DEF LastDst, Dst, Ops, Cmd, CommandAt, M
<1>6. Rebinds' = {}
  <2>1. last'.at + 1 .. pc' = {}
    BY <1>1, <1>2
  <2>2. QED
    BY <2>1 DEF Rebinds
<1>7. QED
  BY <1>1, <1>2, <1>3, <1>4, <1>5, <1>6

(* Only a command that binds the last destination writes its buffer, except the next
   dispatch, which becomes the last one. *)
LEMMA LastResultPreserved ==
  ASSUME IInv, [Next]_vars
  PROVE  LastResultKept'
<1>0. /\ TypeOK /\ SlotsOwnTheHeap /\ HandlersOwnTheDriver /\ ResultStaysBound /\ LastResultKept
  BY DEF IInv
<1>1. ASSUME UNCHANGED <<call, slots, heap, resultSlot, last>>, gpu' = gpu \/ host = "launch",
             host \notin {"exit", "done", "undefined"} \/ UNCHANGED <<host, status>>,
             pc' = pc \/ (pc' = pc + 1 /\ ~Binds(pc + 1)) \/ last = None
      PROVE  LastResultKept'
  <2>1. SlotBuffer(resultSlot - 1)' = SlotBuffer(resultSlot - 1)
    BY <1>1 DEF SlotBuffer
  <2>2. gpu' = gpu \/ gpu = "idle"
    BY <1>0, <1>1 DEF HandlersOwnTheDriver
  <2>3. CASE last = None
    BY <1>1, <2>3 DEF LastResultKept
  <2>4. CASE last # None
    <3>1. /\ M' = M /\ LastDst' = LastDst /\ Rebinds' = Rebinds
          /\ \A command : PutBy(command)' = PutBy(command)
      BY <1>0, <1>1, <2>4, RebindsStay
    <3>2. ASSUME status' = "OK", host' \notin {"done", "undefined"}, gpu' \notin {"finished", "faulted"}
          PROVE  /\ last.at \in DOMAIN M.commands /\ last.at <= pc
                 /\ resultSlot > 0 /\ resultSlot - 1 = LastDst
                 /\ LeftByLast(heap[SlotBuffer(resultSlot - 1)].value)
      BY <1>0, <1>1, <2>2, <2>4, <3>2 DEF LastResultKept, HandlersOwnTheDriver
    <3>3. last.at <= pc => last.at <= pc'
      BY <1>0, <1>1, <2>4 DEF TypeOK, RunType
    <3>4. QED
      BY <1>1, <2>1, <3>1, <3>2, <3>3 DEF LastResultKept, LeftByLast
  <2>5. QED
    BY <2>3, <2>4
<1>2. CASE status' # "OK" \/ host' \in {"done", "undefined"} \/ gpu' \in {"finished", "faulted"}
  BY <1>2 DEF LastResultKept
<1>3. CASE (Alloc \/ Const) /\ status' = "OK"
  <2>1. PICK b \in Buffers, size \in Nat, v \in Values :
          Bind(Ops[1], b, size, v) /\ v \in PutBy(M.commands[pc + 1])
    BY <1>3, BindsHere
  <2>2. /\ UNCHANGED <<call, resultSlot, last, gpu>> /\ Continue /\ host = "fetch"
        /\ pc + 1 \in DOMAIN M.commands /\ Binds(pc + 1) /\ M.commands[pc + 1].ops[1] = Ops[1]
    BY <1>3, BindsHere
  <2>3. /\ Ops[1] \in Slots
        /\ \A t \in Slots \ {Ops[1]} :
             slots'[t] = slots[t] /\ (slots[t] # None => heap'[slots[t]] = heap[slots[t]])
    BY <1>0, <2>1, BindLeavesOthers
  <2>4. status = "OK" /\ gpu = "idle" /\ pc' = pc + 1
    BY <1>0, <2>2 DEF HandlersOwnTheDriver, Continue
  <2>5. ASSUME last # None
        PROVE  /\ last.at \in DOMAIN M'.commands /\ last.at <= pc'
               /\ resultSlot > 0 /\ resultSlot - 1 = LastDst'
               /\ LeftByLast(heap[SlotBuffer(resultSlot - 1)].value)'
    <3>1. /\ last.at \in DOMAIN M.commands /\ last.at <= pc
          /\ resultSlot > 0 /\ resultSlot - 1 = LastDst
          /\ LeftByLast(heap[SlotBuffer(resultSlot - 1)].value)
      BY <1>0, <2>2, <2>4, <2>5 DEF LastResultKept
    <3>2. IsBound(resultSlot - 1)
      BY <1>0, <2>2, <2>4, <3>1 DEF ResultStaysBound
    <3>3. /\ resultSlot - 1 \in Slots /\ slots[resultSlot - 1] # None
          /\ SlotBuffer(resultSlot - 1) = slots[resultSlot - 1]
      BY <3>2 DEF IsBound, SlotBuffer
    <3>4. last.at <= pc'
      BY <1>0, <2>4, <2>5, <3>1 DEF TypeOK, RunType
    <3>5. CASE Ops[1] = LastDst
      <4>1. /\ M' = M /\ LastDst' = LastDst
            /\ pc + 1 \in Rebinds' /\ \A j \in Rebinds' : j <= pc + 1
            /\ \A command : PutBy(command)' = PutBy(command)
        BY <1>0, <2>2, <2>4, <2>5, <3>1, <3>5, RebindsOneMore
      <4>2. SlotBuffer(resultSlot - 1)' = b
        <5>1. slots'[Ops[1]] = b
          BY <1>0, <2>1, <2>3 DEF Bind, TypeOK
        <5>2. QED
          BY <2>2, <3>1, <3>3, <3>5, <5>1 DEF SlotBuffer
      <4>3. heap'[b].value = v
        BY <1>0, <2>1 DEF Bind, ReleasedHeap, Holding, TypeOK
      <4>4. LeftByLast(heap[SlotBuffer(resultSlot - 1)].value)'
        BY <2>1, <4>1, <4>2, <4>3 DEF LeftByLast
      <4>5. QED
        BY <3>1, <3>4, <4>1, <4>4
    <3>6. CASE Ops[1] # LastDst
      <4>1. /\ M' = M /\ LastDst' = LastDst /\ Rebinds' = Rebinds
            /\ \A command : PutBy(command)' = PutBy(command)
        BY <1>0, <2>2, <2>4, <2>5, <3>6, RebindsStay
      <4>2. slots'[resultSlot - 1] = slots[resultSlot - 1]
            /\ heap'[slots[resultSlot - 1]] = heap[slots[resultSlot - 1]]
        BY <2>3, <3>1, <3>3, <3>6
      <4>3. SlotBuffer(resultSlot - 1)' = slots[resultSlot - 1]
        BY <2>2, <3>3, <4>2 DEF SlotBuffer
      <4>4. LeftByLast(heap[SlotBuffer(resultSlot - 1)].value)'
        BY <2>2, <3>1, <3>3, <4>1, <4>2, <4>3 DEF LeftByLast
      <4>5. QED
        BY <3>1, <3>4, <4>1, <4>4
    <3>7. QED
      BY <3>5, <3>6
  <2>6. QED
    BY <2>2, <2>5 DEF LastResultKept
<1>4. CASE RunReferenceKernel
  <2>1. PICK b \in Buffers, v \in Values :
          /\ b = slots[Dst] /\ heap' = [heap EXCEPT ![b].value = v] /\ last' = Ran(v)
    BY <1>4, KernelWrites
  <2>2. Dst \in Slots /\ UNCHANGED slots /\ resultSlot' = Dst + 1 /\ InProgram(call, pc)
    BY <1>4, KernelWrites DEF RunReferenceKernel
  <2>3. heap'[b].value = v
    BY <1>0, <2>1, <2>2, WriteOwned
  <2>4. resultSlot' > 0 /\ resultSlot' - 1 = Dst
    BY <2>2 DEF Slots
  <2>5. SlotBuffer(resultSlot - 1)' = slots[Dst]
    BY <2>2, <2>4 DEF SlotBuffer
  <2>6. /\ last'.at \in DOMAIN M'.commands /\ last'.at <= pc'
        /\ LastDst' = Dst /\ Rebinds' = {} /\ last'.value = v
    BY <1>0, <1>4, <2>1, <2>2, LastIsThis DEF RunReferenceKernel, Continue
  <2>7. QED
    BY <2>1, <2>3, <2>4, <2>5, <2>6 DEF LastResultKept, LeftByLast
<1>5. CASE Synchronize /\ gpu = "finished"
  <2>1. /\ resultSlot' = Dst + 1 /\ UNCHANGED <<call, slots, heap>> /\ pc' = pc + 1
        /\ last' = Ran(heap[SlotBuffer(Dst)].value)
    BY <1>5 DEF Synchronize, Continue
  <2>2. /\ InProgram(call, pc) /\ WellFormed /\ ArgsBound
        /\ Exe.kind \in KernelKinds /\ Len(Args) = Arity(Exe.kind)
    BY <1>0, <1>5 DEF HandlersOwnTheDriver, Launching, KernelFits, LoopsFit, Synchronize
  <2>3. Dst \in Slots /\ SlotBuffer(Dst) \in Buffers
    BY <1>0, <2>2, ResultsTyped
  <2>4. resultSlot' > 0 /\ resultSlot' - 1 = Dst
    BY <2>1, <2>3 DEF Slots
  <2>5. SlotBuffer(resultSlot - 1)' = SlotBuffer(Dst)
    BY <2>1, <2>4 DEF SlotBuffer
  <2>6. heap[SlotBuffer(Dst)].value \in Values
    BY <1>0, <2>3 DEF TypeOK, Buffer
  <2>7. /\ last'.at \in DOMAIN M'.commands /\ last'.at <= pc'
        /\ LastDst' = Dst /\ Rebinds' = {} /\ last'.value = heap[SlotBuffer(Dst)].value
    <3> DEFINE v == heap[SlotBuffer(Dst)].value
    <3>1. v \in Values /\ last' = Ran(v)
      BY <2>1, <2>6
    <3> HIDE DEF v
    <3>2. /\ last'.at \in DOMAIN M'.commands /\ last'.at <= pc'
          /\ LastDst' = Dst /\ Rebinds' = {} /\ last'.value = v
      BY <1>0, <2>1, <2>2, <3>1, LastIsThis
    <3>3. QED
      BY <3>2 DEF v
  <2>8. QED
    BY <2>1, <2>4, <2>5, <2>7 DEF LastResultKept, LeftByLast
<1>6. CASE StartFails \/ FetchFails \/ WrongOperandCount \/ ConstOutsideRodata
        \/ DispatchRejected \/ DescriptorRejected \/ LaunchRejected \/ PrintRejected
  BY <1>2, <1>6
  DEF StartFails, FetchFails, WrongOperandCount, ConstOutsideRodata, DispatchRejected,
      DescriptorRejected, LaunchRejected, PrintRejected, Fail
<1>7. CASE Synchronize /\ gpu # "finished"
  BY <1>2, <1>7 DEF Synchronize, Fail
<1>8. CASE KernelFinishes \/ KernelFaults \/ KernelOverruns \/ PrintOverruns \/ End
  BY <1>2, <1>8 DEF KernelFinishes, KernelFaults, KernelOverruns, PrintOverruns, End
<1>9. CASE Exit
  BY <1>2, <1>9 DEF Exit
<1>10. CASE Start
  <2>1. resultSlot' = resultSlot /\ last' = last /\ host = "start"
    BY <1>10 DEF Start, machine, effects
  <2>2. last = None
    BY <1>0, <2>1 DEF LastResultKept, ResultStaysBound, HandlersOwnTheDriver, IsBound, SlotBuffer
  <2>3. QED
    BY <2>1, <2>2 DEF LastResultKept
<1>11. CASE LoadImage \/ GetFunction \/ LaunchKernel \/ PrintMapped \/ PrintStage
        \/ PrintRead \/ UNCHANGED vars
  <2>1. UNCHANGED <<call, slots, heap, resultSlot, last>> /\ (gpu' = gpu \/ host = "launch")
    BY <1>11
    DEF LoadImage, GetFunction, LaunchKernel, PrintMapped, PrintStage, PrintRead,
        vars, machine, driver, effects
  <2>2. host \notin {"exit", "done", "undefined"} \/ UNCHANGED <<host, status>>
    BY <1>11
    DEF LoadImage, Dispatching, GetFunction, LaunchKernel, PrintMapped, PrintStage,
        PrintRead, AtCommand, vars
  <2>3. pc' = pc \/ (pc' = pc + 1 /\ ~Binds(pc + 1))
    <3>1. CASE pc' = pc
      BY <3>1
    <3>2. CASE pc' # pc
      <4>1. PrintMapped \/ PrintRead
        BY <1>11, <3>2 DEF LoadImage, GetFunction, LaunchKernel, PrintStage, Fail, vars
      <4>2. pc' = pc + 1
        BY <3>2, <4>1 DEF PrintMapped, PrintRead, Continue, Fail
      <4>3. Cmd.kind = "PRINT"
        BY <1>0, <4>1 DEF PrintMapped, PrintRead, AtCommand, HandlersOwnTheDriver
      <4>4. QED
        BY <4>2, <4>3 DEF Binds, Cmd, CommandAt, M
    <3>3. QED
      BY <3>1, <3>2
  <2>4. QED
    BY <1>1, <2>1, <2>2, <2>3
<1>12. QED
  BY <1>2, <1>3, <1>4, <1>5, <1>6, <1>7, <1>8, <1>9, <1>10, <1>11 DEF Next, HostStep, GpuStep

(* END copies from the recorded slot, which holds what was left there. *)
LEMMA CapturePreserved ==
  ASSUME IInv, [Next]_vars
  PROVE  CapturesLastDispatch'
<1>0. TypeOK /\ HandlersOwnTheDriver /\ LastResultKept /\ CapturesLastDispatch
  BY DEF IInv
<1>1. CASE UNCHANGED vars
  <2>1. UNCHANGED <<call, host, status, captured, last, pc>>
    BY <1>1 DEF vars, effects
  <2>2. ASSUME last # None
        PROVE  /\ M' = M /\ Rebinds' = Rebinds
               /\ \A command : PutBy(command)' = PutBy(command)
    BY <1>0, <2>1, <2>2, RebindsStay
  <2>3. QED
    BY <1>0, <2>1, <2>2 DEF CapturesLastDispatch, LeftByLast
<1>2. CASE End
  <2>1. host = "fetch" /\ status = "OK" /\ gpu = "idle"
    BY <1>0, <1>2 DEF End, AtCommand, HandlersOwnTheDriver
  <2>2. UNCHANGED <<call, last, resultSlot, pc>>
    BY <1>2 DEF End
  <2>3. ASSUME call.out > 0, last # None, status' = "OK"
        PROVE  LeftByLast(captured)'
    <3>1. resultSlot > 0 /\ LeftByLast(heap[SlotBuffer(resultSlot - 1)].value)
      BY <1>0, <2>1, <2>3 DEF LastResultKept
    <3>2. WantsResult
      BY <2>3, <3>1 DEF WantsResult
    <3>3. captured' = heap[SlotBuffer(resultSlot - 1)].value
      BY <1>2, <2>3, <3>2 DEF End
    <3>4. /\ M' = M /\ Rebinds' = Rebinds
          /\ \A command : PutBy(command)' = PutBy(command)
      BY <1>0, <2>2, <2>3, RebindsStay
    <3>5. QED
      BY <2>2, <3>1, <3>3, <3>4 DEF LeftByLast
  <2>4. QED
    BY <2>2, <2>3 DEF CapturesLastDispatch
<1>3. CASE StartFails \/ Exit
  <2>1. status' # "OK"
    BY <1>0, <1>3 DEF StartFails, Exit, HandlersOwnTheDriver
  <2>2. QED
    BY <2>1 DEF CapturesLastDispatch
<1>4. CASE host' # "done"
  BY <1>4 DEF CapturesLastDispatch
<1>5. CASE host = "done"
  BY <1>1, <1>5, ReturnedStays
<1>6. UNCHANGED vars \/ End \/ StartFails \/ Exit \/ host' # "done" \/ host = "done"
  BY DEF Next, HostStep, GpuStep, vars, Start, FetchFails, WrongOperandCount, Alloc,
      ConstOutsideRodata, Const, DispatchRejected, DescriptorRejected, RunReferenceKernel,
      LaunchRejected, LoadImage, GetFunction, LaunchKernel, Synchronize, PrintRejected,
      PrintMapped, PrintStage, PrintRead, PrintOverruns, KernelOverruns, KernelFinishes,
      KernelFaults, Continue, Fail, BindFails
<1>7. QED
  BY <1>1, <1>2, <1>3, <1>4, <1>5, <1>6

-----------------------------------------------------------------------------
(* The theorems.                                                             *)

THEOREM Invariance == Spec => []IInv
<1>1. Init => IInv
  BY InitTyped
<1>2. IInv /\ [Next]_vars => IInv'
  BY TypePreserved, HeapPreserved, HandlersPreserved, ResultSlotPreserved,
     PlacementPreserved, CaptureLastPreserved, LastResultPreserved, CapturePreserved
  DEF IInv
<1>3. QED
  BY <1>1, <1>2, PTL DEF Spec

(* For every module, number of slots and memory: every allocated buffer is in
   exactly one slot, and no slot keeps an address that was released. *)
THEOREM Ownership == Spec => []SlotsOwnTheHeap
<1>1. IInv => SlotsOwnTheHeap
  BY DEF IInv
<1>2. QED
  BY <1>1, Invariance, PTL

(* Every state of the machine is well typed. *)
THEOREM TypeCorrectness == Spec => []TypeOK
<1>1. IInv => TypeOK
  BY DEF IInv
<1>2. QED
  BY <1>1, Invariance, PTL

(* Whatever fails on the way, a call that returned holds no buffer, no staging
   memory and no CUDA module. *)
THEOREM NoLeak == Spec => []NothingLeaks
<1>1. ASSUME IInv, host = "done"
      PROVE  Free = Buffers /\ ~staging /\ ~cumodule
  <2>1. \A s \in Slots : slots[s] = None
    BY <1>1 DEF IInv, HandlersOwnTheDriver
  <2>2. \A b \in Buffers : ~heap[b].live
    BY <1>1, <2>1, BuffersAssumption DEF IInv, SlotsOwnTheHeap
  <2>3. QED
    BY <1>1, <2>2 DEF IInv, HandlersOwnTheDriver, Launching, Free
<1>2. IInv => NothingLeaks
  BY <1>1 DEF NothingLeaks
<1>3. QED
  BY <1>2, Invariance, PTL

(* The host cannot leave cuda_launch, unload the image or release a buffer the
   kernel uses while the kernel is on the GPU; and it launches with no more buffers
   than it has entries for. *)
THEOREM KernelsAreAwaited == Spec => []KernelIsAwaited
<1>1. ASSUME IInv, gpu # "idle"
      PROVE  /\ host = "synchronize" /\ cumodule
             /\ \A i \in DOMAIN Args : heap[SlotBuffer(Args[i])].live
             /\ Len(Args) <= MaxArgs
  <2>1. host = "synchronize" /\ cumodule /\ ArgsBound
    BY <1>1 DEF IInv, HandlersOwnTheDriver, Launching
  <2>2. \A i \in DOMAIN Args : heap[SlotBuffer(Args[i])].live
    BY <1>1, <2>1, BoundSlot DEF IInv, ArgsBound, IsBound, SlotsOwnTheHeap
  <2>3. Len(Args) <= MaxArgs
    BY <2>1 DEF ArgsBound
  <2>4. QED
    BY <2>1, <2>2, <2>3
<1>2. IInv => KernelIsAwaited
  BY <1>1 DEF KernelIsAwaited
<1>3. QED
  BY <1>2, Invariance, PTL

(* A kernel runs only on the device the compiler placed it on. *)
THEOREM PlacementsHonoured == Spec => []PlacementHonoured
<1>1. IInv => PlacementHonoured
  BY DEF IInv
<1>2. QED
  BY <1>1, Invariance, PTL

(* At END the slot to capture from is bound. *)
THEOREM ResultBound == Spec => []ResultStaysBound
<1>1. IInv => ResultStaysBound
  BY DEF IInv
<1>2. QED
  BY <1>1, Invariance, PTL

(* A successful capture delivers what the last dispatch wrote or, where its slot was
   bound again, what the last command to do so put there: for every list of commands. *)
THEOREM CaptureIsLast == Spec => []CapturesLastDispatch
<1>1. IInv => CapturesLastDispatch
  BY DEF IInv
<1>2. QED
  BY <1>1, Invariance, PTL

(* After the first error the call only releases what it holds. *)
THEOREM ErrorsAreFinal == Spec => FirstErrorIsFinal
<1>1. ASSUME IInv, [Next]_vars, status # "OK"
      PROVE  status' = status /\ UNCHANGED effects /\ gpu' = "idle" /\ Free \subseteq Free'
  <2>1. TypeOK /\ SlotsOwnTheHeap /\ HandlersOwnTheDriver /\ host \in {"exit", "done"} /\ gpu = "idle"
    BY <1>1 DEF IInv, HandlersOwnTheDriver
  <2>2. CASE Exit
    <3>1. \A b \in Buffers : ~heap'[b].live
      BY <2>1, <2>2, ReleaseAllOwned DEF Exit
    <3>2. QED
      BY <2>1, <2>2, <3>1 DEF Exit, driver, Free
  <2>3. CASE UNCHANGED vars
    BY <2>1, <2>3 DEF vars, machine, driver, effects, Free
  <2>4. Exit \/ UNCHANGED vars
    BY <1>1, <2>1
    DEF Next, HostStep, GpuStep, StartFails, Start, FetchFails, WrongOperandCount, Alloc,
        ConstOutsideRodata, Const, DispatchRejected, DescriptorRejected, RunReferenceKernel,
        RunsReference, LaunchRejected, LoadImage, Dispatching, GetFunction, LaunchKernel,
        Synchronize, PrintRejected, PrintMapped, PrintStage, PrintRead, End, AtCommand,
        PrintOverruns, KernelOverruns, KernelFinishes, KernelFaults
  <2>5. QED
    BY <2>2, <2>3, <2>4
<1>2. IInv /\ [Next]_vars =>
        [status # "OK" => /\ status' = status
                          /\ UNCHANGED effects /\ gpu' = "idle"
                          /\ Free \subseteq Free']_vars
  BY <1>1
<1>3. QED
  BY <1>2, Invariance, PTL DEF Spec, FirstErrorIsFinal

-----------------------------------------------------------------------------
(* The command list: Interpreter implements CommandList.  Every host step    *)
(* inside a handler, and every one after the first error, is a stutter; the  *)
(* step a command takes effect in is the one of the same name.               *)

(* Both modules read the program through the same operators. *)
LEMMA SameProgram ==
  /\ Replay!Slots = Slots /\ Replay!Calls = Calls
  /\ \A c, at : /\ Replay!InProgram(c, at) <=> InProgram(c, at)
                /\ Replay!CommandAt(c, at) = CommandAt(c, at)
  /\ \A c : Replay!SymbolIndices(c) = SymbolIndices(c) /\ Replay!EntryOffset(c) = EntryOffset(c)
  /\ \A c, size : Replay!FreshValues(c, size) = FreshValues(c, size)
  /\ \A c, ops : /\ Replay!WellFormedDispatch(c, ops) <=> WellFormedDispatch(c, ops)
                 /\ Replay!ExeOf(c, ops) = ExeOf(c, ops)
  /\ \A ops : Replay!InputsOf(ops) = InputsOf(ops) /\ Replay!DstOf(ops) = DstOf(ops)
  /\ \A kind, ops, inputs : Replay!ResultValues(kind, ops, inputs) = ResultValues(kind, ops, inputs)
  /\ \A kind : Replay!Arity(kind) = Arity(kind)
  /\ Replay!KernelKinds = KernelKinds
<1>1. Replay!Slots = Slots /\ Replay!Calls = Calls
  BY DEF Replay!Slots, Slots, Replay!Calls, Calls, Replay!Devices, Devices
<1>2. \A c, at : /\ Replay!InProgram(c, at) <=> InProgram(c, at)
                 /\ Replay!CommandAt(c, at) = CommandAt(c, at)
  BY DEF Replay!InProgram, InProgram, Replay!CommandAt, CommandAt, Replay!Truncated, Truncated
<1>3. \A c : Replay!SymbolIndices(c) = SymbolIndices(c)
  BY DEF Replay!SymbolIndices, SymbolIndices
<1>4. \A c : Replay!EntryOffset(c) = EntryOffset(c)
  BY <1>3 DEF Replay!EntryOffset, EntryOffset
<1>5. \A c, size : Replay!FreshValues(c, size) = FreshValues(c, size)
  BY DEF Replay!FreshValues, FreshValues
<1>6. \A c, ops : /\ Replay!WellFormedDispatch(c, ops) <=> WellFormedDispatch(c, ops)
                  /\ Replay!ExeOf(c, ops) = ExeOf(c, ops)
  BY DEF Replay!WellFormedDispatch, WellFormedDispatch, Replay!ExeOf, ExeOf, Replay!ExesOf, ExesOf
<1>7. \A ops : Replay!InputsOf(ops) = InputsOf(ops) /\ Replay!DstOf(ops) = DstOf(ops)
  BY DEF Replay!InputsOf, InputsOf, Replay!DstOf, DstOf
<1>8. \A kind, ops, inputs : Replay!ResultValues(kind, ops, inputs) = ResultValues(kind, ops, inputs)
  BY <1>7 DEF Replay!ResultValues, ResultValues
<1>9. (\A kind : Replay!Arity(kind) = Arity(kind)) /\ Replay!KernelKinds = KernelKinds
  BY DEF Replay!Arity, Arity, Replay!KernelKinds, KernelKinds
<1>10. QED
  BY <1>1, <1>2, <1>3, <1>4, <1>5, <1>6, <1>7, <1>8, <1>9

(* What the mapping makes of a state. *)
LEMMA Mapped ==
  ASSUME IInv
  PROVE  /\ Running => Phase = "running"
         /\ Failed => Phase = "failed"
         /\ host = "start" => Phase = "ready"
         /\ host = "done" /\ status = "OK" => Phase = "returned"
         /\ ~Running => Holds = Replay!Unbound
         /\ \A s \in Slots : Running /\ slots[s] # None => Holds[s] = heap[slots[s]].value
<1>1. host = "start" \/ (host = "done" /\ status = "OK") => ~Failed /\ ~Running
  BY DEF IInv, HandlersOwnTheDriver, Failed, Running
<1>2. ~Running => Holds = Replay!Unbound
  BY DEF Holds, Replay!Unbound, Replay!Slots, Slots
<1>3. \A s \in Slots : Running /\ slots[s] # None => Holds[s] = heap[slots[s]].value
  BY DEF Holds
<1>4. QED
  BY <1>1, <1>2, <1>3 DEF Phase, Running

(* Binding a slot changes what that slot holds. *)
LEMMA BindReplays ==
  ASSUME TypeOK, SlotsOwnTheHeap, Running, Running', NEW s, NEW b \in Buffers,
         NEW size \in Nat, NEW v \in Values, Bind(s, b, size, v)
  PROVE  s \in Slots /\ Holds' = [Holds EXCEPT ![s] = v]
<1>1. /\ s \in Slots /\ slots'[s] = b /\ heap'[b].value = v
      /\ \A t \in Slots \ {s} :
           slots'[t] = slots[t] /\ (slots[t] # None => heap'[slots[t]] = heap[slots[t]])
  BY BindLeavesOthers
<1>2. Holds' = [t \in Slots |-> IF slots'[t] # None THEN heap'[slots'[t]].value ELSE None]
  BY DEF Holds
<1>3. Holds = [t \in Slots |-> IF slots[t] # None THEN heap[slots[t]].value ELSE None]
  BY DEF Holds
<1>4. Holds'[s] = v
  BY <1>1, <1>2, BuffersAssumption
<1>5. \A t \in Slots \ {s} : Holds'[t] = Holds[t]
  BY <1>1, <1>2, <1>3
<1>6. QED
  BY <1>1, <1>2, <1>3, <1>4, <1>5

(* So does a kernel, of the slot it writes: no other slot shares the buffer. *)
LEMMA WriteReplays ==
  ASSUME TypeOK, SlotsOwnTheHeap, Running, Running', NEW s \in Slots, slots[s] \in Buffers,
         NEW v \in Values, heap' = [heap EXCEPT ![slots[s]].value = v], UNCHANGED slots
  PROVE  Holds' = [Holds EXCEPT ![s] = v]
<1>1. Holds' = [t \in Slots |-> IF slots[t] # None THEN heap'[slots[t]].value ELSE None]
  BY DEF Holds
<1>2. Holds = [t \in Slots |-> IF slots[t] # None THEN heap[slots[t]].value ELSE None]
  BY DEF Holds
<1>3. heap \in [Buffers -> Buffer] /\ slots \in [Slots -> Buffers \cup {None}]
  BY DEF TypeOK
<1>4. Holds'[s] = v
  <2>1. heap'[slots[s]].value = v
    BY <1>3 DEF Buffer
  <2>2. QED
    BY <1>1, <2>1, BuffersAssumption
<1>5. ASSUME NEW t \in Slots \ {s} PROVE Holds'[t] = Holds[t]
  <2>1. CASE slots[t] = None
    BY <1>1, <1>2, <2>1
  <2>2. CASE slots[t] # None
    <3>1. slots[t] \in Buffers /\ slots[t] # slots[s]
      BY <1>3, <2>2 DEF SlotsOwnTheHeap
    <3>2. heap'[slots[t]] = heap[slots[t]]
      BY <1>3, <3>1
    <3>3. Holds'[t] = heap'[slots[t]].value /\ Holds[t] = heap[slots[t]].value
      BY <1>1, <1>2, <2>2
    <3>4. QED
      BY <3>2, <3>3
  <2>3. QED
    BY <2>1, <2>2
<1>6. QED
  BY <1>1, <1>2, <1>4, <1>5

(* A step that leaves the loop with an error, or loses control, abandons the
   run. *)
LEMMA AbortReplays ==
  ASSUME IInv, host = "start" \/ Running, Failed',
         UNCHANGED <<call, output, captured, pc, resultSlot>>, gpu # "finished", gpu' # "finished"
  PROVE  Replay!Abort
<1>1. Phase \in {"ready", "running"}
  BY Mapped
<1>2. Phase' = "failed" /\ ~Running'
  BY DEF Phase, Running
<1>3. Holds' = Replay!Unbound
  BY <1>2 DEF Holds, Replay!Unbound, Replay!Slots, Slots
<1>4. Reached' = Reached /\ Recorded' = Recorded
  BY DEF Reached, Recorded
<1>5. QED
  BY <1>1, <1>2, <1>3, <1>4 DEF Replay!Abort

LEMMA InitReplays ==
  ASSUME Init
  PROVE  Replay!Init
<1>1. IInv
  BY InitTyped
<1>2. host = "start" /\ gpu = "idle" /\ pc = 0 /\ resultSlot = 0
  BY DEF Init, InitMachine
<1>3. Phase = "ready" /\ Holds = Replay!Unbound
  BY <1>1, <1>2, Mapped DEF Running
<1>4. Reached = 0 /\ Recorded = 0
  BY <1>2 DEF Reached, Recorded
<1>5. QED
  BY <1>3, <1>4, SameProgram DEF Init, InitMachine, Replay!Init

(* The commands that run to their end are the steps of the same name. *)
LEMMA CommandReplays ==
  ASSUME IInv, host = "fetch", InProgram(call, pc)
  PROVE  /\ Running /\ gpu = "idle" /\ Phase = "running" /\ Reached = pc /\ Recorded = resultSlot
         /\ Replay!Ops = Ops
         /\ \A kind : Replay!Doing(kind) <=> Cmd.kind = kind
<1>1. gpu = "idle" /\ status = "OK"
  BY DEF IInv, HandlersOwnTheDriver
<1>2. Running /\ Phase = "running"
  BY <1>1, Mapped DEF Running, Failed
<1>3. Reached = pc /\ Recorded = resultSlot
  BY <1>1 DEF Reached, Recorded
<1>4. Replay!Ops = Ops
  BY <1>3, SameProgram DEF Replay!Ops, Ops, Cmd
<1>5. \A kind : Replay!Doing(kind) <=> Cmd.kind = kind
  BY <1>2, <1>3, SameProgram DEF Replay!Doing, Cmd
<1>6. QED
  BY <1>1, <1>2, <1>3, <1>4, <1>5

(* A handler that continues with the next command moves one command on. *)
LEMMA ContinueReplays ==
  ASSUME IInv, host = "fetch", InProgram(call, pc), Continue, UNCHANGED <<call, captured>>,
         gpu' = "idle"
  PROVE  Running' /\ Replay!Step /\ Recorded' = resultSlot'
<1>1. Running'
  BY DEF Continue, Running, Failed
<1>2. Phase' = "running"
  BY <1>1 DEF Phase, Running
<1>3. Reached' = Reached + 1
  BY CommandReplays DEF Continue, Reached
<1>4. Recorded' = resultSlot'
  BY DEF Recorded
<1>5. QED
  BY <1>1, <1>2, <1>3, <1>4, CommandReplays DEF Replay!Step

LEMMA AllocReplays ==
  ASSUME IInv, Alloc, status' = "OK"
  PROVE  Replay!Alloc
<1>0. TypeOK /\ SlotsOwnTheHeap
  BY DEF IInv
<1>1. /\ host = "fetch" /\ InProgram(call, pc) /\ Cmd.kind = "ALLOC" /\ Len(Ops) = 2
      /\ UNCHANGED <<call, resultSlot, driver, effects>>
  BY DEF Alloc, AtCommand
<1>2. ~BindFails(Ops[1])
  BY DEF BindFails, Fail
<1>3. PICK b \in Buffers, v \in FreshValues(call, Ops[2]) : Bind(Ops[1], b, Ops[2], v) /\ Continue
  BY <1>2 DEF Alloc
<1>4. v \in Values /\ Ops[2] \in Nat
  BY <1>0, AllocTyped, ValuesAssumption DEF FreshValues
<1>5. gpu' = "idle" /\ UNCHANGED <<captured, output>>
  BY <1>1, CommandReplays DEF driver, effects
<1>6. Running /\ Running' /\ Replay!Step /\ Recorded' = Recorded
  BY <1>1, <1>3, <1>5, CommandReplays, ContinueReplays
<1>7. Ops[1] \in Slots /\ Holds' = [Holds EXCEPT ![Ops[1]] = v]
  BY <1>0, <1>3, <1>4, <1>6, BindReplays
<1>8. Replay!Ops = Ops /\ Replay!Doing("ALLOC")
  BY <1>1, CommandReplays
<1>9. QED
  BY <1>1, <1>3, <1>5, <1>6, <1>7, <1>8, SameProgram DEF Replay!Alloc

LEMMA ConstReplays ==
  ASSUME IInv, Const, status' = "OK"
  PROVE  Replay!Const
<1>0. TypeOK /\ SlotsOwnTheHeap
  BY DEF IInv
<1>1. /\ host = "fetch" /\ InProgram(call, pc) /\ Cmd.kind = "CONST" /\ Len(Ops) = 3
      /\ UNCHANGED <<call, resultSlot, driver, effects>>
  BY DEF Const, AtCommand
<1>2. ~BindFails(Ops[1])
  BY DEF BindFails, Fail
<1>3. PICK b \in Buffers :
        Bind(Ops[1], b, Ops[3], Literal(call.module, Ops[2], Ops[3])) /\ Continue
  BY <1>2 DEF Const, Fail
<1>4. Literal(call.module, Ops[2], Ops[3]) \in Values /\ Ops[3] \in Nat
  BY <1>0, ConstTyped
<1>5. gpu' = "idle" /\ UNCHANGED <<captured, output>>
  BY <1>1, CommandReplays DEF driver, effects
<1>6. Running /\ Running' /\ Replay!Step /\ Recorded' = Recorded
  BY <1>1, <1>3, <1>5, CommandReplays, ContinueReplays
<1>7. /\ Ops[1] \in Slots
      /\ Holds' = [Holds EXCEPT ![Ops[1]] = Literal(call.module, Ops[2], Ops[3])]
  BY <1>0, <1>3, <1>4, <1>6, BindReplays
<1>8. Replay!Ops = Ops /\ Replay!Doing("CONST")
  BY <1>1, CommandReplays
<1>9. Ops[2] + Ops[3] <= Sections(call.module).rodata
  <2>1. Ops[2] \in Nat /\ Ops[3] \in Nat /\ M.rodata \in Nat
    <3>1. M \in SectionsType
      BY <1>0, CallsAssumption DEF TypeOK, Calls, M
    <3>2. QED
      BY <1>0, <1>1, <3>1, ConstTyped DEF SectionsType
  <2>2. ~OutsideRodata(Ops[2], Ops[3])
    BY DEF Const
  <2>3. QED
    BY <2>1, <2>2 DEF OutsideRodata, M
<1>10. QED
  BY <1>1, <1>5, <1>6, <1>7, <1>8, <1>9, SameProgram DEF Replay!Const

LEMMA PrintReplays ==
  ASSUME IInv, host \in {"fetch", "print_read"}, InProgram(call, pc), Cmd.kind = "PRINT",
         Len(Ops) = 3, Printable, output' = Append(output, Printed), Continue,
         UNCHANGED <<call, machine, gpu, captured>>
  PROVE  Replay!PrintSlot
<1>0. TypeOK /\ gpu = "idle" /\ Running
  BY DEF IInv, HandlersOwnTheDriver, Running, Failed
<1>1. Running' /\ Phase = "running" /\ Phase' = "running"
  BY <1>0, Mapped DEF Continue, Running, Failed, Phase
<1>2. Reached = pc /\ Reached' = pc + 1 /\ Recorded' = Recorded
  BY <1>0 DEF Reached, Recorded, Continue, machine
<1>3. Holds' = Holds
  BY <1>0, <1>1 DEF Holds, machine
<1>4. Ops[1] \in Slots /\ slots[Ops[1]] \in Buffers /\ SlotBuffer(Ops[1]) = slots[Ops[1]]
  BY <1>0, BoundSlot DEF Printable
<1>5. Holds[Ops[1]] = heap[slots[Ops[1]]].value /\ heap[slots[Ops[1]]].value \in Values
  BY <1>0, <1>4, BuffersAssumption, Mapped DEF TypeOK, Buffer
<1>6. Printed = [slot |-> Ops[1], size |-> Ops[2] * Ops[3], value |-> Holds[Ops[1]]]
  BY <1>4, <1>5 DEF Printed, PrintSize
<1>7. Replay!Ops = Ops /\ Replay!Doing("PRINT")
  BY <1>1, <1>2, SameProgram DEF Replay!Ops, Replay!Doing, Ops, Cmd
<1>8. Replay!Step
  BY <1>1, <1>2 DEF Replay!Step
<1>9. Ops[1] \in Replay!Slots /\ Holds[Ops[1]] # None
  BY <1>4, <1>5, SameProgram, ValuesAssumption
<1>10. QED
  BY <1>2, <1>3, <1>6, <1>7, <1>8, <1>9 DEF Replay!PrintSlot

(* A kernel on either device: the reference kernel runs in one step of the
   host, the other takes effect when it is over on the GPU. *)
LEMMA DispatchReplays ==
  ASSUME IInv, RunReferenceKernel \/ KernelFinishes
  PROVE  Replay!Dispatch
<1>0. TypeOK /\ SlotsOwnTheHeap /\ HandlersOwnTheDriver
  BY DEF IInv
<1>1. /\ InProgram(call, pc) /\ WellFormed /\ Placed /\ ArgsBound /\ UNCHANGED <<call, slots>>
      /\ Dst \in Slots /\ SlotBuffer(Dst) = slots[Dst] /\ slots[Dst] \in Buffers
  BY KernelWrites
<1>2. KernelFits /\ Exe.kind \in KernelKinds /\ Len(Args) = Arity(Exe.kind)
  BY DEF RunReferenceKernel, KernelFinishes, KernelFits, LoopsFit
<1>3. PICK v \in Results : heap' = [heap EXCEPT ![SlotBuffer(Dst)].value = v]
  BY DEF RunReferenceKernel, KernelFinishes
<1>4. v \in Values
  BY <1>0, <1>1, <1>2, <1>3, ResultsTyped
<1>5. Cmd.kind = "DISPATCH"
  BY LaunchingTyped
  DEF RunReferenceKernel, RunsReference, Dispatching, AtCommand, KernelFinishes
<1>6. /\ Running /\ Running' /\ Phase = "running" /\ Phase' = "running"
      /\ Reached = pc /\ Reached' = pc + 1 /\ Recorded' = Dst + 1
      /\ UNCHANGED <<captured, output>>
  <2>1. CASE RunReferenceKernel
    <3>1. host = "fetch" /\ gpu = "idle" /\ status = "OK"
      BY <1>0, <2>1
      DEF RunReferenceKernel, RunsReference, Dispatching, AtCommand, HandlersOwnTheDriver
    <3>2. Continue /\ resultSlot' = Dst + 1 /\ gpu' = "idle" /\ UNCHANGED <<captured, output>>
      BY <2>1, <3>1 DEF RunReferenceKernel, driver
    <3>3. QED
      BY <3>1, <3>2 DEF Continue, Running, Failed, Phase, Reached, Recorded
  <2>2. CASE KernelFinishes
    <3>1. host = "synchronize" /\ gpu = "running" /\ status = "OK"
      BY <1>0, <2>2 DEF KernelFinishes, HandlersOwnTheDriver
    <3>2. gpu' = "finished" /\ UNCHANGED <<host, status, pc, captured, output>>
      BY <2>2 DEF KernelFinishes, effects
    <3>3. Dst' = Dst
      BY <1>1, <3>2, CheckedStaysTrue DEF Dst
    <3>4. QED
      BY <3>1, <3>2, <3>3 DEF Running, Failed, Phase, Reached, Recorded
  <2>3. QED
    BY <2>1, <2>2
<1>7. Holds' = [Holds EXCEPT ![Dst] = v]
  <2>1. heap' = [heap EXCEPT ![slots[Dst]].value = v] /\ UNCHANGED slots
    BY <1>1, <1>3
  <2>2. QED
    BY <1>0, <1>1, <1>4, <1>6, <2>1, WriteReplays
<1>8. Replay!Ops = Ops /\ Replay!Doing("DISPATCH")
  BY <1>1, <1>5, <1>6, SameProgram DEF Replay!Ops, Replay!Doing, Ops, Cmd
<1>9. /\ Args \in Seq(Nat) /\ Len(Args) = Len(Ops) - 2 /\ Ops \in Seq(Nat)
      /\ \A i \in DOMAIN Args : Args[i] = Ops[i + 2]
      /\ InputsOf(Ops) \in Seq(Nat) /\ Len(InputsOf(Ops)) = Len(Args) - 1
      /\ \A i \in DOMAIN InputsOf(Ops) : InputsOf(Ops)[i] = Args[i]
  <2>1. Args \in Seq(Nat) /\ Len(Args) > 0
    BY <1>0, <1>1, <1>2, ArgsTyped DEF Arity
  <2>2. QED
    BY <1>0, <1>1, <2>1, ArgsTyped, CommandTyped
<1>10. \A i \in DOMAIN Args :
         /\ Args[i] \in Slots /\ Holds[Args[i]] # None
         /\ Holds[Args[i]] = heap[SlotBuffer(Args[i])].value
  <2>1. SUFFICES ASSUME NEW i \in DOMAIN Args
                 PROVE  /\ Args[i] \in Slots /\ Holds[Args[i]] # None
                        /\ Holds[Args[i]] = heap[SlotBuffer(Args[i])].value
    OBVIOUS
  <2>2. IsBound(Args[i])
    BY <1>1 DEF ArgsBound
  <2>3. Args[i] \in Slots /\ SlotBuffer(Args[i]) = slots[Args[i]] /\ slots[Args[i]] \in Buffers
    BY <1>0, <2>2, BoundSlot
  <2>4. Holds[Args[i]] = heap[slots[Args[i]]].value
    BY <1>6, <2>3, BuffersAssumption, Mapped
  <2>5. heap[slots[Args[i]]].value \in Values
    BY <1>0, <2>3 DEF TypeOK, Buffer
  <2>6. QED
    BY <2>3, <2>4, <2>5, ValuesAssumption
<1>11. \A i \in 3 .. Len(Ops) : Ops[i] \in Slots /\ Holds[Ops[i]] # None
  <2>1. SUFFICES ASSUME NEW i \in 3 .. Len(Ops)
                 PROVE  Ops[i] \in Slots /\ Holds[Ops[i]] # None
    OBVIOUS
  <2>2. i - 2 \in DOMAIN Args /\ (i - 2) + 2 = i
    BY <1>9
  <2>3. Args[i - 2] = Ops[i]
    <3>1. \A k \in DOMAIN Args : Args[k] = Ops[k + 2]
      BY ONLY <1>9
    <3>2. Args[i - 2] = Ops[(i - 2) + 2]
      BY ONLY <2>2, <3>1
    <3>3. QED
      BY ONLY <2>2, <3>2
  <2>4. Args[i - 2] \in Slots /\ Holds[Args[i - 2]] # None
    BY ONLY <1>10, <2>2
  <2>5. QED
    BY ONLY <2>3, <2>4
<1>12. Len(Ops) = 2 + Arity(Exe.kind)
  <2>1. Len(Ops) \in Nat /\ Len(Ops) - 2 = Arity(Exe.kind)
    BY <1>2, <1>9
  <2>2. QED
    BY <2>1
<1>13. DEFINE inputs == InputsOf(Ops)
<1>14. [i \in DOMAIN inputs |-> Holds[inputs[i]]]
         = [i \in DOMAIN inputs |-> heap[SlotBuffer(inputs[i])].value]
  <2>1. \A i \in DOMAIN inputs : Holds[inputs[i]] = heap[SlotBuffer(inputs[i])].value
    <3>1. SUFFICES ASSUME NEW i \in DOMAIN inputs
                   PROVE  Holds[inputs[i]] = heap[SlotBuffer(inputs[i])].value
      OBVIOUS
    <3>2. i \in DOMAIN Args /\ inputs[i] = Args[i]
      BY SMTT(30), <1>9
    <3>3. QED
      BY <1>10, <3>2
  <2>2. QED
    BY <2>1
<1>15. v \in ResultValues(Exe.kind, Ops, [i \in DOMAIN inputs |-> Holds[inputs[i]]])
  BY <1>3, <1>14 DEF Results
<1>16. Replay!Step
  BY <1>1, <1>6 DEF Replay!Step
<1>17. /\ Replay!WellFormedDispatch(call, Ops) /\ Replay!ExeOf(call, Ops) = Exe
       /\ Exe.device = call.device
       /\ Replay!InputsOf(Ops) = inputs /\ Replay!DstOf(Ops) = Dst
  BY <1>1, SameProgram DEF WellFormed, Exe, Placed, Dst
<1>18. /\ Exe.kind \in Replay!KernelKinds /\ Len(Ops) = 2 + Replay!Arity(Exe.kind)
       /\ \A i \in 3 .. Len(Ops) : Ops[i] \in Replay!Slots /\ Holds[Ops[i]] # None
  BY <1>2, <1>11, <1>12, SameProgram
<1>19. v \in Replay!ResultValues(Exe.kind, Ops, [i \in DOMAIN inputs |-> Holds[inputs[i]]])
  BY <1>15, SameProgram
<1>20. QED
  BY <1>1, <1>6, <1>7, <1>8, <1>16, <1>17, <1>18, <1>19 DEF Replay!Dispatch

(* END returns what the recorded slot holds, or abandons the run. *)
LEMMA EndReplays ==
  ASSUME IInv, End
  PROVE  Replay!End \/ Replay!Abort
<1>0. TypeOK /\ ResultStaysBound /\ CaptureComesLast
  BY DEF IInv
<1>1. /\ host = "fetch" /\ InProgram(call, pc) /\ Cmd.kind = "END"
      /\ host' = "done" /\ UNCHANGED <<call, pc, resultSlot, driver, output, last>>
  BY DEF End, AtCommand
<1>2. /\ Running /\ gpu = "idle" /\ gpu' = "idle" /\ Phase = "running" /\ Replay!Doing("END")
      /\ Reached = pc /\ Recorded = resultSlot
  BY <1>1, CommandReplays DEF driver
<1>3. status = "OK" /\ captured = None
  BY <1>0, <1>1, <1>2 DEF CaptureComesLast, Running, Failed
<1>4. CASE status' # "OK"
  <2>1. UNCHANGED captured
    BY <1>3, <1>4 DEF End
  <2>2. Failed'
    BY <1>4 DEF Failed
  <2>3. QED
    BY <1>1, <1>2, <2>1, <2>2, AbortReplays
<1>5. CASE status' = "OK"
  <2>1. Phase' = "returned" /\ ~Running'
    BY <1>1, <1>2, <1>5 DEF Phase, Failed, Running
  <2>2. Holds' = Replay!Unbound
    BY <2>1 DEF Holds, Replay!Unbound, Replay!Slots, Slots
  <2>3. Reached' = Reached /\ Recorded' = Recorded
    BY <1>1, <1>2 DEF Reached, Recorded
  <2>4. captured' = IF call.out > 0 /\ resultSlot > 0 THEN Holds[resultSlot - 1] ELSE None
    <3>1. CASE WantsResult
      <4>1. captured' = heap[SlotBuffer(resultSlot - 1)].value /\ Capturable
        BY <1>3, <1>5, <3>1 DEF End
      <4>2. /\ resultSlot - 1 \in Slots /\ slots[resultSlot - 1] \in Buffers
            /\ SlotBuffer(resultSlot - 1) = slots[resultSlot - 1]
        BY <1>0, <4>1, BoundSlot DEF Capturable
      <4>3. Holds[resultSlot - 1] = heap[slots[resultSlot - 1]].value
        BY <1>2, <4>2, BuffersAssumption, Mapped
      <4>4. QED
        BY <3>1, <4>1, <4>2, <4>3 DEF WantsResult
    <3>2. CASE ~WantsResult
      BY <1>3, <3>2 DEF End, WantsResult
    <3>3. QED
      BY <3>1, <3>2
  <2>5. QED
    BY <1>1, <1>2, <2>1, <2>2, <2>3, <2>4 DEF Replay!End
<1>6. QED
  BY <1>4, <1>5

LEMMA BeginReplays ==
  ASSUME IInv, Start
  PROVE  Replay!Begin
<1>0. HandlersOwnTheDriver
  BY DEF IInv
<1>1. /\ host = "start" /\ host' = "fetch" /\ SymbolIndices(call) # {} /\ pc' = EntryOffset(call)
      /\ UNCHANGED <<call, status, slots, resultSlot, gpu, output, captured>>
  BY DEF Start, machine, driver, effects
<1>2. status = "OK" /\ gpu = "idle" /\ \A s \in Slots : slots[s] = None
  BY <1>0, <1>1 DEF HandlersOwnTheDriver
<1>3. Phase = "ready" /\ Phase' = "running"
  BY <1>1, <1>2 DEF Phase, Failed, Running
<1>4. Holds' = Holds
  BY <1>1, <1>2 DEF Holds
<1>5. Reached' = pc' /\ Recorded' = Recorded
  BY <1>1, <1>2 DEF Reached, Recorded
<1>6. QED
  BY <1>1, <1>3, <1>4, <1>5, SameProgram DEF Replay!Begin

(* A step inside a handler is no step of the list. *)
LEMMA HandlerStutters ==
  ASSUME Running, Running', UNCHANGED <<call, slots, heap, output, captured>>,
         Reached' = Reached, Recorded' = Recorded
  PROVE  UNCHANGED Replay!vars
<1>1. Phase' = Phase
  BY DEF Phase, Running
<1>2. Holds' = Holds
  BY DEF Holds
<1>3. QED
  BY <1>1, <1>2 DEF Replay!vars

(* Nor is one after the run was abandoned. *)
LEMMA FailedStutters ==
  ASSUME Failed, Failed', UNCHANGED <<call, output, captured, pc, resultSlot>>,
         gpu # "finished", gpu' # "finished"
  PROVE  UNCHANGED Replay!vars
<1>1. Phase' = Phase
  BY DEF Phase
<1>2. Holds' = Holds
  BY DEF Holds, Running
<1>3. Reached' = Reached /\ Recorded' = Recorded
  BY DEF Reached, Recorded
<1>4. QED
  BY <1>1, <1>2, <1>3 DEF Replay!vars

LEMMA StepReplays ==
  ASSUME IInv, [Next]_vars
  PROVE  [Replay!Next]_Replay!vars
<1> USE DEF machine, driver, effects
<1>0. HandlersOwnTheDriver
  BY DEF IInv
<1>1. ASSUME host = "start" \/ Running, Failed',
             UNCHANGED <<call, output, captured, pc, resultSlot>>,
             gpu # "finished", gpu' # "finished"
      PROVE  Replay!Next
  BY <1>1, AbortReplays DEF Replay!Next
<1>2. CASE StartFails
  <2>1. /\ host = "start" /\ gpu = "idle" /\ Failed'
        /\ UNCHANGED <<call, output, captured, pc, resultSlot, gpu>>
    BY <1>0, <1>2 DEF StartFails, HandlersOwnTheDriver, Failed
  <2>2. QED
    BY <1>1, <2>1
<1>3. CASE Start
  BY <1>3, BeginReplays DEF Replay!Next
<1>4. ASSUME host \in {"fetch", "print_read", "get_function", "launch"},
             UNCHANGED <<call, output, captured, resultSlot, gpu>>,
             \E s \in Errors : Fail(s)
      PROVE  Replay!Next
  <2>1. gpu = "idle" /\ Running
    BY <1>0, <1>4 DEF HandlersOwnTheDriver, Running, Failed
  <2>2. Failed' /\ UNCHANGED pc
    BY <1>4 DEF Fail, Failed, Errors
  <2>3. QED
    BY <1>1, <1>4, <2>1, <2>2
<1>5. CASE FetchFails \/ WrongOperandCount \/ ConstOutsideRodata \/ DispatchRejected
        \/ DescriptorRejected \/ LaunchRejected \/ PrintRejected
  <2>1. host = "fetch" /\ UNCHANGED <<call, output, captured, resultSlot, gpu>>
    BY <1>5
    DEF FetchFails, WrongOperandCount, ConstOutsideRodata, DispatchRejected,
        DescriptorRejected, LaunchRejected, PrintRejected, AtCommand, Dispatching
  <2>2. \E s \in Errors : Fail(s)
    BY <1>5
    DEF FetchFails, WrongOperandCount, ConstOutsideRodata, DispatchRejected,
        DescriptorRejected, LaunchRejected, PrintRejected, Errors
  <2>3. QED
    BY <1>4, <2>1, <2>2
<1>6. CASE Alloc \/ Const
  <2>1. CASE status' = "OK"
    BY <1>6, <2>1, AllocReplays, ConstReplays DEF Replay!Next
  <2>2. CASE status' # "OK"
    <3>1. host = "fetch" /\ UNCHANGED <<call, output, captured, resultSlot, gpu>>
      BY <1>6 DEF Alloc, Const, AtCommand
    <3>2. \E s \in Errors : Fail(s)
      BY <1>6, <2>2 DEF Alloc, Const, BindFails, Continue, Errors
    <3>3. QED
      BY <1>4, <3>1, <3>2
  <2>3. QED
    BY <2>1, <2>2
<1>7. CASE RunReferenceKernel \/ KernelFinishes
  BY <1>7, DispatchReplays DEF Replay!Next
<1>8. CASE LoadImage \/ GetFunction \/ LaunchKernel
  <2>1. CASE host' \in {"get_function", "launch", "synchronize"}
    <3>1. /\ UNCHANGED <<call, slots, heap, output, captured, pc, resultSlot, status>>
          /\ host \in {"fetch", "get_function", "launch"}
          /\ gpu' \in {gpu, "running"}
      BY <1>8, <2>1
      DEF LoadImage, GetFunction, LaunchKernel, Dispatching, AtCommand, Fail
    <3>2. gpu = "idle" /\ status = "OK"
      BY <1>0, <3>1 DEF HandlersOwnTheDriver
    <3>3. Running /\ Running' /\ Reached' = Reached /\ Recorded' = Recorded
      BY <2>1, <3>1, <3>2 DEF Running, Failed, Reached, Recorded
    <3>4. QED
      BY <3>1, <3>3, HandlerStutters
  <2>2. CASE host' \notin {"get_function", "launch", "synchronize"}
    <3>1. /\ host \in {"get_function", "launch"} /\ \E s \in Errors : Fail(s)
          /\ UNCHANGED <<call, output, captured, resultSlot, gpu>>
      BY <1>8, <2>2 DEF LoadImage, GetFunction, LaunchKernel, Errors
    <3>2. QED
      BY <1>4, <3>1
  <2>3. QED
    BY <2>1, <2>2
<1>9. CASE Synchronize
  <2>0. host = "synchronize" /\ status = "OK"
    BY <1>0, <1>9 DEF Synchronize, HandlersOwnTheDriver
  <2>1. CASE gpu = "finished"
    <3>1. /\ Continue /\ gpu' = "idle" /\ resultSlot' = Dst + 1
          /\ UNCHANGED <<call, slots, heap, output, captured>>
      BY <1>9, <2>1 DEF Synchronize
    <3>2. Running /\ Running' /\ Reached' = Reached /\ Recorded' = Recorded
      BY <2>0, <2>1, <3>1 DEF Continue, Running, Failed, Reached, Recorded
    <3>3. QED
      BY <3>1, <3>2, HandlerStutters
  <2>2. CASE gpu = "faulted"
    <3>1. /\ Failed /\ Failed' /\ gpu' = "idle"
          /\ UNCHANGED <<call, output, captured, pc, resultSlot>>
      BY <1>9, <2>2 DEF Synchronize, Fail, Failed
    <3>2. QED
      BY <2>2, <3>1, FailedStutters
  <2>3. QED
    BY <1>9, <2>1, <2>2 DEF Synchronize
<1>10. CASE KernelFaults
  <2>1. /\ gpu = "running" /\ gpu' = "faulted" /\ host = "synchronize" /\ Running /\ Failed'
        /\ UNCHANGED <<call, output, captured, pc, resultSlot>>
    BY <1>0, <1>10 DEF KernelFaults, HandlersOwnTheDriver, Running, Failed
  <2>2. QED
    BY <1>1, <2>1
<1>11. CASE KernelOverruns \/ PrintOverruns
  <2>1. /\ host' = "undefined" /\ gpu' # "finished"
        /\ host \in {"fetch", "synchronize", "print_read"} /\ gpu \in {"idle", "running"}
        /\ UNCHANGED <<call, output, captured, pc, resultSlot>>
    <3>1. CASE KernelOverruns
      <4>1. host = "fetch" \/ gpu = "running"
        BY <3>1 DEF KernelOverruns, RunsReference, Dispatching, AtCommand
      <4>2. QED
        BY <1>0, <3>1, <4>1 DEF KernelOverruns, HandlersOwnTheDriver
    <3>2. CASE PrintOverruns
      <4>1. host \in {"fetch", "print_read"}
        BY <3>2 DEF PrintOverruns, AtCommand
      <4>2. QED
        BY <1>0, <3>2, <4>1 DEF PrintOverruns, HandlersOwnTheDriver
    <3>3. QED
      BY <1>11, <3>1, <3>2
  <2>2. Running /\ Failed'
    BY <1>0, <2>1 DEF HandlersOwnTheDriver, Running, Failed
  <2>3. QED
    BY <1>1, <2>1, <2>2
<1>12. CASE PrintMapped
  <2>1. /\ host = "fetch" /\ InProgram(call, pc) /\ Cmd.kind = "PRINT" /\ Len(Ops) = 3 /\ Printable
        /\ output' = Append(output, Printed) /\ Continue /\ UNCHANGED <<call, machine, gpu, captured>>
    BY <1>12 DEF PrintMapped, AtCommand
  <2>2. QED
    BY <2>1, PrintReplays DEF Replay!Next
<1>13. CASE PrintRead
  <2>1. CASE Continue
    <3>1. /\ host = "print_read" /\ InProgram(call, pc) /\ Cmd.kind = "PRINT" /\ Len(Ops) = 3
          /\ Printable /\ UNCHANGED <<call, machine, gpu, captured>>
      BY <1>0, <1>13 DEF PrintRead, HandlersOwnTheDriver
    <3>2. output' = Append(output, Printed)
      BY <1>13, <2>1 DEF PrintRead, Continue, Fail
    <3>3. QED
      BY <2>1, <3>1, <3>2, PrintReplays DEF Replay!Next
  <2>2. CASE ~Continue
    <3>1. /\ host = "print_read" /\ \E s \in Errors : Fail(s)
          /\ UNCHANGED <<call, output, captured, resultSlot, gpu>>
      BY <1>13, <2>2 DEF PrintRead, Errors
    <3>2. QED
      BY <1>4, <3>1
  <2>3. QED
    BY <2>1, <2>2
<1>14. CASE PrintStage
  <2>0. host = "fetch" /\ UNCHANGED <<call, slots, heap, output, captured, resultSlot, gpu>>
    BY <1>14 DEF PrintStage, AtCommand
  <2>1. CASE host' = "print_read" /\ UNCHANGED <<status, pc>>
    <3>1. Running /\ Running' /\ Reached' = Reached /\ Recorded' = Recorded
      BY <1>0, <2>0, <2>1 DEF HandlersOwnTheDriver, Running, Failed, Reached, Recorded
    <3>2. QED
      BY <2>0, <3>1, HandlerStutters
  <2>2. CASE Fail("OUT_OF_MEMORY")
    BY <1>4, <2>0, <2>2 DEF Errors
  <2>3. QED
    BY <1>14, <2>1, <2>2 DEF PrintStage
<1>15. CASE End
  BY <1>15, EndReplays DEF Replay!Next
<1>16. CASE Exit
  <2>1. /\ Failed /\ Failed' /\ gpu = "idle" /\ gpu' = "idle"
        /\ UNCHANGED <<call, output, captured, pc, resultSlot>>
    BY <1>0, <1>16 DEF Exit, HandlersOwnTheDriver, Failed
  <2>2. QED
    BY <2>1, FailedStutters
<1>17. CASE UNCHANGED vars
  <2>1. UNCHANGED <<call, host, status, pc, slots, heap, resultSlot, gpu, output, captured>>
    BY <1>17 DEF vars
  <2>2. UNCHANGED Dst
    BY <2>1, CheckedStaysTrue DEF Dst
  <2>3. UNCHANGED <<Phase, Reached, Holds, Recorded>>
    BY <2>1, <2>2 DEF Phase, Failed, Running, Reached, Holds, Recorded
  <2>4. QED
    BY <2>1, <2>3 DEF Replay!vars
<1>18. QED
  BY <1>2, <1>3, <1>5, <1>6, <1>7, <1>8, <1>9, <1>10, <1>11, <1>12, <1>13, <1>14, <1>15,
     <1>16, <1>17
  DEF Next, HostStep, GpuStep

(* For every module, number of slots, memory and device, whatever fails and
   however the GPU is scheduled: what is printed and captured is what replaying
   the commands one after the other gives. *)
THEOREM Refinement == Spec => ImplementsCommandList
<1>1. Init => Replay!Init
  BY InitReplays
<1>2. IInv /\ [Next]_vars => [Replay!Next]_Replay!vars
  BY StepReplays
<1>3. QED
  BY <1>1, <1>2, Invariance, PTL DEF Spec, ImplementsCommandList, Replay!Spec

-----------------------------------------------------------------------------
(* The graph of a module, and the prim func of each of its ops. *)

(* The graph a module was compiled from. *)
LEMMA GraphIs ==
  ASSUME NEW m \in Modules, NEW g, g = m.graph
  PROVE  /\ DOMAIN g = 1 .. Len(g) /\ Len(g) \in Nat
         /\ \A f \in DOMAIN g :
              /\ g[f].body \in Seq(GraphOpType) /\ g[f].name \in STRING
              /\ DOMAIN g[f].body = 1 .. Len(g[f].body) /\ Len(g[f].body) \in Nat
         /\ WellFormedGraph(g) /\ Serializable(LoweredOf(m)) /\ Sections(m) = SectionsFor(m)
<1>1. /\ g \in GraphType /\ WellFormedGraph(g)
      /\ Serializable(LoweredOf(m)) /\ Sections(m) = SectionsFor(m)
  BY CompiledAssumption
<1>2. DOMAIN g = 1 .. Len(g) /\ Len(g) \in Nat
  BY <1>1 DEF GraphType
<1>3. ASSUME NEW f \in DOMAIN g
      PROVE  /\ g[f].body \in Seq(GraphOpType) /\ g[f].name \in STRING
             /\ DOMAIN g[f].body = 1 .. Len(g[f].body) /\ Len(g[f].body) \in Nat
  <2>0. PICK FunctionOf : FunctionOf = [kind : {"func.func", "hexir.func"}, name : STRING, body : Seq(GraphOpType)]
    OBVIOUS
  <2>a. g \in Seq(FunctionOf)
    BY <1>1, <2>0 DEF GraphType
  <2>b. g[f] \in FunctionOf
    BY <1>3, <2>a
  <2>1. g[f].body \in Seq(GraphOpType) /\ g[f].name \in STRING
    BY ONLY <2>0, <2>b
  <2>2. PICK b \in Seq(GraphOpType) : b = g[f].body
    BY <2>1
  <2>3. DOMAIN b = 1 .. Len(b) /\ Len(b) \in Nat
    OBVIOUS
  <2>4. QED
    BY <2>1, <2>2, <2>3
<1>4. QED
  BY <1>1, <1>2, <1>3

(* The functions the serializer walks are functions of the graph. *)
LEMMA WalkedTyped ==
  ASSUME NEW g, NEW n \in Nat, DOMAIN g = 1 .. n
  PROVE  /\ Walked(g) \in Seq(DOMAIN g) /\ Len(Walked(g)) \in Nat
         /\ DOMAIN Walked(g) = 1 .. Len(Walked(g))
         /\ \A w \in DOMAIN Walked(g) : Walked(g)[w] \in DOMAIN g
<1> DEFINE T == DOMAIN g
           seqs == [f \in DOMAIN g |-> IF g[f].kind = "func.func" THEN <<f>> ELSE <<>>]
<1>1. seqs \in Seq(Seq(T))
  <2>1. ASSUME NEW f \in 1 .. n PROVE seqs[f] \in Seq(T)
    <3>1. f \in T /\ seqs[f] = IF g[f].kind = "func.func" THEN <<f>> ELSE <<>>
      OBVIOUS
    <3> HIDE DEF seqs, T
    <3>2. <<f>> \in Seq(T) /\ <<>> \in Seq(T)
      BY <3>1
    <3>3. QED
      BY ONLY <3>1, <3>2
  <2>2. DOMAIN seqs = 1 .. n /\ seqs = [f \in 1 .. n |-> seqs[f]]
    OBVIOUS
  <2> HIDE DEF seqs, T
  <2>3. QED
    BY <2>1, <2>2
<1>2. Walked(g) = FlattenSeq(seqs)
  BY DEF Walked
<1> HIDE DEF seqs, T
<1>3. FlattenSeq(seqs) \in Seq(T)
  BY <1>1, FlattenPlaces
<1>4. PICK q \in Seq(T) : q = Walked(g)
  BY <1>2, <1>3
<1>5. Len(q) \in Nat /\ DOMAIN q = 1 .. Len(q) /\ \A w \in DOMAIN q : q[w] \in T
  OBVIOUS
<1>6. QED
  BY <1>4, <1>5 DEF T

(* The positions of a graph. *)
LEMMA GraphPosition ==
  ASSUME NEW m \in Modules, NEW g, g = m.graph
  PROVE  /\ IsFiniteSet(Positions(g))
         /\ \A v \in Positions(g) :
              /\ v = <<v[1], v[2]>> /\ v[1] \in DOMAIN g /\ v[1] \in Nat
              /\ v[2] \in DOMAIN g[v[1]].body /\ v[2] \in Nat \ {0}
              /\ OpAt(g, v) \in GraphOpType /\ OpAt(g, v) = g[v[1]].body[v[2]]
         /\ \A f \in DOMAIN g : \A i \in DOMAIN g[f].body : <<f, i>> \in Positions(g)
         /\ Compute(g) \in SUBSET Positions(g)
<1>1. /\ DOMAIN g = 1 .. Len(g) /\ Len(g) \in Nat
      /\ \A f \in DOMAIN g : /\ g[f].body \in Seq(GraphOpType)
                             /\ DOMAIN g[f].body = 1 .. Len(g[f].body) /\ Len(g[f].body) \in Nat
  BY GraphIs
<1>2. IsFiniteSet(Positions(g))
  <2>1. IsFiniteSet(DOMAIN g)
    BY <1>1, FS_Interval
  <2>2. ASSUME NEW f \in DOMAIN g PROVE IsFiniteSet(DOMAIN g[f].body)
    <3>1. IsFiniteSet(1 .. Len(g[f].body))
      <4>1. PICK l \in Nat : l = Len(g[f].body)
        BY <1>1
      <4>2. IsFiniteSet(1 .. l)
        BY FS_Interval
      <4>3. QED
        BY ONLY <4>1, <4>2
    <3>2. QED
      BY <1>1, <3>1
  <2>3. QED
    BY <2>1, <2>2, PositionsFinite
<1>3. ASSUME NEW v \in Positions(g)
      PROVE  /\ v = <<v[1], v[2]>> /\ v[1] \in DOMAIN g /\ v[1] \in Nat
             /\ v[2] \in DOMAIN g[v[1]].body /\ v[2] \in Nat \ {0}
             /\ OpAt(g, v) \in GraphOpType /\ OpAt(g, v) = g[v[1]].body[v[2]]
  <2>1. PICK f \in DOMAIN g : v \in {f} \X DOMAIN g[f].body
    BY DEF Positions
  <2>2. v = <<v[1], v[2]>> /\ v[1] = f /\ v[2] \in DOMAIN g[f].body
    BY <2>1
  <2>3. PICK b \in Seq(GraphOpType) : b = g[f].body
    BY <1>1
  <2>4. v[2] \in Nat \ {0} /\ b[v[2]] \in GraphOpType
    BY <2>2, <2>3
  <2>5. QED
    BY <1>1, <2>1, <2>2, <2>3, <2>4 DEF OpAt
<1>4. \A f \in DOMAIN g : \A i \in DOMAIN g[f].body : <<f, i>> \in Positions(g)
  BY DEF Positions
<1>5. Compute(g) \in SUBSET Positions(g)
  BY DEF Compute
<1>6. QED
  BY <1>2, <1>3, <1>4, <1>5

(* Members of a finite set of positions are numbered without gaps or repetitions. *)
LEMMA PrimIndexIs ==
  ASSUME NEW m \in Modules, NEW g, g = m.graph, NEW v \in Compute(g)
  PROVE  /\ PrimIndex(g, v) \in 1 .. Cardinality(Compute(g))
         /\ \A u \in Compute(g) : PrimIndex(g, u) = PrimIndex(g, v) => u = v
<1> DEFINE C == Compute(g)
           Upto(u) == {x \in C : ~Before(u, x)}
<1>1. IsFiniteSet(C) /\ Cardinality(C) \in Nat
  BY GraphPosition, FS_Subset, FS_CardinalityType
<1>2. \A u \in C : u = <<u[1], u[2]>> /\ u[1] \in Nat /\ u[2] \in Nat
  BY GraphPosition
<1>3. ASSUME NEW u \in C
      PROVE  /\ PrimIndex(g, u) = Cardinality(Upto(u)) /\ IsFiniteSet(Upto(u))
             /\ Cardinality(Upto(u)) \in Nat /\ u \in Upto(u) /\ Upto(u) \subseteq C
  <2>1. PrimIndex(g, u) = Cardinality(Upto(u)) /\ Upto(u) \in SUBSET C
    BY DEF PrimIndex
  <2>2. u \in Upto(u)
    BY <1>2 DEF Before
  <2> HIDE DEF C, Upto
  <2>3. QED
    BY <1>1, <2>1, <2>2, FS_Subset, FS_CardinalityType
<1>4. PrimIndex(g, v) \in 1 .. Cardinality(C)
  <2>1. Cardinality(Upto(v)) <= Cardinality(C)
    <3>1. PICK U : U = Upto(v) /\ U \in SUBSET C
      BY <1>3
    <3> HIDE DEF C, Upto
    <3>2. Cardinality(U) <= Cardinality(C)
      BY <1>1, <3>1, FS_Subset
    <3>3. QED
      BY ONLY <3>1, <3>2
  <2>2. Cardinality(Upto(v)) # 0
    <3>1. PICK U : U = Upto(v) /\ U # {} /\ IsFiniteSet(U)
      BY <1>3
    <3> HIDE DEF C, Upto
    <3>2. Cardinality(U) # 0
      BY <3>1, FS_EmptySet
    <3>3. QED
      BY ONLY <3>1, <3>2
  <2>3. QED
    BY <1>1, <1>3, <2>1, <2>2
<1>5. ASSUME NEW a \in C, NEW b \in C, Before(a, b) PROVE PrimIndex(g, a) < PrimIndex(g, b)
  <2>1. Upto(a) \subseteq Upto(b) /\ b \in Upto(b) /\ b \notin Upto(a)
    BY <1>2, <1>5 DEF Before
  <2> HIDE DEF C, Upto
  <2>2. Cardinality(Upto(a)) < Cardinality(Upto(b))
    <3>1. PICK U, V : U = Upto(a) /\ V = Upto(b)
      OBVIOUS
    <3>2. IsFiniteSet(V) /\ U \in SUBSET V /\ U # V /\ Cardinality(U) \in Nat /\ Cardinality(V) \in Nat
      BY <1>3, <2>1, <3>1
    <3>3. Cardinality(U) <= Cardinality(V) /\ Cardinality(U) # Cardinality(V)
      BY ONLY <3>2, FS_Subset
    <3>4. QED
      BY ONLY <3>1, <3>2, <3>3
  <2>3. QED
    BY <1>3, <2>2
<1>6. ASSUME NEW u \in C, u # v PROVE Before(u, v) \/ Before(v, u)
  BY <1>2, <1>6 DEF Before
<1>7. \A u \in C : PrimIndex(g, u) \in Nat
  BY <1>3
<1>8. \A u \in C : PrimIndex(g, u) = PrimIndex(g, v) => u = v
  <2>1. ASSUME NEW u \in C, u # v PROVE PrimIndex(g, u) # PrimIndex(g, v)
    <3>1. v \in C
      OBVIOUS
    <3> HIDE DEF C, Upto
    <3>2. PrimIndex(g, u) \in Nat /\ PrimIndex(g, v) \in Nat
      BY <1>7, <3>1
    <3>3. PrimIndex(g, u) < PrimIndex(g, v) \/ PrimIndex(g, v) < PrimIndex(g, u)
      BY <1>5, <1>6, <2>1, <3>1
    <3>4. QED
      BY <3>2, <3>3
  <2>2. QED
    BY <2>1
<1>9. QED
  BY <1>4, <1>8

(* Where an op is placed: on a device the driver knows. *)
LEMMA PlacementTyped ==
  ASSUME NEW operation \in GraphOpType
  PROVE  /\ Placement(Options, operation) \in Devices \cup {"gpu"}
         /\ operation.device # "gpu" => Placement(Options, operation) \in Devices
<1> DEFINE S == {i \in DOMAIN Options.placements : Options.placements[i].op = operation.op}
           d == Options.placements[Max(S)].device
<1>1. PICK placements \in Seq(PlacementType) : placements = Options.placements
  BY OptionsAssumption DEF OptionsType
<1>2. Len(placements) \in Nat /\ DOMAIN placements = 1 .. Len(placements)
  OBVIOUS
<1>3. S \in SUBSET (1 .. Len(placements))
  BY <1>1, <1>2
<1>4. ASSUME S # {} PROVE Alias(d) \in Devices
  <2>1. PICK n, U : n \in Nat /\ U \in SUBSET (1 .. n) /\ U = S
    BY <1>2, <1>3
  <2>2. Max(U) \in U
    BY <1>4, <2>1, GreatestOf
  <2>3. Max(S) \in DOMAIN Options.placements
    BY <2>1, <2>2
  <2> HIDE DEF S
  <2>4. d \in Devices \cup {"gpu"}
    BY <2>3, OptionsAssumption
  <2>5. QED
    BY <2>4 DEF Alias, Devices
<1>5. operation.device \in Devices \cup {"gpu", "none"}
  BY DEF GraphOpType
<1>6. Placement(Options, operation) =
        IF operation.device # "none" THEN operation.device ELSE IF S = {} THEN "cpu" ELSE Alias(d)
  BY DEF Placement
<1> HIDE DEF S, d
<1>7. QED
  BY <1>4, <1>5, <1>6 DEF Devices

(* What the serializer is given of a graph. *)
LEMMA LoweredPrims ==
  ASSUME NEW m \in Modules, NEW g, g = m.graph, NEW prims, prims = LoweredOf(m).prims
  PROVE  /\ prims \in Seq(PrimType) /\ DOMAIN prims = 1 .. Cardinality(Compute(g))
         /\ Len(prims) = Cardinality(Compute(g))
         /\ \A v \in Compute(g) :
              /\ PrimIndex(g, v) \in DOMAIN prims
              /\ prims[PrimIndex(g, v)] = PrimOf(g, v, Placement(Options, OpAt(g, v)))
<1> DEFINE At(p) == CHOOSE v \in Compute(g) : PrimIndex(g, v) = p
           Prim(v) == PrimOf(g, v, Placement(Options, OpAt(g, v)))
           n == Cardinality(Compute(g))
<1>1. prims = [p \in 1 .. n |-> Prim(At(p))]
  BY DEF LoweredOf, Lowered
<1>2. \A v \in Compute(g) : PrimIndex(g, v) \in 1 .. n /\ At(PrimIndex(g, v)) = v
  <2>1. ASSUME NEW v \in Compute(g) PROVE PrimIndex(g, v) \in 1 .. n /\ At(PrimIndex(g, v)) = v
    <3>1. /\ PrimIndex(g, v) \in 1 .. Cardinality(Compute(g))
          /\ \A u \in Compute(g) : PrimIndex(g, u) = PrimIndex(g, v) => u = v
      BY PrimIndexIs
    <3>2. QED
      BY <3>1
  <2>2. QED
    BY <2>1
<1>3. n \in Nat /\ IsFiniteSet(Compute(g))
  BY GraphPosition, FS_Subset, FS_CardinalityType
<1>4. ASSUME NEW p \in 1 .. n PROVE At(p) \in Compute(g)
  <2> DEFINE f == [v \in Compute(g) |-> PrimIndex(g, v)]
  <2>1. f \in Injection(Compute(g), 1 .. n)
    <3>0. \A v \in Compute(g) : f[v] = PrimIndex(g, v) /\ PrimIndex(g, v) \in 1 .. n
      BY <1>2
    <3>1. f \in [Compute(g) -> 1 .. n]
      BY <3>0
    <3>2. ASSUME NEW u \in Compute(g), NEW v \in Compute(g), f[u] = f[v] PROVE u = v
      <4>1. PrimIndex(g, u) = PrimIndex(g, v)
        BY <3>0, <3>2
      <4>2. QED
        BY <4>1, PrimIndexIs
    <3> HIDE DEF f, n
    <3>3. QED
      BY <3>1, <3>2 DEF Injection, IsInjective
  <2>2. IsFiniteSet(1 .. n) /\ Cardinality(1 .. n) = n
    BY <1>3, FS_Interval
  <2>3. f \in Surjection(Compute(g), 1 .. n)
    <3>1. PICK A, B : A = Compute(g) /\ B = 1 .. n
      OBVIOUS
    <3>2. IsFiniteSet(A) /\ IsFiniteSet(B) /\ Cardinality(A) = Cardinality(B) /\ f \in Injection(A, B)
      BY <1>3, <2>1, <2>2, <3>1
    <3> HIDE DEF f, n
    <3>3. f \in Surjection(A, B)
      BY ONLY <3>2, FS_Injection
    <3>4. QED
      BY ONLY <3>1, <3>3
  <2>4. \E v \in Compute(g) : f[v] = p
    <3> HIDE DEF f, n
    <3>1. QED
      BY <2>3 DEF Surjection
  <2>5. QED
    BY <2>4
<1>5. ASSUME NEW v \in Compute(g) PROVE Prim(v) \in PrimType
  <2>1. OpAt(g, v) \in GraphOpType /\ OpAt(g, v).op \in ComputeOps /\ v \in Positions(g)
    BY GraphPosition DEF Compute
  <2>2. Placement(Options, OpAt(g, v)) \in Devices \cup {"gpu", "missing"}
    BY <2>1, PlacementTyped
  <2>3. ASSUME OpAt(g, v).op = "linear" PROVE OpAt(g, <<v[1], OpAt(g, v).args[1]>>).cols \in Nat
    <3>0. WellFormedGraph(g)
      BY GraphIs
    <3>1. /\ Len(OpAt(g, v).args) = 2 /\ \A a \in DOMAIN OpAt(g, v).args : OpAt(g, v).args[a] \in 1 .. v[2] - 1
          /\ OpAt(g, v).args \in Seq(Nat)
      BY <2>1, <2>3, <3>0 DEF WellFormedGraph, GraphOpType
    <3>2. OpAt(g, v).args[1] \in 1 .. v[2] - 1
      BY <3>1
    <3>3. OpAt(g, v).args[1] \in DOMAIN g[v[1]].body
      <4>1. v[1] \in DOMAIN g /\ v[2] \in DOMAIN g[v[1]].body /\ v[2] \in Nat
        BY <2>1, GraphPosition
      <4>2. DOMAIN g[v[1]].body = 1 .. Len(g[v[1]].body) /\ Len(g[v[1]].body) \in Nat
        BY <4>1, GraphIs
      <4>3. QED
        BY <3>2, <4>1, <4>2
    <3>4. <<v[1], OpAt(g, v).args[1]>> \in Positions(g)
      BY <2>1, <3>3, GraphPosition
    <3>5. OpAt(g, <<v[1], OpAt(g, v).args[1]>>) \in GraphOpType
      BY <3>4, GraphPosition
    <3>6. QED
      BY <3>5 DEF GraphOpType
  <2>4. KernelOf(OpAt(g, v).op) \in KernelKinds
    BY <2>1 DEF KernelOf, KernelKinds, ComputeOps
  <2>5. QED
    BY <2>1, <2>2, <2>3, <2>4 DEF PrimOf, PrimType, GraphOpType
<1>6. prims \in Seq(PrimType) /\ DOMAIN prims = 1 .. n /\ Len(prims) = n
  <2>1. \A p \in 1 .. n : Prim(At(p)) \in PrimType
    BY <1>4, <1>5
  <2> HIDE DEF Prim, At, n
  <2>2. QED
    BY <1>1, <1>3, <2>1
<1>7. ASSUME NEW v \in Compute(g) PROVE PrimIndex(g, v) \in DOMAIN prims /\ prims[PrimIndex(g, v)] = Prim(v)
  <2> HIDE DEF Prim, At, n
  <2>1. QED
    BY <1>1, <1>2, <1>6
<1>8. QED
  BY <1>6, <1>7

(* The functions the serializer walks are those of the func dialect, op for op. *)
LEMMA LoweredFuncs ==
  ASSUME NEW m \in Modules, NEW g, g = m.graph, NEW s, s = LoweredOf(m)
  PROVE  /\ s \in SourceType
         /\ DOMAIN s.funcs = DOMAIN Walked(g) /\ Len(s.funcs) = Len(Walked(g))
         /\ \A w \in DOMAIN Walked(g) :
              /\ Walked(g)[w] \in DOMAIN g
              /\ s.funcs[w].name = g[Walked(g)[w]].name
              /\ DOMAIN s.funcs[w].body = DOMAIN g[Walked(g)[w]].body
              /\ Len(s.funcs[w].body) = Len(g[Walked(g)[w]].body)
              /\ \A i \in DOMAIN g[Walked(g)[w]].body :
                   s.funcs[w].body[i] = CallOf(g[Walked(g)[w]].body[i], PrimIndex(g, <<Walked(g)[w], i>>))
<1> DEFINE F(w) == Walked(g)[w]
           Code(w) == [i \in DOMAIN g[F(w)].body |-> CallOf(g[F(w)].body[i], PrimIndex(g, <<F(w), i>>))]
           Func(w) == [name |-> g[F(w)].name, body |-> Code(w)]
           n == Len(Walked(g))
<1>1. s = [prims |-> s.prims, funcs |-> [w \in DOMAIN Walked(g) |-> Func(w)]]
  BY DEF LoweredOf, Lowered
<1>2. s.funcs = [w \in DOMAIN Walked(g) |-> Func(w)]
  BY DEF LoweredOf, Lowered
<1>3. DOMAIN Walked(g) = 1 .. n /\ n \in Nat /\ \A w \in 1 .. n : F(w) \in DOMAIN g
  BY GraphIs, WalkedTyped
<1>4. ASSUME NEW w \in 1 .. n
      PROVE  Code(w) \in Seq(OperationType) /\ Len(Code(w)) = Len(g[F(w)].body) /\ Func(w) \in FunctionType
  <2>1. PICK f \in DOMAIN g : f = F(w)
    BY <1>3
  <2>2. PICK b \in Seq(GraphOpType) : b = g[f].body /\ g[f].name \in STRING
    BY GraphIs
  <2>3. Code(w) = [i \in DOMAIN b |-> CallOf(b[i], PrimIndex(g, <<f, i>>))]
    BY <2>1, <2>2
  <2>4. ASSUME NEW i \in DOMAIN b PROVE CallOf(b[i], PrimIndex(g, <<f, i>>)) \in OperationType
    <3>1. PICK o \in GraphOpType : o = b[i]
      OBVIOUS
    <3>2. PrimIndex(g, <<f, i>>) \in Nat
      <4>1. PICK v : v = <<f, i>>
        OBVIOUS
      <4>2. v \in Compute(g) => PrimIndex(g, v) \in 1 .. Cardinality(Compute(g))
        BY PrimIndexIs
      <4>3. v \notin Compute(g) => PrimIndex(g, v) = 0
        BY DEF PrimIndex
      <4>4. QED
        BY <4>1, <4>2, <4>3
    <3>3. CallOf(o, PrimIndex(g, <<f, i>>)) \in OperationType
      <4>1. /\ o.op \in ComputeOps \cup {"constant", "print", "return", "other", "fill"} /\ o.args \in Seq(Nat)
            /\ o.regular \in BOOLEAN /\ o.rows \in Nat /\ o.cols \in Nat
        BY DEF GraphOpType
      <4>2. QED
        BY <3>2, <4>1 DEF CallOf, OperationType, ComputeOps
    <3>4. QED
      BY <3>1, <3>3
  <2>5. Len(b) \in Nat /\ DOMAIN b = 1 .. Len(b)
    OBVIOUS
  <2> HIDE DEF Code
  <2>6. Code(w) \in Seq(OperationType) /\ Len(Code(w)) = Len(b)
    BY <2>3, <2>4, <2>5
  <2>7. Func(w) \in FunctionType
    BY <2>1, <2>2, <2>6 DEF FunctionType
  <2>8. QED
    BY <2>1, <2>2, <2>6, <2>7
<1>5. s.funcs \in Seq(FunctionType) /\ Len(s.funcs) = n /\ DOMAIN s.funcs = 1 .. n
  <2>1. \A w \in 1 .. n : Func(w) \in FunctionType
    BY <1>4
  <2> HIDE DEF Func, n
  <2>2. s.funcs = [w \in 1 .. n |-> Func(w)]
    BY <1>2, <1>3
  <2>3. QED
    BY <1>3, <2>1, <2>2
<1>6. s \in SourceType
  <2>1. s.prims \in Seq(PrimType)
    BY LoweredPrims
  <2>2. s = [prims |-> s.prims, funcs |-> s.funcs]
    BY DEF LoweredOf, Lowered
  <2>3. QED
    BY ONLY <1>5, <2>1, <2>2 DEF SourceType
<1>7. ASSUME NEW w \in 1 .. n
      PROVE  /\ s.funcs[w].name = g[F(w)].name /\ DOMAIN s.funcs[w].body = DOMAIN g[F(w)].body
             /\ Len(s.funcs[w].body) = Len(g[F(w)].body)
             /\ \A i \in DOMAIN g[F(w)].body :
                  s.funcs[w].body[i] = CallOf(g[F(w)].body[i], PrimIndex(g, <<F(w), i>>))
  <2>1. s.funcs[w] = Func(w)
    BY <1>2, <1>3
  <2>2. s.funcs[w].name = g[F(w)].name /\ s.funcs[w].body = Code(w)
    BY <2>1
  <2>3. QED
    BY <1>4, <2>2
<1>8. QED
  BY <1>3, <1>5, <1>6, <1>7

-----------------------------------------------------------------------------
(* Slots and places in RODATA do not overlap. *)

(* A smaller set adds up to less. *)
LEMMA TotalGrows ==
  ASSUME NEW T, IsFiniteSet(T), NEW w, \A u \in T : w[u] \in Nat, NEW U \in SUBSET T, NEW V \in SUBSET U
  PROVE  Total(w, V) \in Nat /\ Total(w, U) \in Nat /\ Total(w, V) <= Total(w, U)
<1>1. Blocks(w, V) \in SUBSET Blocks(w, U)
  BY DEF Blocks
<1>2. IsFiniteSet(Blocks(w, U)) /\ Total(w, U) \in Nat
  BY TotalTyped
<1>3. Total(w, V) \in Nat
  <2>1. V \in SUBSET T
    OBVIOUS
  <2>2. QED
    BY ONLY <2>1, IsFiniteSet(T), \A u \in T : w[u] \in Nat, TotalTyped
<1>4. QED
  BY <1>1, <1>2, <1>3, FS_Subset DEF Total

(* Every stored value has a slot of its own, below their number. *)
LEMMA SlotsApart ==
  ASSUME NEW s \in SourceType, NEW u \in Stored(s), NEW v \in Stored(s)
  PROVE  /\ Slot(s, v) \in Nat /\ Slot(s, v) < Cardinality(Stored(s)) /\ Cardinality(Stored(s)) \in Nat
         /\ Slot(s, u) = Slot(s, v) => u = v
<1> DEFINE S == Stored(s)
           Below(x) == {y \in S : Before(y, x)}
<1>1. S \in SUBSET Positions(s.funcs)
  BY DEF Stored, StoredConstants
<1>2. IsFiniteSet(S) /\ Cardinality(S) \in Nat
  BY <1>1, FinitePositions, FS_Subset, FS_CardinalityType
<1>3. \A x \in S : x = <<x[1], x[2]>> /\ x[1] \in Nat /\ x[2] \in Nat
  BY <1>1, PositionIs
<1>4. ASSUME NEW x \in S
      PROVE  /\ Slot(s, x) = Cardinality(Below(x)) /\ Below(x) \in SUBSET S /\ x \notin Below(x)
             /\ IsFiniteSet(Below(x)) /\ Cardinality(Below(x)) \in Nat
  <2>1. Slot(s, x) = Cardinality(Below(x)) /\ Below(x) \in SUBSET S
    BY DEF Slot
  <2>2. x \notin Below(x)
    BY <1>3 DEF Before
  <2> HIDE DEF S, Below
  <2>3. QED
    BY <1>2, <2>1, <2>2, FS_Subset, FS_CardinalityType
<1>5. ASSUME NEW A, NEW B, IsFiniteSet(B), A \in SUBSET B, NEW x \in B, x \notin A
      PROVE  Cardinality(A) < Cardinality(B)
  <2>1. IsFiniteSet(A) /\ Cardinality(A) <= Cardinality(B) /\ (Cardinality(A) = Cardinality(B) => A = B)
    BY <1>5, FS_Subset
  <2>2. Cardinality(A) \in Nat /\ Cardinality(B) \in Nat
    BY <1>5, <2>1, FS_CardinalityType
  <2>3. A # B
    BY <1>5
  <2>4. QED
    BY <2>1, <2>2, <2>3
<1>6. ASSUME NEW x \in S PROVE Slot(s, x) \in Nat /\ Slot(s, x) < Cardinality(S)
  <2>1. PICK A : A = Below(x)
    OBVIOUS
  <2>2. A \in SUBSET S /\ x \notin A /\ Slot(s, x) = Cardinality(A) /\ Cardinality(A) \in Nat
    BY <1>4, <2>1
  <2> HIDE DEF S, Below
  <2>3. Cardinality(A) < Cardinality(S)
    BY <1>2, <1>5, <2>2
  <2>4. QED
    BY <2>2, <2>3
<1>7. ASSUME NEW x \in S, NEW y \in S, Before(x, y) PROVE Slot(s, x) < Slot(s, y)
  <2>1. PICK A, B : A = Below(x) /\ B = Below(y)
    OBVIOUS
  <2>2. A \in SUBSET B /\ x \in B /\ x \notin A
    BY <1>3, <1>7, <2>1 DEF Before
  <2>3. Slot(s, x) = Cardinality(A) /\ Slot(s, y) = Cardinality(B) /\ IsFiniteSet(B)
    BY <1>4, <2>1
  <2>4. Cardinality(A) < Cardinality(B)
    BY <1>5, <2>2, <2>3
  <2>5. QED
    BY <2>3, <2>4
<1>8. ASSUME u # v PROVE Slot(s, u) # Slot(s, v)
  <2>1. Before(u, v) \/ Before(v, u)
    BY <1>3, <1>8 DEF Before
  <2>2. Slot(s, u) < Slot(s, v) \/ Slot(s, v) < Slot(s, u)
    BY <1>7, <2>1
  <2>3. QED
    BY <1>6, <2>2
<1>9. QED
  BY <1>2, <1>6, <1>8

(* Stored constants lie in RODATA one after the other. *)
LEMMA RodataApart ==
  ASSUME NEW s \in SourceType, NEW u \in StoredConstants(s), NEW v \in StoredConstants(s),
         NEW z, z = RodataSize(s, StoredConstants(s))
  PROVE  /\ RodataOffset(s, v) \in Nat /\ Size(OperationAt(s, v)) \in Nat /\ z \in Nat
         /\ RodataOffset(s, v) + Size(OperationAt(s, v)) <= z
         /\ Before(u, v) => RodataOffset(s, u) + Size(OperationAt(s, u)) <= RodataOffset(s, v)
<1> DEFINE P == Positions(s.funcs)
           C == StoredConstants(s)
           w == [x \in P |-> Size(OperationAt(s, x))]
           Below(x) == {y \in C : Before(y, x)}
<1>1. C \in SUBSET P /\ IsFiniteSet(P)
  BY FinitePositions DEF StoredConstants
<1>2. \A D \in SUBSET P : RodataSize(s, D) = Total(w, D)
  BY RodataIsTotal
<1>3. \A x \in P : w[x] \in Nat /\ w[x] = Size(OperationAt(s, x))
  BY RodataIsTotal
<1>4. \A x \in C : x = <<x[1], x[2]>> /\ x[1] \in Nat /\ x[2] \in Nat
  BY <1>1, PositionIs
<1>5. ASSUME NEW x \in C, NEW D \in SUBSET C, Below(x) \subseteq D, x \in D
      PROVE  /\ RodataOffset(s, x) \in Nat /\ w[x] \in Nat /\ Total(w, D) \in Nat
             /\ RodataOffset(s, x) + w[x] <= Total(w, D)
  <2>1. PICK B : B = Below(x)
    OBVIOUS
  <2>2. B \in SUBSET P /\ x \notin B /\ B \cup {x} \in SUBSET D /\ D \in SUBSET P /\ x \in P
    BY <1>1, <1>4, <1>5, <2>1 DEF Before
  <2>3. RodataOffset(s, x) = Total(w, B)
    BY <1>2, <2>1, <2>2 DEF RodataOffset
  <2> HIDE DEF P, C, w, Below
  <2>4. \A y \in P : w[y] \in Nat
    BY <1>3
  <2>5. Total(w, B \cup {x}) = Total(w, B) + w[x]
    BY ONLY <1>1, <2>2, <2>4, TotalNext
  <2>6. Total(w, B \cup {x}) <= Total(w, D) /\ Total(w, D) \in Nat
    <3>1. PICK V : V = B \cup {x}
      OBVIOUS
    <3>2. V \in SUBSET D
      BY <2>2, <3>1
    <3>3. Total(w, V) <= Total(w, D) /\ Total(w, D) \in Nat
      BY ONLY <1>1, <2>2, <2>4, <3>2, TotalGrows
    <3>4. QED
      BY ONLY <3>1, <3>3
  <2>7. Total(w, B) \in Nat
    BY ONLY <1>1, <2>2, <2>4, TotalTyped
  <2>8. QED
    BY <2>2, <2>3, <2>4, <2>5, <2>6, <2>7
<1>6. RodataOffset(s, v) \in Nat /\ w[v] \in Nat /\ z \in Nat /\ RodataOffset(s, v) + w[v] <= z
  <2>1. z = Total(w, C)
    BY <1>1, <1>2
  <2>2. Below(v) \subseteq C /\ v \in C /\ C \in SUBSET C
    OBVIOUS
  <2> HIDE DEF P, w, Below, C
  <2>3. QED
    BY <1>5, <2>1, <2>2
<1>7. ASSUME Before(u, v) PROVE RodataOffset(s, u) + w[u] <= RodataOffset(s, v)
  <2>1. PICK D : D = Below(v)
    OBVIOUS
  <2>2. D \in SUBSET C /\ u \in D /\ Below(u) \subseteq D /\ u \in C
    BY <1>4, <1>7, <2>1 DEF Before
  <2>3. RodataOffset(s, v) = Total(w, D)
    BY <1>1, <1>2, <2>1, <2>2 DEF RodataOffset
  <2> HIDE DEF P, w, Below, C
  <2>4. QED
    BY <1>5, <2>2, <2>3
<1>8. w[u] = Size(OperationAt(s, u)) /\ w[v] = Size(OperationAt(s, v))
  BY <1>1, <1>3
<1> HIDE DEF w, P, C, Below
<1>9. QED
  BY <1>6, <1>7, <1>8

(* p is how q begins. *)
Begins(p, q) == Len(p) <= Len(q) /\ \A i \in 1 .. Len(p) : q[i] = p[i]

(* Sequences each of which extends the one before begin one another. *)
LEMMA ExtendedSteps ==
  ASSUME NEW T, NEW n \in Nat, NEW F, NEW G, \A k \in 0 .. n : F[k] \in Seq(T), \A k \in 1 .. n : G[k] \in Seq(T),
         \A k \in 0 .. n - 1 : F[k + 1] = F[k] \o G[k + 1],
         NEW a \in 0 .. n, NEW b \in a .. n
  PROVE  Begins(F[a], F[b])
<1> DEFINE S == {k \in Nat : a + k <= n => Begins(F[a], F[a + k])}
<1>1. 0 \in S
  <2>1. a + 0 = a /\ Len(F[a]) \in Nat
    OBVIOUS
  <2>2. Begins(F[a], F[a])
    BY <2>1 DEF Begins
  <2>3. QED
    BY <2>1, <2>2
<1>2. ASSUME NEW k \in S PROVE k + 1 \in S
  <2>1. ASSUME a + (k + 1) <= n PROVE Begins(F[a], F[a + (k + 1)])
    <3>1. PICK l \in 0 .. n - 1 : l = a + k
      BY <2>1
    <3>2. a + (k + 1) = l + 1 /\ l + 1 \in 1 .. n /\ l \in 0 .. n
      BY <3>1
    <3>3. Begins(F[a], F[l])
      BY <3>1, <3>2
    <3>4. PICK p \in Seq(T), q \in Seq(T), r \in Seq(T) : p = F[a] /\ q = F[l] /\ r = G[l + 1]
      BY <3>2
    <3>5. F[l + 1] = q \o r
      BY <3>4
    <3>6. /\ Len(q \o r) = Len(q) + Len(r) /\ Len(q) \in Nat /\ Len(r) \in Nat /\ Len(p) \in Nat
          /\ \A i \in 1 .. Len(q) : (q \o r)[i] = q[i]
      BY Concatenation
    <3>7. Begins(p, q)
      BY <3>3, <3>4
    <3>8. Begins(p, q \o r)
      <4>1. Len(p) <= Len(q) /\ \A i \in 1 .. Len(p) : q[i] = p[i]
        BY <3>7 DEF Begins
      <4>2. Len(p) <= Len(q \o r)
        BY ONLY <3>6, <4>1
      <4>3. ASSUME NEW i \in 1 .. Len(p) PROVE (q \o r)[i] = p[i]
        <5>1. i \in 1 .. Len(q)
          BY ONLY <3>6, <4>1, i \in 1 .. Len(p)
        <5>2. QED
          BY ONLY <3>6, <4>1, <5>1, i \in 1 .. Len(p)
      <4>4. QED
        BY ONLY <4>2, <4>3 DEF Begins
    <3>9. QED
      BY ONLY <3>2, <3>4, <3>5, <3>8
  <2>2. QED
    BY <2>1
<1>3. S = Nat
  <2> HIDE DEF S
  <2>1. S \in SUBSET Nat
    BY DEF S
  <2>2. QED
    BY <1>1, <1>2, <2>1, NatInd
<1>4. b - a \in Nat /\ a + (b - a) = b /\ b <= n
  OBVIOUS
<1>5. PICK k \in Nat : k = b - a
  BY <1>4
<1>6. Begins(F[a], F[a + k])
  BY <1>3, <1>4, <1>5
<1>7. QED
  BY ONLY <1>4, <1>5, <1>6

(* Where the commands of operation k + 1 of a function start. *)
PlaceOf(s, f, k) == FunctionOffset(s, f) + Len(OpsUpTo(s, f, k))

(* The commands c are in the program from p + 1 on. *)
LieAt(program, p, c) == \A j \in 1 .. Len(c) : p + j \in 1 .. Len(program) /\ program[p + j] = c[j]

(* The commands of each operation lie in the program after those of the operations
   before it, and END after those of the last. *)
LEMMA CommandPlaces ==
  ASSUME NEW s \in SourceType, NEW f \in DOMAIN s.funcs, NEW n, n = Len(s.funcs[f].body),
         NEW program, program = FuncsUpTo(s, Len(s.funcs))
  PROVE  /\ n \in Nat /\ program \in Seq(Emits(s))
         /\ FunctionOffset(s, f) \in Nat
         /\ \A k \in 0 .. n : PlaceOf(s, f, k) \in Nat
         /\ PlaceOf(s, f, 0) = FunctionOffset(s, f)
         /\ \A k \in 0 .. n - 1 :
              /\ PlaceOf(s, f, k + 1) = PlaceOf(s, f, k) + Len(CommandsOf(s, <<f, k + 1>>))
              /\ CommandsOf(s, <<f, k + 1>>) \in Seq(Emits(s))
              /\ LieAt(program, PlaceOf(s, f, k), CommandsOf(s, <<f, k + 1>>))
         /\ PlaceOf(s, f, n) + 1 \in 1 .. Len(program) /\ program[PlaceOf(s, f, n) + 1] = EndCommand
<1> DEFINE T == Emits(s)
           F == [k \in 0 .. n |-> OpsUpTo(s, f, k)]
           G == [k \in 1 .. n |-> CommandsOf(s, <<f, k>>)]
           N == Len(s.funcs)
           A == [k \in 0 .. N |-> FuncsUpTo(s, k)]
           B == [k \in 1 .. N |-> FunctionCommands(s, k)]
<1>1. /\ n \in Nat /\ N \in Nat /\ DOMAIN s.funcs = 1 .. N /\ DOMAIN s.funcs[f].body = 1 .. n
      /\ f \in 1 .. N /\ f - 1 \in 0 .. N - 1 /\ (f - 1) + 1 = f
  BY BodyTyped
<1>2. /\ \A k \in 0 .. n : F[k] \in Seq(T) /\ F[k] = OpsUpTo(s, f, k)
      /\ \A k \in 1 .. n : G[k] \in Seq(T) /\ G[k] = CommandsOf(s, <<f, k>>)
  <2>1. ASSUME NEW k \in 0 .. n PROVE OpsUpTo(s, f, k) \in Seq(T)
    BY <1>1, OpsTyped
  <2>2. ASSUME NEW k \in 1 .. n PROVE CommandsOf(s, <<f, k>>) \in Seq(T)
    BY <1>1, IsPosition, CommandsTyped
  <2>3. QED
    BY <2>1, <2>2
<1>3. \A k \in 0 .. n - 1 : F[k + 1] = F[k] \o G[k + 1]
  <2>1. ASSUME NEW k \in 0 .. n - 1 PROVE F[k + 1] = F[k] \o G[k + 1]
    <3>1. k \in Nat /\ k + 1 \in DOMAIN s.funcs[f].body /\ k \in 0 .. n /\ k + 1 \in 0 .. n /\ k + 1 \in 1 .. n
      BY SMTT(30), <1>1
    <3>2. OpsUpTo(s, f, k + 1) = OpsUpTo(s, f, k) \o CommandsOf(s, <<f, k + 1>>)
      BY <3>1, OpsNext
    <3> HIDE DEF F, G
    <3>3. QED
      BY <1>2, <3>1, <3>2
  <2>2. QED
    BY <2>1
<1>4. /\ \A k \in 0 .. N : A[k] \in Seq(T) /\ A[k] = FuncsUpTo(s, k)
      /\ \A k \in 1 .. N : B[k] \in Seq(T) /\ B[k] = FunctionCommands(s, k)
  <2>1. ASSUME NEW k \in 0 .. N PROVE FuncsUpTo(s, k) \in Seq(T)
    BY <1>1, FuncsTyped
  <2>2. ASSUME NEW k \in 1 .. N PROVE FunctionCommands(s, k) \in Seq(T)
    BY <1>1, FunctionIs
  <2>3. QED
    BY <2>1, <2>2
<1>5. \A k \in 0 .. N - 1 : A[k + 1] = A[k] \o B[k + 1]
  <2>1. ASSUME NEW k \in 0 .. N - 1 PROVE A[k + 1] = A[k] \o B[k + 1]
    <3>1. k \in Nat /\ k + 1 \in DOMAIN s.funcs /\ k \in 0 .. N /\ k + 1 \in 0 .. N /\ k + 1 \in 1 .. N
      BY <1>1
    <3>2. FuncsUpTo(s, k + 1) = FuncsUpTo(s, k) \o FunctionCommands(s, k + 1)
      BY <3>1, FuncsNext
    <3> HIDE DEF A, B
    <3>3. QED
      BY <1>4, <3>1, <3>2
  <2>2. QED
    BY <2>1
<1> HIDE DEF A, B, F, G, T
<1> DEFINE o == FunctionOffset(s, f)
           c(k) == CommandsOf(s, <<f, k>>)
           q == FunctionCommands(s, f)
<1>6. PICK p \in Seq(T) : p = FuncsUpTo(s, f - 1) /\ o = Len(p) /\ A[f - 1] = p
  BY <1>1, <1>4, OffsetOf
<1>7. program \in Seq(T) /\ program = A[N]
  BY <1>1, <1>4
(* The function within the program. *)
<1>8. q \in Seq(T) /\ \A i \in 1 .. Len(q) : o + i \in 1 .. Len(program) /\ program[o + i] = q[i]
  <2>1. PICK r \in Seq(T) : r = q /\ B[f] = r
    BY <1>1, <1>4
  <2>2. A[f] = p \o r
    BY <1>1, <1>5, <1>6, <2>1
  <2>3. Begins(A[f], A[N])
    <3>1. f \in 0 .. N /\ N \in f .. N
      BY <1>1
    <3>2. \A k \in 0 .. N : A[k] \in Seq(T)
      BY <1>4
    <3>3. \A k \in 1 .. N : B[k] \in Seq(T)
      BY <1>4
    <3>4. PICK m \in Nat : m = N
      BY <1>1
    <3>5. Begins(A[f], A[m])
      BY ONLY <1>5, <3>1, <3>2, <3>3, <3>4, ExtendedSteps
    <3>6. QED
      BY <3>4, <3>5
  <2>4. /\ Len(p \o r) = Len(p) + Len(r) /\ Len(p) \in Nat /\ Len(r) \in Nat
        /\ \A j \in 1 .. Len(r) : (p \o r)[Len(p) + j] = r[j]
    BY Concatenation
  <2>5. Begins(p \o r, program) /\ Len(program) \in Nat
    BY <1>7, <2>2, <2>3
  <2>6. \A i \in 1 .. Len(r) : Len(p) + i \in 1 .. Len(program) /\ program[Len(p) + i] = r[i]
    BY ONLY <2>4, <2>5 DEF Begins
  <2>7. QED
    BY <1>6, <2>1, <2>6
<1>9. o \in Nat /\ \A k \in 0 .. n : PlaceOf(s, f, k) = o + Len(F[k]) /\ Len(F[k]) \in Nat /\ PlaceOf(s, f, k) \in Nat
  <2>1. Len(p) \in Nat
    OBVIOUS
  <2>2. ASSUME NEW k \in 0 .. n
        PROVE  PlaceOf(s, f, k) = o + Len(F[k]) /\ Len(F[k]) \in Nat /\ PlaceOf(s, f, k) \in Nat
    <3>1. PICK r \in Seq(T) : r = F[k] /\ r = OpsUpTo(s, f, k)
      BY <1>2
    <3>2. Len(r) \in Nat
      OBVIOUS
    <3>3. PlaceOf(s, f, k) = o + Len(r)
      BY <3>1 DEF PlaceOf
    <3>4. PICK x \in Nat : x = o
      BY <1>6, <2>1
    <3>5. QED
      BY ONLY <3>1, <3>2, <3>3, <3>4
  <2>3. QED
    BY <1>6, <2>1, <2>2
(* The operations within the function. *)
<1>10. PICK l \in Seq(T), e \in Seq(T) : l = F[n] /\ e = <<EndCommand>> /\ q = l \o e
  <2>1. /\ q = OpsUpTo(s, f, n) \o <<EndCommand>> /\ OpsUpTo(s, f, n) \in Seq(T)
        /\ <<EndCommand>> \in Seq(T)
    BY FunctionIs DEF T
  <2>2. F[n] = OpsUpTo(s, f, n)
    BY <1>1, <1>2
  <2>3. PICK l \in Seq(T), e \in Seq(T) : l = OpsUpTo(s, f, n) /\ e = <<EndCommand>>
    BY <2>1
  <2>4. q = l \o e
    BY ONLY <2>1, <2>3
  <2>5. QED
    BY ONLY <2>2, <2>3, <2>4
<1>11. /\ Len(q) = Len(l) + 1 /\ Len(l) \in Nat /\ (\A i \in 1 .. Len(l) : q[i] = l[i]) /\ q[Len(l) + 1] = EndCommand
  <2>1. Len(e) <= 1 /\ Len(e) >= 1 /\ e[1] = EndCommand
    BY <1>10
  <2>2. /\ Len(l \o e) = Len(l) + 1 /\ (\A i \in 1 .. Len(l) : (l \o e)[i] = l[i])
        /\ (l \o e)[Len(l) + 1] = e[1] /\ Len(l) \in Nat
    BY ONLY <2>1, l \in Seq(T), e \in Seq(T), Extension
  <2>3. QED
    BY ONLY <1>10, <2>1, <2>2
<1>12. PlaceOf(s, f, n) + 1 \in 1 .. Len(program) /\ program[PlaceOf(s, f, n) + 1] = EndCommand
  <2>1. Len(l) + 1 \in 1 .. Len(q) /\ PlaceOf(s, f, n) + 1 = o + (Len(l) + 1)
    <3>1. n \in 0 .. n
      BY <1>1
    <3>2. PlaceOf(s, f, n) = o + Len(l)
      BY <1>9, <1>10, <3>1
    <3>3. PICK x \in Nat : x = o
      BY <1>9
    <3>4. QED
      BY ONLY <1>11, <3>2, <3>3
  <2>2. QED
    BY <1>8, <1>11, <2>1
<1>13. ASSUME NEW k \in 0 .. n - 1
       PROVE  /\ PlaceOf(s, f, k + 1) = PlaceOf(s, f, k) + Len(c(k + 1)) /\ c(k + 1) \in Seq(T)
              /\ \A j \in 1 .. Len(c(k + 1)) :
                   /\ PlaceOf(s, f, k) + j \in 1 .. Len(program)
                   /\ program[PlaceOf(s, f, k) + j] = c(k + 1)[j]
  <2>1. k \in 0 .. n /\ k + 1 \in 0 .. n /\ k + 1 \in 1 .. n
    BY <1>1
  <2>2. PICK a \in Seq(T), b \in Seq(T) : a = F[k] /\ b = G[k + 1] /\ b = c(k + 1) /\ F[k + 1] = a \o b
    BY <1>2, <1>3, <2>1
  <2>3. /\ Len(a \o b) = Len(a) + Len(b) /\ Len(a) \in Nat /\ Len(b) \in Nat
        /\ \A j \in 1 .. Len(b) : (a \o b)[Len(a) + j] = b[j]
    BY SMTT(30), Concatenation
  <2>4. Begins(F[k + 1], F[n])
    <3>1. \A i \in 0 .. n : F[i] \in Seq(T)
      BY <1>2
    <3>2. \A i \in 1 .. n : G[i] \in Seq(T)
      BY <1>2
    <3>0. PICK m \in Nat : m = n
      BY <1>1
    <3>a. n \in k + 1 .. n
      BY <1>1
    <3>3. PICK x, y : x = k + 1 /\ y = n /\ x \in 0 .. m /\ y \in x .. m
      BY ONLY <2>1, <3>0, <3>a
    <3>4. Begins(F[x], F[y])
      BY ONLY <1>3, <3>0, <3>1, <3>2, <3>3, ExtendedSteps
    <3>5. QED
      BY <3>3, <3>4
  <2>5. Begins(a \o b, l)
    BY <1>10, <2>2, <2>4
  <2>6. PlaceOf(s, f, k) = o + Len(a) /\ PlaceOf(s, f, k + 1) = o + Len(a \o b)
    BY <1>9, <2>1, <2>2
  <2>7. ASSUME NEW j \in 1 .. Len(b)
        PROVE  PlaceOf(s, f, k) + j \in 1 .. Len(program) /\ program[PlaceOf(s, f, k) + j] = b[j]
    <3>1. Len(a) + j \in 1 .. Len(a \o b)
      BY <2>3
    <3>2. Len(a) + j \in 1 .. Len(l) /\ l[Len(a) + j] = b[j]
      <4>1. Len(a) \in Nat /\ Len(b) \in Nat /\ Len(l) \in Nat
        OBVIOUS
      <4>2. QED
        BY ONLY <2>3, <2>5, <3>1, <4>1, j \in 1 .. Len(b) DEF Begins
    <3>3. Len(a) + j \in 1 .. Len(q) /\ q[Len(a) + j] = b[j]
      BY <1>11, <3>2
    <3>4. PlaceOf(s, f, k) + j = o + (Len(a) + j)
      BY <1>9, <2>3, <2>6
    <3>5. QED
      BY <1>8, <3>3, <3>4
  <2>8. PlaceOf(s, f, k + 1) = PlaceOf(s, f, k) + Len(b)
    <3>1. PICK x \in Nat : x = o
      BY <1>9
    <3>2. QED
      BY ONLY <2>3, <2>6, <3>1
  <2>9. QED
    BY ONLY <2>2, <2>7, <2>8
<1>14. PlaceOf(s, f, 0) = o
  <2>1. OpsUpTo(s, f, 0) = <<>> /\ Len(<<>>) = 0
    BY NoneYet
  <2>2. QED
    BY <1>9, <2>1 DEF PlaceOf
<1>15. QED
  BY <1>1, <1>7, <1>9, <1>12, <1>13, <1>14 DEF T, LieAt

-----------------------------------------------------------------------------
(* What the compiler wrote of an op: its slot, its constant, its commands. *)

(* The module of the call, and an operation of the function it runs. *)
Source       == LoweredOf(call.module)
Images       == IF call.module.compiled THEN CudaPrims(call.module) ELSE {}
Position(i)  == <<EntryAt, i>>
SlotAt(i)    == Slot(Source, Position(i))
IsKept(i)    == Position(i) \in Stored(Source)
IsCompute(i) == Body[i].op \in ComputeOps
Place(k)     == PlaceOf(Source, EntryAt, k)

(* A call of a function that is there, in a graph whose shapes fit. *)
Called == call \in Calls /\ SymbolIndices(call) # {} /\ Fits

(* The sections of the module are those stated of what the graph is lowered to. *)
LEMMA SectionsAre ==
  ASSUME call \in Calls
  PROVE  /\ M = SectionsOf(Source, Images) /\ M.symbols = "present" /\ M.program = "present"
         /\ M.exeTable = "fits" /\ M.hasRodata /\ M.rodata = RodataSize(Source, StoredConstants(Source))
         /\ M.commands = FuncsUpTo(Source, Len(Source.funcs))
         /\ ExesOf(call) = [p \in DOMAIN Source.prims |-> Executable(Source.prims[p], p \in Images)]
         /\ call.module \in Modules /\ Source \in SourceType
<1>1. PICK m \in Modules : m = call.module
  BY DEF Calls
<1>2. M = SectionsOf(Source, Images)
  BY <1>1, GraphIs DEF M, SectionsFor, Source, Images
<1>3. Source \in SourceType
  BY <1>1, LoweredFuncs DEF Source
<1>4. DOMAIN Source.funcs = 1 .. Len(Source.funcs)
  <2>1. PICK funcs \in Seq(FunctionType) : funcs = Source.funcs
    BY <1>3 DEF SourceType
  <2>2. DOMAIN funcs = 1 .. Len(funcs)
    OBVIOUS
  <2>3. QED
    BY ONLY <2>1, <2>2
<1>5. M.commands = FuncsUpTo(Source, Len(Source.funcs))
  <2>1. M.commands = FlattenSeq([f \in DOMAIN Source.funcs |-> FunctionCommands(Source, f)])
    BY <1>2 DEF SectionsOf
  <2>2. QED
    BY <1>4, <2>1 DEF FuncsUpTo
<1>6. /\ M.symbols = "present" /\ M.program = "present" /\ M.exeTable = "fits" /\ M.hasRodata
      /\ M.rodata = RodataSize(Source, StoredConstants(Source))
      /\ M.exes = [p \in DOMAIN Source.prims |-> Executable(Source.prims[p], p \in Images)]
  BY <1>2 DEF SectionsOf
<1>7. ExesOf(call) = M.exes
  BY <1>6 DEF ExesOf, M
<1>8. QED
  BY <1>1, <1>2, <1>3, <1>5, <1>6, <1>7

(* The entry: the first function written under its name. *)
LEMMA EntryIs ==
  ASSUME Called
  PROVE  /\ EntryAt \in DOMAIN Source.funcs /\ EntryOffset(call) = FunctionOffset(Source, EntryAt)
         /\ Function \in DOMAIN Graph /\ Body \in Seq(GraphOpType) /\ Len(Body) \in Nat
         /\ DOMAIN Body = 1 .. Len(Body) /\ Len(Source.funcs[EntryAt].body) = Len(Body)
         /\ DOMAIN Source.funcs[EntryAt].body = 1 .. Len(Body)
         /\ \A i \in 1 .. Len(Body) :
              /\ Body[i] \in GraphOpType
              /\ Position(i) \in Positions(Source.funcs)
              /\ OperationAt(Source, Position(i)) = CallOf(Body[i], PrimIndex(Graph, <<Function, i>>))
              /\ <<Function, i>> \in Positions(Graph) /\ OpAt(Graph, <<Function, i>>) = Body[i]
<1>1. PICK m \in Modules : m = call.module
  BY DEF Called, Calls
<1>2. Graph = m.graph /\ Source = LoweredOf(m) /\ call \in Calls
  BY <1>1 DEF Graph, Source, Called
<1>3. /\ DOMAIN Graph = 1 .. Len(Graph) /\ Len(Graph) \in Nat
      /\ \A f \in DOMAIN Graph :
           /\ Graph[f].body \in Seq(GraphOpType)
           /\ DOMAIN Graph[f].body = 1 .. Len(Graph[f].body) /\ Len(Graph[f].body) \in Nat
  BY <1>2, GraphIs
<1>4. /\ DOMAIN Source.funcs = DOMAIN Walked(Graph)
      /\ \A w \in DOMAIN Walked(Graph) :
           /\ Walked(Graph)[w] \in DOMAIN Graph
           /\ Source.funcs[w].name = Graph[Walked(Graph)[w]].name
           /\ DOMAIN Source.funcs[w].body = DOMAIN Graph[Walked(Graph)[w]].body
           /\ Len(Source.funcs[w].body) = Len(Graph[Walked(Graph)[w]].body)
           /\ \A i \in DOMAIN Graph[Walked(Graph)[w]].body :
                Source.funcs[w].body[i]
                  = CallOf(Graph[Walked(Graph)[w]].body[i], PrimIndex(Graph, <<Walked(Graph)[w], i>>))
  BY <1>2, LoweredFuncs
<1> DEFINE E == {w \in DOMAIN Walked(Graph) : ShortName(Graph[Walked(Graph)[w]].name) = call.entry}
           names == M.names
<1>5. names = [f \in DOMAIN Source.funcs |-> [name |-> ShortName(Source.funcs[f].name),
                                              offset |-> FunctionOffset(Source, f)]]
  <2>1. M = SectionsOf(Source, Images)
    BY <1>2, SectionsAre
  <2>2. QED
    BY <2>1 DEF SectionsOf
<1>6. SymbolIndices(call) = E
  <2>1. SymbolIndices(call) = {i \in DOMAIN names : names[i].name = call.entry}
    BY DEF SymbolIndices, M
  <2>2. \A i \in DOMAIN names : names[i].name = ShortName(Graph[Walked(Graph)[i]].name)
    BY <1>4, <1>5
  <2>3. DOMAIN names = DOMAIN Walked(Graph)
    BY <1>4, <1>5
  <2> HIDE DEF names
  <2>4. QED
    BY <2>1, <2>2, <2>3
<1>7. EntryAt \in E
  <2>1. E # {} /\ E \in SUBSET Nat
    <3>1. DOMAIN Walked(Graph) = 1 .. Len(Walked(Graph))
      BY <1>3, WalkedTyped
    <3>2. QED
      BY <1>6, <3>1 DEF Called
  <2>2. EntryAt = CHOOSE x \in E : \A y \in E : x <= y
    BY DEF EntryAt, Min
  <2> HIDE DEF E
  <2>3. \E x \in E : \A y \in E : x <= y
    BY <2>1, LeastMember
  <2>4. QED
    BY <2>2, <2>3
<1>8. EntryOffset(call) = FunctionOffset(Source, EntryAt)
  <2>1. EntryOffset(call) = names[CHOOSE i \in E : \A j \in E : i <= j].offset
    BY <1>6 DEF EntryOffset, M
  <2>2. (CHOOSE i \in E : \A j \in E : i <= j) = EntryAt
    BY DEF EntryAt, Min
  <2>3. EntryAt \in DOMAIN Source.funcs
    BY <1>4, <1>7
  <2>4. names[EntryAt].offset = FunctionOffset(Source, EntryAt)
    <3>1. PICK e \in DOMAIN Source.funcs : e = EntryAt
      BY <2>3
    <3>2. names[e] = [name |-> ShortName(Source.funcs[e].name), offset |-> FunctionOffset(Source, e)]
      BY <1>5
    <3> HIDE DEF names
    <3>3. names[e].offset = FunctionOffset(Source, e)
      BY ONLY <3>2
    <3>4. QED
      BY ONLY <3>1, <3>3, Zenon
  <2> HIDE DEF names, E
  <2>5. QED
    BY ONLY <2>1, <2>2, <2>4, Zenon
<1>9. /\ EntryAt \in DOMAIN Source.funcs /\ EntryAt \in DOMAIN Walked(Graph)
      /\ Function = Walked(Graph)[EntryAt] /\ Function \in DOMAIN Graph /\ Body = Graph[Function].body
  BY <1>4, <1>7 DEF Function, Body
<1>10. /\ Body \in Seq(GraphOpType) /\ Len(Body) \in Nat /\ DOMAIN Body = 1 .. Len(Body)
       /\ Len(Source.funcs[EntryAt].body) = Len(Body) /\ DOMAIN Source.funcs[EntryAt].body = 1 .. Len(Body)
  <2>1. PICK f \in DOMAIN Graph : f = Function
    BY <1>9
  <2>2. /\ Graph[f].body \in Seq(GraphOpType)
        /\ DOMAIN Graph[f].body = 1 .. Len(Graph[f].body) /\ Len(Graph[f].body) \in Nat
    BY <1>3
  <2>3. PICK w \in DOMAIN Walked(Graph) : w = EntryAt /\ Walked(Graph)[w] = f
    BY <1>9, <2>1
  <2>4. DOMAIN Source.funcs[w].body = DOMAIN Graph[f].body /\ Len(Source.funcs[w].body) = Len(Graph[f].body)
    BY <1>4, <2>3
  <2>5. QED
    BY <1>9, <2>1, <2>2, <2>3, <2>4
<1>11. ASSUME NEW i \in 1 .. Len(Body)
       PROVE  /\ Body[i] \in GraphOpType
              /\ Position(i) \in Positions(Source.funcs)
              /\ OperationAt(Source, Position(i)) = CallOf(Body[i], PrimIndex(Graph, <<Function, i>>))
              /\ <<Function, i>> \in Positions(Graph) /\ OpAt(Graph, <<Function, i>>) = Body[i]
  <2>1. Body[i] \in GraphOpType
    BY <1>10
  <2>2. Position(i) \in Positions(Source.funcs)
    BY <1>9, <1>10 DEF Positions, Position
  <2>3. OperationAt(Source, Position(i)) = CallOf(Body[i], PrimIndex(Graph, <<Function, i>>))
    <3>1. OperationAt(Source, Position(i)) = Source.funcs[EntryAt].body[i]
      BY DEF OperationAt, Position
    <3>2. i \in DOMAIN Graph[Walked(Graph)[EntryAt]].body
      BY <1>9, <1>10
    <3>3. QED
      BY <1>4, <1>9, <3>1, <3>2
  <2>4. <<Function, i>> \in Positions(Graph) /\ OpAt(Graph, <<Function, i>>) = Body[i]
    BY <1>9, <1>10 DEF Positions, OpAt
  <2>5. QED
    BY <2>1, <2>2, <2>3, <2>4
<1>12. QED
  BY <1>8, <1>9, <1>10, <1>11

(* An operation of the entry, as the compiler took it. *)
LEMMA OpIs ==
  ASSUME Called, NEW i \in 1 .. Len(Body), NEW o, o = Body[i]
  PROVE  /\ o \in GraphOpType /\ o.args \in Seq(Nat)
         /\ o.op \in ComputeOps \cup {"constant", "print", "return"}
         /\ o.op \in ComputeOps => IsKept(i)
         /\ IsKept(i) => o.op \in ComputeOps \cup {"constant"}
         /\ Position(i) \in StoredConstants(Source) <=> o.op = "constant" /\ IsKept(i)
         /\ o.op \in ComputeOps \cup {"print"} =>
              \A a \in DOMAIN o.args : o.args[a] \in 1 .. i - 1 /\ IsKept(o.args[a])
         /\ o.op \in {"linear", "add"} => Len(o.args) = 2
         /\ o.op \in {"relu", "print"} => Len(o.args) = 1
<1> DEFINE c == CallOf(o, PrimIndex(Graph, <<Function, i>>))
           v == Position(i)
<1>1. PICK m \in Modules : m = call.module
  BY DEF Called, Calls
<1>2. Graph = m.graph /\ Source = LoweredOf(m)
  BY <1>1 DEF Graph, Source
<1>3. /\ o \in GraphOpType /\ v \in Positions(Source.funcs) /\ OperationAt(Source, v) = c
      /\ <<Function, i>> \in Positions(Graph) /\ OpAt(Graph, <<Function, i>>) = o
  BY EntryIs
<1>4. WellFormedGraph(Graph) /\ Serializable(Source)
  BY <1>2, GraphIs
<1>5. o.args \in Seq(Nat) /\ o.op \in ComputeOps \cup {"constant", "print", "return", "other", "fill"}
  BY <1>3 DEF GraphOpType
<1>6. /\ c.op = "constant" <=> o.op = "constant"
      /\ c.op = "call_tir" <=> o.op \in ComputeOps
      /\ c.op = "print" <=> o.op = "print"
      /\ c.op = "unsupported" <=> o.op \in {"other", "fill"}
      /\ c.args = o.args
  BY <1>5 DEF CallOf, ComputeOps
<1>7. v[1] = EntryAt /\ v[2] = i
  BY DEF Position
<1> HIDE DEF c, v
<1>8. /\ c.op # "unsupported"
      /\ c.op \in {"call_tir", "print"} => \A a \in DOMAIN c.args : <<v[1], c.args[a]>> \in Stored(Source)
  BY <1>3, <1>4, Zenon DEF Serializable
<1>9. IsKept(i) <=> v \in Stored(Source)
  BY DEF IsKept, v
<1>10. v \in StoredConstants(Source) => c.op = "constant"
  BY <1>3 DEF StoredConstants
<1>11. v \in Stored(Source) <=> v \in StoredConstants(Source) \/ c.op = "call_tir"
  BY <1>3 DEF Stored
<1>12. \A a \in DOMAIN o.args : o.args[a] \in 1 .. i - 1
  <2>1. \A a \in DOMAIN OpAt(Graph, <<Function, i>>).args :
          OpAt(Graph, <<Function, i>>).args[a] \in 1 .. <<Function, i>>[2] - 1
    BY <1>3, <1>4 DEF WellFormedGraph
  <2>2. QED
    BY <1>3, <2>1
<1>13. /\ o.op \in {"linear", "add"} => Len(o.args) = 2
       /\ o.op \in {"relu", "print"} => Len(o.args) = 1
  <2>1. Len(o.args) = CASE o.op \in {"linear", "add"} -> 2
                        [] o.op \in {"relu", "print"} -> 1
                        [] o.op = "constant" -> 0
                        [] OTHER -> Len(o.args)
    BY <1>3, <1>4 DEF WellFormedGraph
  <2>2. QED
    BY <2>1
<1>14. ASSUME o.op \in ComputeOps \cup {"print"}, NEW a \in DOMAIN o.args
       PROVE  o.args[a] \in 1 .. i - 1 /\ IsKept(o.args[a])
  <2>1. <<v[1], c.args[a]>> \in Stored(Source)
    BY <1>6, <1>8, <1>14
  <2>2. <<v[1], c.args[a]>> = Position(o.args[a])
    BY <1>6, <1>7 DEF Position
  <2>3. QED
    BY <1>12, <2>1, <2>2 DEF IsKept
<1>15. v = Position(i)
  BY DEF v
<1>16. QED
  BY <1>3, <1>5, <1>6, <1>8, <1>9, <1>10, <1>11, <1>13, <1>14, <1>15

(* What is below its limit is held as it is. *)
LEMMA BelowLimit ==
  ASSUME NEW n \in Nat \ {0}, NEW x \in 0 .. n - 1
  PROVE  x % n = x
  OBVIOUS

(* Its shape is the one the op is meant to be used with. *)
LEMMA ShapeIs ==
  ASSUME Called, NEW i \in 1 .. Len(Body)
  PROVE  /\ Body[i].op = "linear" => Body[Body[i].args[1]].cols = Body[Body[i].args[2]].rows /\ Body[i].rows = Body[Body[i].args[1]].rows /\ Body[i].cols = Body[Body[i].args[2]].cols
         /\ Body[i].op = "add" =>
              Body[i].rows = Body[Body[i].args[1]].rows /\ Body[i].rows = Body[Body[i].args[2]].rows /\ Body[i].cols = Body[Body[i].args[1]].cols /\ Body[i].cols = Body[Body[i].args[2]].cols
         /\ Body[i].op \in {"relu", "print"} => Body[i].rows = Body[Body[i].args[1]].rows /\ Body[i].cols = Body[Body[i].args[1]].cols
         /\ IsKept(i) => /\ Size(Body[i]) \in 1 .. SizeLimit - 1
                         /\ Size(Body[i]) = Body[i].rows * Body[i].cols
                         /\ Body[i].rows % ExtentLimit = Body[i].rows
                         /\ Body[i].cols % ExtentLimit = Body[i].cols
         /\ Body[i].rows \in Nat /\ Body[i].cols \in Nat /\ Size(Body[i]) \in Nat
<1>0. PICK o, A, B : o = Body[i] /\ A = Body[Body[i].args[1]] /\ B = Body[Body[i].args[2]]
  OBVIOUS
<1>1. PICK m \in Modules : m = call.module
  BY DEF Called, Calls
<1>2. Function \in DOMAIN Graph /\ Body = Graph[Function].body /\ Graph = m.graph
  BY <1>1, EntryIs DEF Body, Graph
<1>3. WellShaped(Body)
  BY <1>2 DEF Called, Fits
<1>4. DOMAIN Body = 1 .. Len(Body)
  BY EntryIs
<1>5. /\ o.op = "linear" => A.cols = B.rows /\ o.rows = A.rows /\ o.cols = B.cols
      /\ o.op = "add" => /\ o.rows = A.rows /\ o.rows = B.rows
                         /\ o.cols = A.cols /\ o.cols = B.cols
      /\ o.op \in {"relu", "print"} => o.rows = A.rows /\ o.cols = A.cols
      /\ o.op \in ComputeOps \cup {"constant"} =>
           /\ o.rows * o.cols \in 1 .. SizeLimit - 1
           /\ o.rows < ExtentLimit /\ o.cols < ExtentLimit
  BY <1>0, <1>3, <1>4, Zenon DEF WellShaped
<1>6. IsKept(i) => o.op \in ComputeOps \cup {"constant"}
  BY <1>0, OpIs
<1>7. o \in GraphOpType
  BY <1>0, OpIs
<1>8. PICK r \in Nat, c \in Nat : r = o.rows /\ c = o.cols
  BY <1>7 DEF GraphOpType
<1>9. PICK x \in Nat : x = r * c
  OBVIOUS
<1>9a. Size(o) = x % SizeLimit /\ Size(o) \in Nat
  BY <1>8, <1>9, SizeAssumption, RemainderTyped DEF Size
<1>9b. IsKept(i) =>
         /\ Size(o) \in 1 .. SizeLimit - 1 /\ Size(o) = o.rows * o.cols
         /\ o.rows % ExtentLimit = o.rows /\ o.cols % ExtentLimit = o.cols
  <2>1. SUFFICES ASSUME x \in 1 .. SizeLimit - 1, r < ExtentLimit, c < ExtentLimit
                 PROVE  /\ Size(o) \in 1 .. SizeLimit - 1 /\ Size(o) = o.rows * o.cols
                        /\ o.rows % ExtentLimit = o.rows /\ o.cols % ExtentLimit = o.cols
    BY <1>5, <1>6, <1>8, <1>9
  <2>2. x \in 0 .. SizeLimit - 1 /\ r \in 0 .. ExtentLimit - 1 /\ c \in 0 .. ExtentLimit - 1
    BY <2>1, SizeAssumption, ExtentAssumption
  <2>3. x % SizeLimit = x /\ r % ExtentLimit = r /\ c % ExtentLimit = c
    BY <2>2, SizeAssumption, ExtentAssumption, BelowLimit
  <2>4. QED
    BY ONLY <1>8, <1>9, <1>9a, <2>1, <2>3
<1>10. /\ o.op = "linear" => A.cols = B.rows /\ o.rows = A.rows /\ o.cols = B.cols
       /\ o.op = "add" =>
            o.rows = A.rows /\ o.rows = B.rows /\ o.cols = A.cols /\ o.cols = B.cols
       /\ o.op \in {"relu", "print"} => o.rows = A.rows /\ o.cols = A.cols
       /\ IsKept(i) => /\ Size(o) \in 1 .. SizeLimit - 1 /\ Size(o) = o.rows * o.cols
                       /\ o.rows % ExtentLimit = o.rows /\ o.cols % ExtentLimit = o.cols
       /\ o.rows \in Nat /\ o.cols \in Nat /\ Size(o) \in Nat
  BY <1>5, <1>8, <1>9a, <1>9b
<1>11. QED
  BY ONLY <1>0, <1>10, Zenon

(* Kept values have slots of their own. *)
LEMMA KeptSlots ==
  ASSUME Called, NEW i, IsKept(i), NEW j, IsKept(j)
  PROVE  /\ SlotAt(i) \in Nat /\ SlotAt(i) < Cardinality(Stored(Source)) /\ Cardinality(Stored(Source)) \in Nat
         /\ SlotAt(i) = SlotAt(j) => i = j
<1>1. call \in Calls
  BY DEF Called
<1>2. Source \in SourceType
  BY <1>1, SectionsAre
<1>3. /\ Slot(Source, Position(i)) \in Nat /\ Slot(Source, Position(i)) < Cardinality(Stored(Source))
      /\ Cardinality(Stored(Source)) \in Nat
      /\ Slot(Source, Position(j)) = Slot(Source, Position(i)) => Position(j) = Position(i)
  BY <1>2, SlotsApart DEF IsKept
<1>4. QED
  BY <1>3 DEF SlotAt, Position

(* What op i evaluates to, by the values of those before it. *)
Valued(value, i) ==
  CASE Body[i].op = "constant" -> ValueAt(Function, i)
    [] KernelOf(Body[i].op) \in KernelKinds ->
         Kernel(KernelOf(Body[i].op), [a \in DOMAIN Body[i].args |-> value[Body[i].args[a]]])
    [] OTHER -> <<>>

(* The equation of Value, as far as op n. *)
Evaluates(value, n) ==
  value = [i \in 1 .. n |->
    CASE Body[i].op = "constant" -> ValueAt(Function, i)
      [] KernelOf(Body[i].op) \in KernelKinds ->
           Kernel(KernelOf(Body[i].op), [a \in DOMAIN Body[i].args |-> value[Body[i].args[a]]])
      [] OTHER -> <<>>]

(* Value is a recursive function, and so chosen among those that satisfy its equation. *)
LEMMA ValueIsChosen ==
  ASSUME DOMAIN Body = 1 .. Len(Body)
  PROVE  Value = CHOOSE value : Evaluates(value, Len(Body))
BY Zenon DEF Value, Meaning, Evaluates

(* Operands come before the op, so there is such a function. *)
LEMMA ValueIs ==
  ASSUME Called
  PROVE  \A i \in 1 .. Len(Body) : Value[i] = Valued(Value, i)
<1> DEFINE n == Len(Body)
           T == {k \in Nat : k <= n => \E value : Evaluates(value, k)}
<1>1. n \in Nat /\ DOMAIN Body = 1 .. n
  BY EntryIs
<1>2. ASSUME NEW i \in 1 .. n, NEW a \in DOMAIN Body[i].args
      PROVE  Body[i].args[a] \in 1 .. i - 1
  <2>1. PICK m \in Modules : m = call.module
    BY DEF Called, Calls
  <2>2. WellFormedGraph(Graph)
    BY <2>1, GraphIs DEF Graph
  <2>3. <<Function, i>> \in Positions(Graph) /\ OpAt(Graph, <<Function, i>>) = Body[i]
    BY EntryIs
  <2>4. \A b \in DOMAIN OpAt(Graph, <<Function, i>>).args :
          OpAt(Graph, <<Function, i>>).args[b] \in 1 .. <<Function, i>>[2] - 1
    BY <2>2, <2>3 DEF WellFormedGraph
  <2>5. QED
    BY <2>3, <2>4
<1>3. 0 \in T
  <2>1. Evaluates([i \in 1 .. 0 |-> 0], 0)
    BY DEF Evaluates
  <2>2. QED
    BY <2>1
<1>4. ASSUME NEW k \in T PROVE k + 1 \in T
  <2>1. CASE k + 1 > n
    BY <2>1
  <2>2. CASE k + 1 <= n
    <3>1. PICK value : Evaluates(value, k)
      BY <1>1, <2>2
    <3> DEFINE other == [i \in 1 .. k + 1 |-> IF i = k + 1 THEN Valued(value, k + 1) ELSE value[i]]
    <3>2. ASSUME NEW i \in 1 .. k + 1
          PROVE  other[i] = Valued(other, i)
      <4>1. other[i] = Valued(value, i)
        <5>1. CASE i = k + 1
          BY <5>1
        <5>2. CASE i # k + 1
          <6>1. i \in 1 .. k
            BY <5>2
          <6>2. value[i] = Valued(value, i)
            BY <3>1, <6>1, Zenon DEF Evaluates, Valued
          <6>3. QED
            BY <5>2, <6>2
        <5>3. QED
          BY <5>1, <5>2
      <4>2. ASSUME NEW a \in DOMAIN Body[i].args
            PROVE  other[Body[i].args[a]] = value[Body[i].args[a]]
        <5>1. i \in 1 .. n
          BY <1>1, <2>2
        <5>2. PICK r \in 1 .. i - 1 : r = Body[i].args[a]
          BY <1>2, <5>1
        <5>3. r \in 1 .. k + 1 /\ r # k + 1
          OBVIOUS
        <5>4. QED
          BY <5>2, <5>3
      <4> HIDE DEF other
      <4>3. [a \in DOMAIN Body[i].args |-> other[Body[i].args[a]]]
              = [a \in DOMAIN Body[i].args |-> value[Body[i].args[a]]]
        BY <4>2
      <4>4. Valued(other, i) = Valued(value, i)
        BY <4>3, Zenon DEF Valued
      <4>5. QED
        BY <4>1, <4>4
    <3>3. other = [i \in 1 .. k + 1 |-> other[i]]
      OBVIOUS
    <3> HIDE DEF other
    <3>4. Evaluates(other, k + 1)
      BY <3>2, <3>3, Zenon DEF Evaluates, Valued
    <3>5. QED
      BY <3>4
  <2>3. QED
    BY <1>1, <2>1, <2>2
<1>5. T = Nat
  <2> HIDE DEF T
  <2>1. T \in SUBSET Nat
    BY DEF T
  <2>2. QED
    BY <1>3, <1>4, <2>1, NatInd
<1>6. \E value : Evaluates(value, n)
  BY <1>1, <1>5
<1>7. Evaluates(Value, n)
  BY <1>1, <1>6, ValueIsChosen
<1>8. QED
  BY <1>7, Zenon DEF Evaluates, Valued

(* What CONST writes: constants are not empty, so no two are stored at the same place. *)
LEMMA ConstantIs ==
  ASSUME Called, NEW i \in 1 .. Len(Body), IsKept(i), Body[i].op = "constant",
         NEW offset, offset = RodataOffset(Source, Position(i)), NEW size, size = Size(Body[i])
  PROVE  /\ ~OutsideRodata(offset, size) /\ offset \in Nat /\ size \in Nat
         /\ Literal(call.module, offset, size) = Value[i]
<1> DEFINE v == Position(i)
           C == StoredConstants(Source)
           found == {u \in C : RodataOffset(Source, u) = offset /\ Size(OperationAt(Source, u)) = size}
<1>1. call \in Calls /\ Source \in SourceType /\ M.rodata = RodataSize(Source, C) /\ call.module \in Modules
  BY SectionsAre DEF Called
<1>2. v \in C
  BY OpIs
<1>3. size \in Nat \ {0}
  <2>1. size \in 1 .. SizeLimit - 1
    BY ShapeIs
  <2>2. QED
    BY <2>1
<1>4. Size(OperationAt(Source, v)) = size
  <2>1. OperationAt(Source, v) = CallOf(Body[i], PrimIndex(Graph, <<Function, i>>))
    BY EntryIs
  <2>2. QED
    BY <2>1 DEF CallOf, Size
<1>5. ASSUME NEW u \in C
      PROVE  /\ RodataOffset(Source, u) \in Nat
             /\ RodataOffset(Source, u) + Size(OperationAt(Source, u)) <= M.rodata /\ M.rodata \in Nat
             /\ Size(OperationAt(Source, u)) \in Nat
  BY <1>1, RodataApart
<1>6. offset \in Nat /\ offset + size <= M.rodata /\ M.rodata \in Nat
  BY <1>2, <1>4, <1>5
<1>7. found = {v}
  <2>1. ASSUME NEW u \in found PROVE u = v
    <3>1. u \in C /\ RodataOffset(Source, u) = offset /\ Size(OperationAt(Source, u)) = size
      OBVIOUS
    <3>2. C \subseteq Positions(Source.funcs)
      BY DEF StoredConstants
    <3>3. /\ u = <<u[1], u[2]>> /\ u[1] \in 1 .. Len(Source.funcs) /\ u[2] \in 1 .. Len(Source.funcs[u[1]].body)
          /\ Source.funcs \in Seq(FunctionType) /\ Source.funcs[u[1]].body \in Seq(OperationType)
      BY <1>1, <3>1, <3>2, PositionIs
    <3>4. /\ v = <<v[1], v[2]>> /\ v[1] \in 1 .. Len(Source.funcs) /\ v[2] \in 1 .. Len(Source.funcs[v[1]].body)
          /\ Source.funcs \in Seq(FunctionType) /\ Source.funcs[v[1]].body \in Seq(OperationType)
      BY <1>1, <1>2, <3>2, PositionIs
    <3>5. u[1] \in Nat /\ u[2] \in Nat /\ v[1] \in Nat /\ v[2] \in Nat
      BY <3>3, <3>4
    <3> HIDE DEF v
    <3>6. ~Before(u, v) /\ ~Before(v, u)
      <4>1. Before(u, v) => RodataOffset(Source, u) + Size(OperationAt(Source, u)) <= RodataOffset(Source, v)
        BY <1>1, <1>2, <3>1, RodataApart
      <4>2. Before(v, u) => RodataOffset(Source, v) + Size(OperationAt(Source, v)) <= RodataOffset(Source, u)
        BY <1>1, <1>2, <3>1, RodataApart
      <4>3. RodataOffset(Source, v) = offset
        BY DEF v
      <4>4. QED
        BY <1>3, <1>4, <1>6, <3>1, <4>1, <4>2, <4>3
    <3>7. u[1] = v[1] /\ u[2] = v[2]
      BY <3>5, <3>6 DEF Before
    <3>8. QED
      BY <3>3, <3>4, <3>7
  <2>2. v \in found
    BY <1>2, <1>4
  <2>3. QED
    BY <2>1, <2>2
<1>8. Literal(call.module, offset, size) = LiteralFor(call.module, offset, size)
  <2>1. M = Sections(call.module)
    BY DEF M
  <2>2. offset \in 0 .. M.rodata /\ size \in 0 .. M.rodata
    BY <1>3, <1>6
  <2>3. QED
    BY <1>1, <2>1, <2>2, CompiledAssumption
<1>9. LiteralFor(call.module, offset, size) = ValueAt(Function, i)
  <2>1. LiteralFor(call.module, offset, size) =
          IF found = {} THEN Zero
          ELSE LET u == CHOOSE u \in found : TRUE IN ValueAt(Walked(call.module.graph)[u[1]], u[2])
    BY Zenon DEF LiteralFor, Source
  <2>2. (CHOOSE u \in found : TRUE) = v
    <3> HIDE DEF found, v
    <3>1. QED
      BY <1>7
  <2>3. v[1] = EntryAt /\ v[2] = i
    BY DEF Position
  <2>4. Walked(call.module.graph)[EntryAt] = Function
    BY Zenon DEF Function, Graph
  <2>5. found # {}
    BY <1>7
  <2> HIDE DEF found, v
  <2>6. QED
    BY <2>1, <2>2, <2>3, <2>4, <2>5
<1>10. Value[i] = ValueAt(Function, i)
  <2>1. Value[i] = Valued(Value, i)
    BY ValueIs
  <2>2. KernelOf(Body[i].op) \notin KernelKinds
    BY DEF KernelOf, KernelKinds
  <2>3. QED
    BY <2>1, <2>2, Zenon DEF Valued
<1>11. ~OutsideRodata(offset, size)
  BY <1>3, <1>6 DEF OutsideRodata
<1>12. QED
  BY <1>3, <1>6, <1>8, <1>9, <1>10, <1>11

(* Where the commands of an operation are in the program. *)
LEMMA LiesAt ==
  ASSUME Called, NEW k \in 0 .. Len(Body) - 1, NEW c, c = CommandsOf(Source, Position(k + 1)),
         \A j \in 1 .. Len(c) : c[j].kind # "truncated"
  PROVE  /\ Place(k) \in Nat /\ Place(k + 1) = Place(k) + Len(c)
         /\ \A j \in 1 .. Len(c) : InProgram(call, Place(k) + j - 1) /\ CommandAt(call, Place(k) + j - 1) = c[j]
<1> DEFINE n == Len(Source.funcs[EntryAt].body)
           P == M.commands
<1>1. call \in Calls
  BY DEF Called
<1>2. Source \in SourceType /\ P = FuncsUpTo(Source, Len(Source.funcs))
  BY <1>1, SectionsAre
<1>3. EntryAt \in DOMAIN Source.funcs /\ n = Len(Body) /\ Len(Body) \in Nat
  BY EntryIs
<1>4. P \in Seq(Emits(Source)) /\ Place(k) \in Nat /\ Place(k + 1) = Place(k) + Len(c)
      /\ \A j \in 1 .. Len(c) : Place(k) + j \in 1 .. Len(P) /\ P[Place(k) + j] = c[j]
  <2> HIDE DEF P, n
  <2>1. /\ P \in Seq(Emits(Source)) /\ PlaceOf(Source, EntryAt, k) \in Nat
        /\ PlaceOf(Source, EntryAt, k + 1)
             = PlaceOf(Source, EntryAt, k) + Len(CommandsOf(Source, <<EntryAt, k + 1>>))
        /\ \A j \in 1 .. Len(CommandsOf(Source, <<EntryAt, k + 1>>)) :
             /\ PlaceOf(Source, EntryAt, k) + j \in 1 .. Len(P)
             /\ P[PlaceOf(Source, EntryAt, k) + j] = CommandsOf(Source, <<EntryAt, k + 1>>)[j]
    <3>1. k \in 0 .. n /\ k \in 0 .. n - 1
      BY <1>3
    <3>2. PICK f \in DOMAIN Source.funcs : f = EntryAt
      BY <1>3
    <3>3. n = Len(Source.funcs[f].body)
      BY <3>2 DEF n
    <3>4. P \in Seq(Emits(Source))
      BY <1>2, <3>2, CommandPlaces
    <3>5. PlaceOf(Source, f, k) \in Nat
      BY <1>2, <3>1, <3>2, <3>3, CommandPlaces
    <3>6. PlaceOf(Source, f, k + 1) = PlaceOf(Source, f, k) + Len(CommandsOf(Source, <<f, k + 1>>))
      BY <1>2, <3>1, <3>2, <3>3, CommandPlaces
    <3>7. LieAt(P, PlaceOf(Source, f, k), CommandsOf(Source, <<f, k + 1>>))
      BY <1>2, <3>1, <3>2, <3>3, CommandPlaces
    <3>8. QED
      BY <3>2, <3>4, <3>5, <3>6, <3>7 DEF LieAt
  <2>2. c = CommandsOf(Source, <<EntryAt, k + 1>>)
    BY DEF Position
  <2>3. QED
    BY <2>1, <2>2 DEF Place
<1>5. ASSUME NEW j \in 1 .. Len(c)
      PROVE  InProgram(call, Place(k) + j - 1) /\ CommandAt(call, Place(k) + j - 1) = c[j]
  <2>1. PICK p \in Nat : p = Place(k)
    BY <1>4
  <2>2. Len(P) \in Nat
    BY <1>4
  <2>3. p + j \in 1 .. Len(P) /\ P[p + j] = c[j]
    BY <1>4, <2>1
  <2>4. (p + j - 1) + 1 = p + j /\ p + j - 1 < Len(P)
    BY <2>2, <2>3
  <2>5. c[j] # Truncated
    BY DEF Truncated
  <2>6. P = Sections(call.module).commands
    BY DEF M
  <2> HIDE DEF P
  <2>7. QED
    BY <2>1, <2>3, <2>4, <2>5, <2>6 DEF InProgram, CommandAt
<1>6. QED
  BY <1>4, <1>5

(* The commands of the last op are followed by END, and the first are at the entry. *)
LEMMA EndLies ==
  ASSUME Called
  PROVE  /\ InProgram(call, Place(Len(Body))) /\ CommandAt(call, Place(Len(Body))) = EndCommand
         /\ Place(0) = EntryOffset(call)
         /\ \A k \in 0 .. Len(Body) : Place(k) \in Nat
<1> DEFINE n == Len(Source.funcs[EntryAt].body)
           P == M.commands
<1>1. call \in Calls
  BY DEF Called
<1>2. Source \in SourceType /\ P = FuncsUpTo(Source, Len(Source.funcs))
  BY <1>1, SectionsAre
<1>3. /\ EntryAt \in DOMAIN Source.funcs /\ n = Len(Body) /\ Len(Body) \in Nat
      /\ EntryOffset(call) = FunctionOffset(Source, EntryAt)
  BY EntryIs
<1>4. /\ P \in Seq(Emits(Source)) /\ \A k \in 0 .. n : Place(k) \in Nat
      /\ Place(0) = FunctionOffset(Source, EntryAt)
      /\ Place(n) + 1 \in 1 .. Len(P) /\ P[Place(n) + 1] = EndCommand
  <2> HIDE DEF P
  <2>1. QED
    BY <1>2, <1>3, CommandPlaces DEF Place
<1>5. PICK p \in Nat : p = Place(n)
  BY <1>3, <1>4
<1>6. Len(P) \in Nat
  BY <1>4
<1>7. P = Sections(call.module).commands
  BY DEF M
<1>8. EndCommand # Truncated
  BY DEF EndCommand, Truncated
<1> HIDE DEF P, n
<1>9. p < Len(P) /\ P[p + 1] = EndCommand
  BY <1>4, <1>5, <1>6
<1>10. QED
  BY <1>3, <1>4, <1>5, <1>7, <1>8, <1>9 DEF InProgram, CommandAt

(* The next command is c. *)
At(p, c) == InProgram(call, p) /\ CommandAt(call, p) = c

DispatchOps(i) ==
  <<PrimIndex(Graph, <<Function, i>>) - 1, Len(Body[i].args) + 1>>
  \o [a \in DOMAIN Body[i].args |-> SlotAt(Body[i].args[a])] \o <<SlotAt(i)>>
Emitting(i) == IsKept(i) \/ Body[i].op = "print"

(* The commands of op k + 1. *)
LEMMA CommandIs ==
  ASSUME Called, NEW k \in 0 .. Len(Body) - 1, NEW i, i = k + 1
  PROVE  /\ i \in 1 .. Len(Body)
         /\ Body[i].op = "constant" /\ IsKept(i) =>
              /\ At(Place(k), [kind |-> "CONST",
                               ops |-> <<SlotAt(i), RodataOffset(Source, Position(i)), Size(Body[i])>>])
              /\ Place(i) = Place(k) + 1
         /\ IsCompute(i) =>
              /\ At(Place(k), [kind |-> "ALLOC", ops |-> <<SlotAt(i), Size(Body[i])>>])
              /\ At(Place(k) + 1, [kind |-> "DISPATCH", ops |-> DispatchOps(i)])
              /\ Place(i) = Place(k) + 2
         /\ Body[i].op = "print" =>
              /\ At(Place(k), [kind |-> "PRINT",
                               ops |-> <<SlotAt(Body[i].args[1]), Body[i].rows, Body[i].cols>>])
              /\ Place(i) = Place(k) + 1
         /\ ~Emitting(i) => Place(i) = Place(k)
<1> DEFINE c == CommandsOf(Source, Position(k + 1))
           v == Position(i)
           o == Body[i]
           t == CallOf(o, PrimIndex(Graph, <<Function, i>>))
<1>1. i \in 1 .. Len(Body) /\ k \in Nat /\ i \in Nat
  BY EntryIs
<1>2. call \in Calls /\ Source \in SourceType
  BY SectionsAre DEF Called
<1>3. v \in Positions(Source.funcs) /\ OperationAt(Source, v) = t
  BY <1>1, EntryIs
<1>4. /\ v \in StoredConstants(Source) <=> o.op = "constant" /\ IsKept(i)
      /\ o.op \in ComputeOps \cup {"constant", "print", "return"}
      /\ o.op \in ComputeOps => IsKept(i)
      /\ IsKept(i) => o.op \in ComputeOps \cup {"constant"}
      /\ o.args \in Seq(Nat)
  BY <1>1, OpIs
<1>5. /\ t.op = IF o.op \in ComputeOps THEN "call_tir" ELSE o.op
      /\ t.args = o.args /\ t.rows = o.rows /\ t.cols = o.cols /\ Size(t) = Size(o)
      /\ t.callee = PrimIndex(Graph, <<Function, i>>)
  BY <1>4 DEF CallOf, Size
<1>6. /\ v \in StoredConstants(Source) =>
           c = <<[kind |-> "CONST", ops |-> <<Slot(Source, v), RodataOffset(Source, v), Size(t)>>]>>
      /\ t.op = "call_tir" =>
           c = <<[kind |-> "ALLOC", ops |-> <<Slot(Source, v), Size(t)>>],
                 [kind |-> "DISPATCH",
                  ops |-> <<t.callee - 1, Len(t.args) + 1>>
                          \o [a \in DOMAIN t.args |-> Slot(Source, <<v[1], t.args[a]>>)] \o <<Slot(Source, v)>>]>>
      /\ t.op = "print" =>
           c = <<[kind |-> "PRINT", ops |-> <<Slot(Source, <<v[1], t.args[1]>>), t.rows, t.cols>>]>>
      /\ v \notin StoredConstants(Source) /\ t.op \notin {"call_tir", "print"} => c = <<>>
  <2> HIDE DEF t
  <2>1. c = CommandsOf(Source, v)
    BY <1>1
  <2> HIDE DEF v, c
  <2>2. QED
    BY <1>2, <1>3, <2>1, CommandsByKind
<1>7. v[1] = EntryAt /\ SlotAt(i) = Slot(Source, v) /\ \A j : SlotAt(j) = Slot(Source, <<v[1], j>>)
  BY DEF Position, SlotAt
<1>8. CASE o.op = "constant" /\ IsKept(i)
  <2> DEFINE d == [kind |-> "CONST", ops |-> <<SlotAt(i), RodataOffset(Source, Position(i)), Size(Body[i])>>]
  <2>1. c = <<d>>
    BY <1>4, <1>5, <1>6, <1>7, <1>8
  <2>2. Len(c) = 1 /\ c[1] = d /\ d.kind = "CONST"
    BY <2>1
  <2>3. Place(k) \in Nat /\ Place(k + 1) = Place(k) + Len(c)
        /\ \A j \in 1 .. Len(c) : InProgram(call, Place(k) + j - 1) /\ CommandAt(call, Place(k) + j - 1) = c[j]
    <3> HIDE DEF d
    <3>1. \A j \in 1 .. Len(c) : c[j].kind # "truncated"
      BY <2>2
    <3> HIDE DEF c
    <3>2. QED
      BY <3>1, LiesAt DEF c
  <2>4. Place(k) + 1 - 1 = Place(k)
    BY <2>3
  <2> HIDE DEF c, d
  <2>5. At(Place(k), d) /\ Place(i) = Place(k) + 1
    BY <2>2, <2>3, <2>4 DEF At
  <2>6. o.op \notin ComputeOps /\ o.op # "print"
    BY <1>8 DEF ComputeOps
  <2>7. QED
    BY <1>1, <1>8, <2>5, <2>6 DEF Emitting, IsCompute, d
<1>9. CASE o.op \in ComputeOps
  <2> DEFINE d == [kind |-> "ALLOC", ops |-> <<SlotAt(i), Size(Body[i])>>]
             e == [kind |-> "DISPATCH", ops |-> DispatchOps(i)]
  <2>1. c = <<d, e>>
    <3>1. [a \in DOMAIN t.args |-> Slot(Source, <<v[1], t.args[a]>>)]
            = [a \in DOMAIN o.args |-> SlotAt(o.args[a])]
      BY <1>5, <1>7
    <3>2. c = <<[kind |-> "ALLOC", ops |-> <<Slot(Source, v), Size(t)>>],
                [kind |-> "DISPATCH",
                 ops |-> <<t.callee - 1, Len(t.args) + 1>>
                         \o [a \in DOMAIN t.args |-> Slot(Source, <<v[1], t.args[a]>>)] \o <<Slot(Source, v)>>]>>
      BY <1>5, <1>6, <1>9
    <3> HIDE DEF c, t, v
    <3>3. QED
      BY ONLY <1>5, <1>7, <3>1, <3>2, Zenon DEF DispatchOps
  <2>2. Len(c) = 2 /\ c[1] = d /\ c[2] = e /\ d.kind = "ALLOC" /\ e.kind = "DISPATCH"
    BY <2>1
  <2>3. Place(k) \in Nat /\ Place(k + 1) = Place(k) + Len(c)
        /\ \A j \in 1 .. Len(c) : InProgram(call, Place(k) + j - 1) /\ CommandAt(call, Place(k) + j - 1) = c[j]
    <3> HIDE DEF d, e
    <3>1. \A j \in 1 .. Len(c) : c[j].kind # "truncated"
      BY <2>2
    <3> HIDE DEF c
    <3>2. QED
      BY <3>1, LiesAt DEF c
  <2>4. Place(k) + 1 - 1 = Place(k) /\ Place(k) + 2 - 1 = Place(k) + 1
    BY <2>3
  <2> HIDE DEF c, d, e
  <2>5. At(Place(k), d) /\ At(Place(k) + 1, e) /\ Place(i) = Place(k) + 2
    BY <2>2, <2>3, <2>4 DEF At
  <2>6. o.op \notin {"constant", "print"} /\ IsKept(i)
    BY <1>4, <1>9 DEF ComputeOps
  <2>7. QED
    BY <1>1, <2>5, <2>6 DEF Emitting, d, e
<1>10. CASE o.op = "print"
  <2> DEFINE d == [kind |-> "PRINT", ops |-> <<SlotAt(Body[i].args[1]), Body[i].rows, Body[i].cols>>]
  <2>1. c = <<d>>
    BY <1>4, <1>5, <1>6, <1>7, <1>10 DEF ComputeOps
  <2>2. Len(c) = 1 /\ c[1] = d /\ d.kind = "PRINT"
    BY <2>1
  <2>3. Place(k) \in Nat /\ Place(k + 1) = Place(k) + Len(c)
        /\ \A j \in 1 .. Len(c) : InProgram(call, Place(k) + j - 1) /\ CommandAt(call, Place(k) + j - 1) = c[j]
    <3> HIDE DEF d
    <3>1. \A j \in 1 .. Len(c) : c[j].kind # "truncated"
      BY <2>2
    <3> HIDE DEF c
    <3>2. QED
      BY <3>1, LiesAt DEF c
  <2>4. Place(k) + 1 - 1 = Place(k)
    BY <2>3
  <2> HIDE DEF c, d
  <2>5. At(Place(k), d) /\ Place(i) = Place(k) + 1
    BY <2>2, <2>3, <2>4 DEF At
  <2>6. o.op \notin ComputeOps /\ o.op # "constant"
    BY <1>10 DEF ComputeOps
  <2>7. QED
    BY <1>1, <1>10, <2>5, <2>6 DEF Emitting, IsCompute, d
<1>11. CASE ~Emitting(i)
  <2>1. c = <<>>
    BY <1>4, <1>5, <1>6, <1>11 DEF Emitting
  <2>2. Len(c) = 0 /\ \A j \in 1 .. Len(c) : c[j].kind # "truncated"
    BY <2>1
  <2> HIDE DEF c
  <2>3. Place(k) \in Nat /\ Place(k + 1) = Place(k) + Len(c)
    BY <2>2, LiesAt DEF c
  <2>4. Place(i) = Place(k)
    BY <2>2, <2>3
  <2>5. o.op \notin ComputeOps /\ o.op # "print" /\ ~IsKept(i)
    BY <1>4, <1>11 DEF Emitting
  <2>6. QED
    BY <1>1, <2>4, <2>5 DEF IsCompute
<1>12. QED
  <2>1. \/ (o.op = "constant" /\ IsKept(i)) \/ o.op \in ComputeOps \/ o.op = "print" \/ ~Emitting(i)
    BY <1>4 DEF Emitting
  <2>2. QED
    BY ONLY <2>1, <1>8, <1>9, <1>10, <1>11

(* The operands of the DISPATCH of an op. *)
LEMMA OperandsOf ==
  ASSUME Called, NEW i \in 1 .. Len(Body), IsCompute(i)
  PROVE  /\ DispatchOps(i) \in Seq(Nat) /\ Len(Body[i].args) \in {1, 2}
         /\ DOMAIN Body[i].args = 1 .. Len(Body[i].args) /\ Len(DispatchOps(i)) = Len(Body[i].args) + 3
         /\ DispatchOps(i)[1] = PrimIndex(Graph, <<Function, i>>) - 1
         /\ DispatchOps(i)[2] = Len(Body[i].args) + 1
         /\ \A a \in 1 .. Len(Body[i].args) : DispatchOps(i)[a + 2] = SlotAt(Body[i].args[a])
         /\ DispatchOps(i)[Len(Body[i].args) + 3] = SlotAt(i)
         /\ PrimIndex(Graph, <<Function, i>>) \in 1 .. Cardinality(Compute(Graph))
         /\ Cardinality(Compute(Graph)) \in Nat
         /\ <<Function, i>> \in Compute(Graph)
<1>0. PICK ops, args, n : ops = DispatchOps(i) /\ args = Body[i].args /\ n = Len(args)
  OBVIOUS
<1> DEFINE p == PrimIndex(Graph, <<Function, i>>)
           slot == [a \in DOMAIN args |-> SlotAt(args[a])]
<1>1. PICK m \in Modules : m = call.module
  BY DEF Called, Calls
<1>2. Graph = m.graph /\ Source = LoweredOf(m)
  BY <1>1 DEF Graph, Source
<1>3. <<Function, i>> \in Positions(Graph) /\ OpAt(Graph, <<Function, i>>) = Body[i]
  BY EntryIs
<1>4. <<Function, i>> \in Compute(Graph)
  BY <1>3 DEF Compute, IsCompute
<1>5. p \in 1 .. Cardinality(Compute(Graph))
  BY <1>2, <1>4, PrimIndexIs
<1>6. Cardinality(Compute(Graph)) \in Nat
  <2>1. IsFiniteSet(Positions(Graph)) /\ Compute(Graph) \in SUBSET Positions(Graph)
    BY <1>2, GraphPosition
  <2>2. QED
    BY <2>1, FS_Subset, FS_CardinalityType
<1>7. /\ args \in Seq(Nat)
      /\ \A a \in DOMAIN args : args[a] \in 1 .. i - 1 /\ IsKept(args[a])
      /\ Body[i].op \in {"linear", "add"} => Len(args) = 2
      /\ Body[i].op \in {"relu", "print"} => Len(args) = 1
      /\ IsKept(i)
  BY <1>0, OpIs DEF IsCompute
<1>8. n \in {1, 2} /\ DOMAIN args = 1 .. n
  BY <1>0, <1>7 DEF IsCompute, ComputeOps
<1>9. slot \in Seq(Nat) /\ Len(slot) = n /\ \A a \in 1 .. n : slot[a] = SlotAt(args[a])
  <2>1. \A a \in 1 .. n : SlotAt(args[a]) \in Nat
    BY <1>7, <1>8, KeptSlots
  <2>2. slot = [a \in 1 .. n |-> SlotAt(args[a])]
    BY <1>8
  <2> HIDE DEF slot
  <2>3. QED
    BY <1>8, <2>1, <2>2
<1>10. SlotAt(i) \in Nat
  BY <1>7, KeptSlots
<1> HIDE DEF slot, p
<1>11. ops = <<p - 1, n + 1>> \o slot \o <<SlotAt(i)>>
  BY <1>0 DEF DispatchOps, slot, p
<1>12. \E x, y \in Nat : x = p - 1 /\ y = n + 1
  <2>1. p - 1 \in Nat /\ n + 1 \in Nat
    BY <1>5, <1>6, <1>8
  <2>2. QED
    BY <2>1
<1>13. PICK x \in Nat, y \in Nat, z \in Nat : x = p - 1 /\ y = n + 1 /\ z = SlotAt(i)
  BY <1>10, <1>12
<1>14. PICK head \in Seq(Nat), tail \in Seq(Nat), middle \in Seq(Nat) :
         /\ head = <<x, y>> /\ Len(head) = 2 /\ head[1] = x /\ head[2] = y
         /\ tail = <<z>> /\ Len(tail) = 1 /\ tail[1] = z
         /\ middle = slot
  <2>1. /\ <<x, y>> \in Seq(Nat) /\ Len(<<x, y>>) = 2 /\ <<x, y>>[1] = x /\ <<x, y>>[2] = y
        /\ <<z>> \in Seq(Nat) /\ Len(<<z>>) = 1 /\ <<z>>[1] = z
    OBVIOUS
  <2>2. QED
    BY ONLY <1>9, <2>1, Zenon
<1>a. PICK front \in Seq(Nat) : front = head \o middle /\ Len(front) = Len(head) + Len(middle)
      /\ (\A a \in 1 .. Len(head) : front[a] = head[a])
      /\ \A a \in 1 .. Len(middle) : front[Len(head) + a] = middle[a]
  <2>1. /\ head \o middle \in Seq(Nat) /\ Len(head \o middle) = Len(head) + Len(middle)
        /\ \A a \in 1 .. Len(head) : (head \o middle)[a] = head[a]
        /\ \A a \in 1 .. Len(middle) : (head \o middle)[Len(head) + a] = middle[a]
    BY Concatenation
  <2>2. QED
    BY ONLY <2>1, Zenon
<1>15. ops = front \o tail
  BY <1>11, <1>13, <1>14, <1>a
<1>b. /\ front \o tail \in Seq(Nat) /\ Len(front \o tail) = Len(front) + Len(tail)
      /\ \A a \in 1 .. Len(front) : (front \o tail)[a] = front[a]
      /\ \A a \in 1 .. Len(tail) : (front \o tail)[Len(front) + a] = tail[a]
  BY Concatenation
<1>16. /\ ops \in Seq(Nat) /\ Len(front) = 2 + n /\ Len(ops) = 2 + n + 1
       /\ (\A a \in 1 .. 2 + n : ops[a] = front[a]) /\ ops[2 + n + 1] = z
       /\ front[1] = x /\ front[2] = y /\ \A a \in 1 .. n : front[2 + a] = slot[a]
  BY ONLY SMTT(30), <1>8, <1>9, <1>14, <1>15, <1>a, <1>b
<1>17. ops[1] = p - 1 /\ ops[2] = n + 1
  BY ONLY SMTT(30), <1>8, <1>13, <1>16
<1>18. ASSUME NEW a \in 1 .. n PROVE ops[a + 2] = SlotAt(args[a])
  <2>1. a + 2 = 2 + a /\ a + 2 \in 1 .. 2 + n
    BY <1>8
  <2>2. QED
    BY SMTT(30), <1>9, <1>16, <2>1
<1>19. ops[n + 3] = SlotAt(i) /\ Len(ops) = n + 3
  <2>1. 2 + n + 1 = n + 3
    BY <1>8
  <2>2. QED
    BY <1>13, <1>16, <2>1
<1>20. QED
  BY <1>0, <1>4, <1>5, <1>6, <1>8, <1>16, <1>17, <1>18, <1>19 DEF p

(* The executable it names. *)
LEMMA ExecutableOf ==
  ASSUME Called, NEW i \in 1 .. Len(Body), IsCompute(i), NEW ops, ops = DispatchOps(i),
         NEW o, o = Body[i], NEW e, e = ExeOf(call, ops)
  PROVE  /\ WellFormedDispatch(call, ops)
         /\ e.kind = KernelOf(o.op) /\ e.kind \in KernelKinds /\ Arity(e.kind) = Len(o.args) + 1
         /\ e.kind = "matmul" <=> o.op = "linear"
         /\ e.device = RunsOn(i) /\ e.m = o.rows /\ e.n = o.cols
         /\ o.op = "linear" => e.k = Body[o.args[1]].cols
         /\ e.image = IF call.module.compiled /\ DeviceFor(i) = "cuda" THEN "inside" ELSE "none"
<1> DEFINE v == <<Function, i>>
           p == PrimIndex(Graph, v)
           prims == Source.prims
<1>1. PICK m \in Modules : m = call.module
  BY DEF Called, Calls
<1>2. Graph = m.graph /\ Source = LoweredOf(m)
  BY <1>1 DEF Graph, Source
<1>3. /\ v \in Compute(Graph) /\ Len(ops) = Len(o.args) + 3 /\ ops[1] = p - 1 /\ ops[2] = Len(o.args) + 1
      /\ p \in 1 .. Cardinality(Compute(Graph)) /\ Cardinality(Compute(Graph)) \in Nat
      /\ Len(o.args) \in {1, 2}
  BY OperandsOf
<1>4. /\ DOMAIN prims = 1 .. Cardinality(Compute(Graph)) /\ Len(prims) = Cardinality(Compute(Graph))
      /\ p \in DOMAIN prims
      /\ prims[p] = PrimOf(Graph, v, Placement(Options, OpAt(Graph, v)))
  <2>1. PICK g, list : g = m.graph /\ list = LoweredOf(m).prims
    OBVIOUS
  <2>2. /\ list \in Seq(PrimType) /\ DOMAIN list = 1 .. Cardinality(Compute(g))
        /\ Len(list) = Cardinality(Compute(g))
        /\ \A w \in Compute(g) :
             /\ PrimIndex(g, w) \in DOMAIN list
             /\ list[PrimIndex(g, w)] = PrimOf(g, w, Placement(Options, OpAt(g, w)))
    BY ONLY m \in Modules, <2>1, LoweredPrims, ZenonT(30)
  <2>3. g = Graph /\ list = prims
    BY ONLY <1>2, <2>1, Zenon
  <2>4. v \in Compute(Graph)
    BY <1>3
  <2>5. QED
    BY ONLY <2>2, <2>3, <2>4, Zenon
<1>5. OpAt(Graph, v) = o /\ v[1] = Function
  BY EntryIs
<1>6. ExesOf(call) = [q \in DOMAIN prims |-> Executable(prims[q], q \in Images)]
  BY SectionsAre DEF Called
<1>7. Len(ExesOf(call)) = Cardinality(Compute(Graph))
  <2>1. ExesOf(call) = [q \in 1 .. Cardinality(Compute(Graph)) |-> Executable(prims[q], q \in Images)]
    BY <1>4, <1>6
  <2> HIDE DEF prims
  <2>2. QED
    BY <1>3, <2>1
<1>8. o.op \in ComputeOps
  BY DEF IsCompute
<1>9. /\ o.op \in {"linear", "add"} => Len(o.args) = 2
      /\ o.op \in {"relu", "print"} => Len(o.args) = 1
  BY OpIs
<1>10. WellFormedDispatch(call, ops)
  <2>1. PICK q \in Nat : q = p /\ q >= 1 /\ q <= Cardinality(Compute(Graph))
    BY <1>3
  <2>2. ops[1] < Len(ExesOf(call))
    BY <1>3, <1>7, <2>1
  <2> HIDE DEF p, v
  <2>3. QED
    BY ONLY <1>3, <2>2 DEF WellFormedDispatch
<1>11. e = Executable(prims[p], p \in Images)
  <2>1. p - 1 + 1 = p
    BY <1>3
  <2> HIDE DEF prims, p
  <2>2. QED
    BY <1>3, <1>4, <1>6, <2>1 DEF ExeOf
<1>12. /\ prims[p].kernel = KernelOf(o.op) /\ prims[p].device = DeviceFor(i)
       /\ prims[p].m = o.rows /\ prims[p].n = o.cols
       /\ o.op = "linear" => prims[p].k = Body[o.args[1]].cols
  <2>1. OpAt(Graph, <<v[1], o.args[1]>>) = Body[o.args[1]]
    BY DEF OpAt, Body
  <2>2. PrimOf(Graph, v, DeviceFor(i)) =
          [kernel |-> KernelOf(o.op), device |-> DeviceFor(i), rank2 |-> TRUE, m |-> o.rows, n |-> o.cols,
           k |-> IF o.op = "linear" THEN Body[o.args[1]].cols ELSE 0]
    <3> HIDE DEF v
    <3>1. QED
      BY <1>5, <2>1 DEF PrimOf
  <2>3. prims[p] = PrimOf(Graph, v, DeviceFor(i))
    BY <1>4, <1>5 DEF DeviceFor
  <2> HIDE DEF prims, p, v
  <2>4. QED
    BY <2>2, <2>3
<1>13. KernelOf(o.op) = (IF o.op = "linear" THEN "matmul" ELSE o.op)
  BY DEF KernelOf
<1>14. p \in Images <=> call.module.compiled /\ DeviceFor(i) = "cuda"
  <2>1. CudaPrims(call.module) = {q \in DOMAIN prims : prims[q].device = "cuda"}
    BY DEF CudaPrims, Source
  <2> HIDE DEF prims, p
  <2>2. QED
    BY <1>4, <1>12, <2>1 DEF Images
<1> HIDE DEF prims, p, v
<1>15. PICK pr : pr = prims[p]
  OBVIOUS
<1>16. PICK inside \in BOOLEAN : inside <=> p \in Images
  <2>1. (p \in Images) \in BOOLEAN
    OBVIOUS
  <2>2. QED
    BY <2>1, Zenon
<1>17. e = [kind |-> IF pr.kernel \in {"matmul", "add"} THEN pr.kernel ELSE "relu",
            device |-> IF pr.device = "cuda" THEN "cuda" ELSE "cpu",
            m |-> pr.m % ExtentLimit, n |-> pr.n % ExtentLimit,
            k |-> IF pr.kernel = "matmul" THEN pr.k % ExtentLimit ELSE 0,
            image |-> IF inside THEN "inside" ELSE "none"]
  BY <1>11, <1>15, <1>16 DEF Executable
<1>18. /\ e.kind = (IF pr.kernel \in {"matmul", "add"} THEN pr.kernel ELSE "relu")
       /\ e.device = (IF pr.device = "cuda" THEN "cuda" ELSE "cpu")
       /\ e.m = pr.m % ExtentLimit /\ e.n = pr.n % ExtentLimit
       /\ e.k = (IF pr.kernel = "matmul" THEN pr.k % ExtentLimit ELSE 0)
       /\ e.image = (IF inside THEN "inside" ELSE "none")
  BY ONLY <1>17
<1>19. pr.kernel \in KernelKinds /\ pr.kernel = KernelOf(o.op) /\ (pr.kernel = "matmul" <=> o.op = "linear")
  BY <1>8, <1>12, <1>13, <1>15 DEF ComputeOps, KernelKinds
<1>20. /\ e.kind = KernelOf(o.op) /\ e.kind \in KernelKinds /\ (e.kind = "matmul" <=> o.op = "linear")
  BY <1>18, <1>19 DEF KernelKinds
<1>21. Arity(e.kind) = Len(o.args) + 1
  <2>1. CASE o.op = "linear"
    <3>1. Len(o.args) = 2
      BY ONLY <1>9, <2>1
    <3>2. e.kind = "matmul"
      BY ONLY <1>13, <1>20, <2>1
    <3>3. Arity(e.kind) = 3
      BY ONLY <3>2 DEF Arity
    <3>4. QED
      BY ONLY <3>1, <3>3
  <2>2. CASE o.op = "add"
    <3>1. Len(o.args) = 2
      BY ONLY <1>9, <2>2
    <3>2. e.kind = "add"
      BY ONLY <1>13, <1>20, <2>2
    <3>3. Arity(e.kind) = 3
      BY ONLY <3>2 DEF Arity
    <3>4. QED
      BY ONLY <3>1, <3>3
  <2>3. CASE o.op = "relu"
    <3>1. Len(o.args) = 1
      BY ONLY <1>9, <2>3
    <3>2. e.kind = "relu"
      BY ONLY <1>13, <1>20, <2>3
    <3>3. Arity(e.kind) = 2
      BY ONLY <3>2 DEF Arity
    <3>4. QED
      BY ONLY <3>1, <3>3
  <2>4. QED
    BY <1>8, <2>1, <2>2, <2>3 DEF ComputeOps
<1>22. /\ e.device = RunsOn(i) /\ e.m = o.rows /\ e.n = o.cols
       /\ o.op = "linear" => e.k = Body[o.args[1]].cols
       /\ e.image = IF call.module.compiled /\ DeviceFor(i) = "cuda" THEN "inside" ELSE "none"
  <2>1. e.device = RunsOn(i)
    BY <1>12, <1>15, <1>18 DEF RunsOn
  <2>2. e.m = o.rows /\ e.n = o.cols
    <3>1. o.rows % ExtentLimit = o.rows /\ o.cols % ExtentLimit = o.cols
      BY <1>8, OpIs, ShapeIs
    <3>2. QED
      BY <1>12, <1>15, <1>18, <3>1
  <2>3. ASSUME o.op = "linear" PROVE e.k = Body[o.args[1]].cols
    <3>1. 1 \in DOMAIN o.args /\ o.op \in ComputeOps \cup {"print"}
      BY <1>8, <1>9, <2>3, OpIs
    <3>2. PICK r : r = o.args[1]
      OBVIOUS
    <3>3. r \in 1 .. i - 1 /\ IsKept(r)
      BY <3>1, <3>2, OpIs
    <3>4. r \in 1 .. Len(Body)
      BY <3>3, EntryIs
    <3>5. Body[r].cols % ExtentLimit = Body[r].cols
      BY <3>3, <3>4, ShapeIs
    <3>6. QED
      BY <1>12, <1>15, <1>18, <1>19, <2>3, <3>2, <3>5
  <2>4. e.image = IF call.module.compiled /\ DeviceFor(i) = "cuda" THEN "inside" ELSE "none"
    BY <1>14, <1>16, <1>18
  <2>5. QED
    BY <2>1, <2>2, <2>3, <2>4
<1>23. QED
  BY <1>10, <1>20, <1>21, <1>22

-----------------------------------------------------------------------------
(* How far in the graph the host is. *)

(* What op i leaves behind. *)
HasRoom(i)  == IsBound(SlotAt(i)) /\ SizeOf(SlotAt(i)) = Size(Body[i])
Contents(i) == heap[SlotBuffer(SlotAt(i))].value
RanAsPlaced(i) == RunsOn(i) = call.device /\ (DeviceFor(i) = "cuda" => call.module.compiled)
PrintsUpTo(k) == FlattenSeq([i \in 1 .. k |-> IF Body[i].op = "print" THEN <<i>> ELSE <<>>])
ComputesUpTo(k) == {i \in 1 .. k : IsCompute(i)}

(* The first k ops have been executed: every value they keep is in its slot, they ran
   where they were placed, the last computed is the one to capture, and what they
   print was printed. *)
StoredUpTo(k)  == \A i \in 1 .. k : IsKept(i) => HasRoom(i) /\ Contents(i) = Value[i]
PlacedUpTo(k)  == \A i \in ComputesUpTo(k) : RanAsPlaced(i)
LatestIs(k)    == resultSlot = IF ComputesUpTo(k) = {} THEN 0 ELSE SlotAt(Max(ComputesUpTo(k))) + 1
PrintedUpTo(k) ==
  /\ Len(output) = Len(PrintsUpTo(k))
  /\ \A p \in 1 .. Len(output) : output[p].value = Value[Body[PrintsUpTo(k)[p]].args[1]]
Replayed(k)    == StoredUpTo(k) /\ PlacedUpTo(k) /\ LatestIs(k) /\ PrintedUpTo(k)

(* The host is between two ops, or has allocated the result of op k + 1. *)
Between(k) == k \in 0 .. Len(Body) /\ Replayed(k) /\ pc = Place(k) /\ host \in {"fetch", "print_read"}
Within(k)  ==
  /\ k \in 0 .. Len(Body) - 1 /\ Replayed(k) /\ pc = Place(k) + 1
  /\ IsCompute(k + 1) /\ HasRoom(k + 1)
  /\ host \in {"fetch", "get_function", "launch", "synchronize"}
  /\ host # "fetch" => call.device = "cuda" /\ call.module.compiled
  /\ gpu = "finished" => Contents(k + 1) = Value[k + 1]

Replaying == host \in {"fetch", "print_read", "get_function", "launch", "synchronize"}
Follows   == Replaying => Called /\ \E k \in Nat : Within(k) \/ Between(k)
Starts    == host = "start" => resultSlot = 0 /\ output = <<>>

(* The arguments never change, nor what is said of them. *)
LEMMA SameCall ==
  ASSUME call' = call
  PROVE  /\ Graph' = Graph /\ Function' = Function /\ Body' = Body /\ Value' = Value /\ Source' = Source
         /\ Called' <=> Called
         /\ \A i : /\ SlotAt(i)' = SlotAt(i) /\ DeviceFor(i)' = DeviceFor(i) /\ RunsOn(i)' = RunsOn(i)
                   /\ Place(i)' = Place(i) /\ PrintsUpTo(i)' = PrintsUpTo(i)
                   /\ IsKept(i)' <=> IsKept(i)
                   /\ IsCompute(i)' <=> IsCompute(i)
                   /\ ComputesUpTo(i)' = ComputesUpTo(i)
                   /\ PlacedUpTo(i)' <=> PlacedUpTo(i)
                   /\ DispatchOps(i)' = DispatchOps(i)
         /\ \A p, c : At(p, c)' <=> At(p, c)
<1>1. Graph' = Graph /\ Source' = Source
  BY DEF Graph, Source
<1>2. EntryAt' = EntryAt
  BY <1>1 DEF EntryAt
<1>3. Function' = Function
  BY <1>1, <1>2 DEF Function
<1>4. Body' = Body
  BY <1>1, <1>3 DEF Body
<1>5. Value' = Value
  BY <1>3, <1>4 DEF Value, Meaning
<1>6. Called' <=> Called
  BY <1>1 DEF Called, SymbolIndices, Fits
<1>7. \A i : /\ SlotAt(i)' = SlotAt(i) /\ Place(i)' = Place(i)
             /\ IsKept(i)' <=> IsKept(i)
  BY <1>1, <1>2 DEF SlotAt, Place, IsKept, Position
<1>8. \A i : /\ DeviceFor(i)' = DeviceFor(i) /\ RunsOn(i)' = RunsOn(i) /\ PrintsUpTo(i)' = PrintsUpTo(i)
             /\ IsCompute(i)' <=> IsCompute(i)
             /\ ComputesUpTo(i)' = ComputesUpTo(i)
  BY <1>4 DEF DeviceFor, RunsOn, PrintsUpTo, IsCompute, ComputesUpTo
<1>9. \A i : PlacedUpTo(i)' <=> PlacedUpTo(i)
  BY <1>8 DEF PlacedUpTo, RanAsPlaced
<1>10. \A i : DispatchOps(i)' = DispatchOps(i)
  BY <1>1, <1>3, <1>4, <1>7 DEF DispatchOps
<1>11. \A p, c : At(p, c)' <=> At(p, c)
  BY DEF At, InProgram, CommandAt
<1>12. QED
  BY <1>1, <1>3, <1>4, <1>5, <1>6, <1>7, <1>8, <1>9, <1>10, <1>11

(* One op more, printed or not. *)
LEMMA PrintsNext ==
  ASSUME Called, NEW k \in 0 .. Len(Body) - 1
  PROVE  /\ PrintsUpTo(k) \in Seq(Nat)
         /\ Body[k + 1].op = "print" => PrintsUpTo(k + 1) = Append(PrintsUpTo(k), k + 1)
         /\ Body[k + 1].op # "print" => PrintsUpTo(k + 1) = PrintsUpTo(k)
<1> DEFINE T == Nat
           One(i) == IF Body[i].op = "print" THEN <<i>> ELSE <<>>
           seqs == [i \in 1 .. k + 1 |-> One(i)]
           before == [i \in 1 .. k |-> One(i)]
<1>1. k \in Nat
  BY EntryIs
<1>2. \A i \in 1 .. k + 1 : One(i) \in Seq(T)
  BY <1>1
<1>3. PrintsUpTo(k) = FlattenSeq(before) /\ PrintsUpTo(k + 1) = FlattenSeq(seqs)
  BY DEF PrintsUpTo
<1>4. One(k + 1) = IF Body[k + 1].op = "print" THEN <<k + 1>> ELSE <<>>
  OBVIOUS
<1> HIDE DEF One, T
<1>5. seqs \in Seq(Seq(T)) /\ Len(seqs) = k + 1 /\ before = [i \in 1 .. k |-> seqs[i]] /\ seqs[k + 1] = One(k + 1)
  BY <1>1, <1>2
<1> HIDE DEF seqs, before
<1>6. FlattenSeq(before) \in Seq(T) /\ FlattenSeq(seqs) = FlattenSeq(before) \o seqs[k + 1]
  BY ZenonT(40), <1>1, <1>5, FlattenNext
<1>7. PICK flat \in Seq(Nat) : flat = PrintsUpTo(k) /\ PrintsUpTo(k + 1) = flat \o One(k + 1)
  BY <1>3, <1>5, <1>6 DEF T
<1>8. flat \o <<>> = flat /\ flat \o <<k + 1>> = Append(flat, k + 1)
  BY <1>1
<1>9. QED
  BY <1>4, <1>7, <1>8

(* One op more, computed or not. *)
LEMMA ComputesNext ==
  ASSUME Called, NEW k \in 0 .. Len(Body) - 1
  PROVE  /\ IsCompute(k + 1) => ComputesUpTo(k + 1) # {} /\ Max(ComputesUpTo(k + 1)) = k + 1
         /\ ~IsCompute(k + 1) => ComputesUpTo(k + 1) = ComputesUpTo(k)
         /\ ComputesUpTo(k + 1) = IF IsCompute(k + 1) THEN ComputesUpTo(k) \cup {k + 1} ELSE ComputesUpTo(k)
<1>1. k \in Nat /\ ComputesUpTo(k) \in SUBSET (1 .. k)
  BY EntryIs DEF ComputesUpTo
<1>2. ComputesUpTo(k + 1) = IF IsCompute(k + 1) THEN ComputesUpTo(k) \cup {k + 1} ELSE ComputesUpTo(k)
  <2>1. 1 .. k + 1 = (1 .. k) \cup {k + 1} /\ k + 1 \notin 1 .. k
    BY <1>1
  <2>2. QED
    BY <2>1 DEF ComputesUpTo
<1>3. Max(ComputesUpTo(k) \cup {k + 1}) = k + 1
  BY <1>1, MaxOfNext
<1>4. QED
  BY <1>2, <1>3

(* An op without commands is passed without a step. *)
LEMMA ReplayedSkips ==
  ASSUME Called, NEW k \in 0 .. Len(Body) - 1, Replayed(k), ~Emitting(k + 1)
  PROVE  Replayed(k + 1)
<1>1. k \in Nat /\ k + 1 \in 1 .. Len(Body)
  BY EntryIs
<1>2. ~IsKept(k + 1) /\ ~IsCompute(k + 1) /\ Body[k + 1].op # "print"
  BY <1>1, OpIs DEF Emitting, IsCompute
<1>3. ComputesUpTo(k + 1) = ComputesUpTo(k) /\ PrintsUpTo(k + 1) = PrintsUpTo(k)
  BY <1>2, ComputesNext, PrintsNext
<1>4. StoredUpTo(k + 1)
  <2>1. \A i \in 1 .. k + 1 : i \in 1 .. k \/ i = k + 1
    BY <1>1
  <2>2. QED
    BY <1>2, <2>1 DEF StoredUpTo, Replayed
<1>5. QED
  BY <1>3, <1>4 DEF Replayed, PlacedUpTo, LatestIs, PrintedUpTo

(* So the host is at an op that has some, or at the end. *)
LEMMA Advance ==
  ASSUME Called, NEW h, Between(h)
  PROVE  \E k \in 0 .. Len(Body) : Between(k) /\ (k # Len(Body) => Emitting(k + 1))
<1> DEFINE n == Len(Body) + 1
           K == {j \in 1 .. n : Between(j - 1)}
<1>1. Len(Body) \in Nat /\ n \in Nat
  BY EntryIs
<1>2. K # {}
  <2>1. h \in 0 .. Len(Body)
    BY DEF Between
  <2>2. PICK j \in 1 .. n : j - 1 = h
    <3>1. PICK l \in Nat : l = Len(Body)
      BY <1>1
    <3>2. PICK x \in 0 .. l : x = h
      BY <2>1, <3>1
    <3>3. x + 1 \in 1 .. l + 1 /\ x + 1 - 1 = x
      BY ONLY <3>1, <3>2
    <3>4. QED
      BY <3>1, <3>2, <3>3
  <2>3. j \in K
    BY <2>2
  <2>4. QED
    BY <2>3
<1>3. Max(K) \in K /\ \A j \in K : j <= Max(K)
  <2>1. K \in SUBSET (1 .. n)
    OBVIOUS
  <2> HIDE DEF K, n
  <2>2. QED
    BY <1>1, <1>2, <2>1, GreatestOf
<1>4. PICK k \in 0 .. Len(Body) : k + 1 = Max(K) /\ Between(k)
  <2>1. Max(K) \in 1 .. n /\ Between(Max(K) - 1)
    BY <1>3
  <2>2. Max(K) - 1 \in 0 .. Len(Body) /\ Max(K) - 1 + 1 = Max(K)
    BY <1>1, <2>1
  <2>3. QED
    BY <2>1, <2>2
<1>5. ASSUME k # Len(Body), ~Emitting(k + 1) PROVE FALSE
  <2>1. k \in 0 .. Len(Body) - 1
    BY <1>1, <1>5
  <2>2. Replayed(k + 1)
    BY <1>4, <1>5, <2>1, ReplayedSkips DEF Between
  <2>3. Place(k + 1) = Place(k)
    BY <1>5, <2>1, CommandIs
  <2>4. k + 1 \in 0 .. Len(Body)
    BY <1>1, <2>1
  <2>5. Between(k + 1)
    BY <1>4, <2>2, <2>3, <2>4 DEF Between
  <2>6. k + 2 \in K
    <3>1. k + 2 \in 1 .. n /\ k + 2 - 1 = k + 1
      BY <1>1, <2>1
    <3>2. QED
      BY <2>5, <3>1
  <2>7. k + 2 <= k + 1
    BY <1>3, <1>4, <2>6
  <2>8. QED
    BY <2>7
<1>6. QED
  BY <1>4, <1>5

(* What the host is at. *)
AtEnd(k)      == Between(k) /\ k = Len(Body) /\ Cmd = EndCommand
AtConstant(k) ==
  /\ Between(k) /\ k + 1 \in 1 .. Len(Body) /\ Body[k + 1].op = "constant" /\ IsKept(k + 1)
  /\ Cmd = [kind |-> "CONST",
            ops |-> <<SlotAt(k + 1), RodataOffset(Source, Position(k + 1)), Size(Body[k + 1])>>]
  /\ Place(k + 1) = pc + 1
AtAlloc(k)    ==
  /\ Between(k) /\ k + 1 \in 1 .. Len(Body) /\ IsCompute(k + 1)
  /\ Cmd = [kind |-> "ALLOC", ops |-> <<SlotAt(k + 1), Size(Body[k + 1])>>]
  /\ Place(k) + 1 = pc + 1
AtDispatch(k) ==
  /\ Within(k) /\ k + 1 \in 1 .. Len(Body)
  /\ Cmd = [kind |-> "DISPATCH", ops |-> DispatchOps(k + 1)]
  /\ Place(k + 1) = pc + 1
AtPrint(k)    ==
  /\ Between(k) /\ k + 1 \in 1 .. Len(Body) /\ Body[k + 1].op = "print"
  /\ Cmd = [kind |-> "PRINT", ops |-> <<SlotAt(Body[k + 1].args[1]), Body[k + 1].rows, Body[k + 1].cols>>]
  /\ Place(k + 1) = pc + 1

(* Wherever the host is, it is at a command of an op of the graph, or at the END. *)
LEMMA Here ==
  ASSUME Follows, Replaying
  PROVE  /\ Called /\ InProgram(call, pc) /\ pc \in Nat
         /\ \E k \in 0 .. Len(Body) :
              AtEnd(k) \/ AtConstant(k) \/ AtAlloc(k) \/ AtDispatch(k) \/ AtPrint(k)
<1>1. Called /\ \E k \in Nat : Within(k) \/ Between(k)
  BY DEF Follows
<1>2. Len(Body) \in Nat
  BY <1>1, EntryIs
<1>3. Cmd = CommandAt(call, pc)
  BY DEF Cmd
<1>4. ASSUME NEW k \in Nat, Within(k)
      PROVE  InProgram(call, pc) /\ AtDispatch(k) /\ k \in 0 .. Len(Body) /\ pc \in Nat
  <2>1. k \in 0 .. Len(Body) - 1 /\ IsCompute(k + 1) /\ pc = Place(k) + 1
    BY <1>4 DEF Within
  <2>2. /\ k + 1 \in 1 .. Len(Body) /\ Place(k + 1) = Place(k) + 2
        /\ At(Place(k) + 1, [kind |-> "DISPATCH", ops |-> DispatchOps(k + 1)])
    BY <1>1, <2>1, CommandIs
  <2>3. k \in 0 .. Len(Body) /\ Place(k) \in Nat
    BY <1>1, <1>2, <2>1, EndLies
  <2>4. Place(k) + 2 = Place(k) + 1 + 1
    BY <2>3
  <2>5. QED
    BY <1>3, <1>4, <2>1, <2>2, <2>3, <2>4 DEF AtDispatch, At
<1>5. ASSUME NEW h \in Nat, Between(h)
      PROVE  /\ InProgram(call, pc) /\ pc \in Nat
             /\ \E k \in 0 .. Len(Body) : AtEnd(k) \/ AtConstant(k) \/ AtAlloc(k) \/ AtPrint(k)
  <2>1. PICK k \in 0 .. Len(Body) : Between(k) /\ (k # Len(Body) => Emitting(k + 1))
    BY <1>1, <1>5, Advance
  <2>2. pc = Place(k) /\ pc \in Nat
    BY <1>1, <2>1, EndLies DEF Between
  <2>3. CASE k = Len(Body)
    <3>1. InProgram(call, pc) /\ Cmd = EndCommand
      BY <1>1, <1>3, <2>2, <2>3, EndLies
    <3>2. QED
      BY <2>1, <2>2, <2>3, <3>1 DEF AtEnd
  <2>4. CASE k # Len(Body)
    <3>1. k \in 0 .. Len(Body) - 1 /\ k + 1 \in 1 .. Len(Body)
      BY <1>2, <2>4
    <3>2. Emitting(k + 1)
      BY <2>1, <2>4
    <3>3. \/ Body[k + 1].op = "constant" /\ IsKept(k + 1)
          \/ IsCompute(k + 1)
          \/ Body[k + 1].op = "print"
      BY <1>1, <3>1, <3>2, OpIs DEF Emitting, IsCompute
    <3>4. CASE Body[k + 1].op = "constant" /\ IsKept(k + 1)
      <4>1. /\ At(Place(k), [kind |-> "CONST",
                             ops |-> <<SlotAt(k + 1), RodataOffset(Source, Position(k + 1)), Size(Body[k + 1])>>])
            /\ Place(k + 1) = Place(k) + 1
        BY <1>1, <3>1, <3>4, CommandIs
      <4>2. AtConstant(k) /\ InProgram(call, pc)
        BY <1>3, <2>1, <2>2, <3>1, <3>4, <4>1 DEF At, AtConstant
      <4>3. QED
        BY <2>2, <4>2
    <3>5. CASE IsCompute(k + 1)
      <4>1. At(Place(k), [kind |-> "ALLOC", ops |-> <<SlotAt(k + 1), Size(Body[k + 1])>>])
        BY <1>1, <3>1, <3>5, CommandIs
      <4>2. AtAlloc(k) /\ InProgram(call, pc)
        BY <1>3, <2>1, <2>2, <3>1, <3>5, <4>1 DEF At, AtAlloc
      <4>3. QED
        BY <2>2, <4>2
    <3>6. CASE Body[k + 1].op = "print"
      <4>1. /\ At(Place(k), [kind |-> "PRINT",
                             ops |-> <<SlotAt(Body[k + 1].args[1]), Body[k + 1].rows, Body[k + 1].cols>>])
            /\ Place(k + 1) = Place(k) + 1
        BY <1>1, <3>1, <3>6, CommandIs
      <4>2. AtPrint(k) /\ InProgram(call, pc)
        BY <1>3, <2>1, <2>2, <3>1, <3>6, <4>1 DEF At, AtPrint
      <4>3. QED
        BY <2>2, <4>2
    <3>7. QED
      BY <3>3, <3>4, <3>5, <3>6
  <2>5. QED
    BY <2>3, <2>4
<1>6. QED
  BY <1>1, <1>4, <1>5

(* What a call may be refused for, and what one that was not has done. *)
OnCuda        == \E i \in ComputesUpTo(Len(Body)) : DeviceFor(i) = "cuda"
MayRefuse(s)  ==
  /\ s = "INVALID_MODULE" => Cardinality(Stored(Source)) > MaxSlots
  /\ s = "INVALID_ARGUMENT" =>
       call.out > Body[Max(ComputesUpTo(Len(Body)))].rows * Body[Max(ComputesUpTo(Len(Body)))].cols
  /\ s = "UNIMPLEMENTED" => OnCuda /\ ~call.module.compiled
  /\ s = "DEVICE" /\ call.device = "cpu" => OnCuda
  /\ s # "OK" => Called \/ s = "NOT_FOUND"
Answered      ==
  host = "done" /\ status = "OK" =>
    /\ Called /\ PlacedUpTo(Len(Body)) /\ PrintedUpTo(Len(Body))
    /\ call.out > 0 /\ ComputesUpTo(Len(Body)) # {} => captured = Value[Max(ComputesUpTo(Len(Body)))]

Faithful == Follows /\ Starts /\ MayRefuse(status) /\ Answered /\ host # "undefined"

(* What a status says of the graph does not change. *)
LEMMA SameRefusals ==
  ASSUME call' = call
  PROVE  MayRefuse(status)' <=> MayRefuse(status')
<1>1. /\ Body' = Body /\ Source' = Source /\ (Called' <=> Called)
      /\ \A i : ComputesUpTo(i)' = ComputesUpTo(i) /\ DeviceFor(i)' = DeviceFor(i)
  BY SameCall
<1>2. OnCuda' <=> OnCuda
  BY <1>1 DEF OnCuda
<1>3. QED
  BY <1>1, <1>2 DEF MayRefuse

(* The call is left. *)
LEMMA Left ==
  ASSUME call' = call, host' \in {"exit", "done"}, host' = "done" => status' # "OK", MayRefuse(status')
  PROVE  Faithful'
BY SameRefusals DEF Faithful, Follows, Replaying, Starts, Answered

(* It goes on. *)
LEMMA GoesOn ==
  ASSUME call' = call, Called, status' = "OK",
         host' \in {"fetch", "print_read", "get_function", "launch", "synchronize"},
         NEW k \in Nat, Within(k)' \/ Between(k)'
  PROVE  Faithful'
<1>1. Called'
  BY SameCall
<1>2. Follows'
  BY <1>1 DEF Follows
<1>3. MayRefuse(status)'
  BY SameRefusals DEF MayRefuse
<1>4. QED
  BY <1>2, <1>3 DEF Faithful, Starts, Answered

(* Nothing that was replayed changed. *)
LEMMA Stays ==
  ASSUME call' = call, UNCHANGED <<slots, heap, resultSlot, output>>
  PROVE  \A k : /\ Replayed(k)' <=> Replayed(k)
                /\ HasRoom(k)' <=> HasRoom(k)
                /\ Contents(k)' = Contents(k)
<1>1. /\ Body' = Body /\ Value' = Value
      /\ \A i : /\ SlotAt(i)' = SlotAt(i) /\ (IsKept(i)' <=> IsKept(i))
                /\ PrintsUpTo(i)' = PrintsUpTo(i) /\ ComputesUpTo(i)' = ComputesUpTo(i)
                /\ (PlacedUpTo(i)' <=> PlacedUpTo(i))
  BY SameCall
<1>2. \A i : (HasRoom(i)' <=> HasRoom(i)) /\ Contents(i)' = Contents(i)
  BY <1>1 DEF HasRoom, Contents, IsBound, SizeOf, SlotBuffer
<1>3. \A k : StoredUpTo(k)' <=> StoredUpTo(k)
  BY <1>1, <1>2 DEF StoredUpTo
<1>4. \A k : (LatestIs(k)' <=> LatestIs(k)) /\ (PrintedUpTo(k)' <=> PrintedUpTo(k))
  BY <1>1 DEF LatestIs, PrintedUpTo
<1>5. QED
  BY <1>1, <1>2, <1>3, <1>4 DEF Replayed

(* Only one slot changed, and none of the ops so far is in it. *)
LEMMA OthersStay ==
  ASSUME call' = call, NEW k, StoredUpTo(k), NEW s,
         \A i \in 1 .. k : IsKept(i) => SlotAt(i) # s,
         \A t \in Slots \ {s} : slots'[t] = slots[t] /\ (slots[t] # None => heap'[slots[t]] = heap[slots[t]])
  PROVE  StoredUpTo(k)'
<1>1. /\ Body' = Body /\ Value' = Value
      /\ \A i : SlotAt(i)' = SlotAt(i) /\ (IsKept(i)' <=> IsKept(i))
  BY SameCall
<1>2. ASSUME NEW i \in 1 .. k, IsKept(i)
      PROVE  HasRoom(i)' /\ Contents(i)' = Value[i]
  <2>1. HasRoom(i) /\ Contents(i) = Value[i] /\ SlotAt(i) # s
    BY <1>2 DEF StoredUpTo
  <2>2. SlotAt(i) \in Slots \ {s} /\ slots[SlotAt(i)] # None
    BY <2>1 DEF HasRoom, IsBound, SlotBuffer
  <2>3. SlotBuffer(SlotAt(i))' = SlotBuffer(SlotAt(i)) /\ heap'[SlotBuffer(SlotAt(i))] = heap[SlotBuffer(SlotAt(i))]
    BY <1>1, <2>2 DEF SlotBuffer
  <2>4. IsBound(SlotAt(i))' /\ SizeOf(SlotAt(i))' = SizeOf(SlotAt(i)) /\ Contents(i)' = Contents(i)
    BY <2>1, <2>3 DEF IsBound, SizeOf, Contents, HasRoom
  <2>5. QED
    BY <1>1, <2>1, <2>4 DEF HasRoom
<1>3. QED
  BY <1>1, <1>2 DEF StoredUpTo

-----------------------------------------------------------------------------
(* The host follows the graph. *)

(* The inductive invariant of a compiled module of shapes that fit. *)
CInv == IInv /\ Fits /\ Faithful

(* The loop starts at the first op. *)
LEMMA StartFollows ==
  ASSUME CInv, Start
  PROVE  Faithful'
<1>1. /\ host = "start" /\ SymbolIndices(call) # {} /\ host' = "fetch" /\ pc' = EntryOffset(call)
      /\ UNCHANGED <<call, status, slots, heap, resultSlot, output, gpu>>
  BY DEF Start, machine, driver, effects
<1>2. /\ call \in Calls /\ status = "OK" /\ resultSlot = 0 /\ output = <<>> /\ Called
  BY <1>1 DEF CInv, IInv, TypeOK, HandlersOwnTheDriver, Faithful, Starts, Called
<1>3. Place(0) = EntryOffset(call) /\ Len(Body) \in Nat
  BY <1>2, EndLies, EntryIs
<1>4. Replayed(0)
  <2>1. 1 .. 0 = {} /\ ComputesUpTo(0) = {}
    BY DEF ComputesUpTo
  <2>2. PrintsUpTo(0) = <<>>
    BY <2>1 DEF PrintsUpTo, FlattenSeq
  <2>3. QED
    BY <1>2, <2>1, <2>2 DEF Replayed, StoredUpTo, PlacedUpTo, LatestIs, PrintedUpTo
<1>5. Between(0)'
  <2>1. Replayed(0)' /\ Body' = Body /\ Place(0)' = Place(0)
    BY <1>1, <1>4, Stays, SameCall
  <2>2. QED
    BY <1>1, <1>3, <2>1 DEF Between
<1>6. QED
  BY <1>1, <1>2, <1>5, GoesOn

(* A compiled module has all its sections: only the entry may be missing. *)
LEMMA StartFailsFollows ==
  ASSUME CInv, StartFails
  PROVE  Faithful'
<1>1. call \in Calls
  BY DEF CInv, IInv, TypeOK
<1>2. ~MalformedModule
  BY <1>1, SectionsAre DEF MalformedModule
<1>3. call' = call /\ host' = "done" /\ status' = "NOT_FOUND"
  BY <1>2 DEF StartFails
<1>4. MayRefuse(status')
  BY <1>3 DEF MayRefuse
<1>5. QED
  BY <1>3, <1>4, Left

(* The error is kept. *)
LEMMA ExitFollows ==
  ASSUME CInv, Exit
  PROVE  Faithful'
<1>1. call' = call /\ host' = "done" /\ status' = status /\ status # "OK"
  BY DEF Exit, CInv, IInv, HandlersOwnTheDriver
<1>2. QED
  BY <1>1, Left DEF CInv, Faithful

(* What an op reads, and its result, are in slots of their sizes. *)
LEMMA Operand ==
  ASSUME CInv, Called, NEW k \in Nat, k + 1 \in 1 .. Len(Body), Replayed(k),
         IsCompute(k + 1) \/ Body[k + 1].op = "print", NEW a \in DOMAIN Body[k + 1].args,
         NEW r, r = Body[k + 1].args[a]
  PROVE  /\ r \in 1 .. k /\ IsKept(r) /\ r \in 1 .. Len(Body)
         /\ HasRoom(r) /\ Contents(r) = Value[r]
         /\ Size(Body[r]) \in 1 .. SizeLimit - 1 /\ Size(Body[r]) = Body[r].rows * Body[r].cols
<1>1. r \in 1 .. k /\ IsKept(r)
  <2>1. r \in 1 .. (k + 1) - 1 /\ IsKept(r)
    BY OpIs DEF IsCompute
  <2>2. QED
    BY <2>1
<1>2. r \in 1 .. Len(Body)
  BY <1>1, EntryIs
<1>3. HasRoom(r) /\ Contents(r) = Value[r]
  BY <1>1 DEF Replayed, StoredUpTo
<1>4. Size(Body[r]) \in 1 .. SizeLimit - 1 /\ Size(Body[r]) = Body[r].rows * Body[r].cols
  BY <1>1, <1>2, ShapeIs
<1>5. QED
  BY <1>1, <1>2, <1>3, <1>4

(* A PRINT of the compiler's prints the value it should. *)
LEMMA PrintIs ==
  ASSUME CInv, Called, NEW k \in 0 .. Len(Body), AtPrint(k)
  PROVE  /\ Cmd.kind = "PRINT" /\ Len(Ops) = 3 /\ Printable /\ PrintSize < SizeLimit
         /\ Printed.value = Value[Body[k + 1].args[1]]
         /\ IsBound(Ops[1]) /\ SizeOf(Ops[1]) > 0
<1> DEFINE i == k + 1
           r == Body[i].args[1]
           size == Size(Body[r])
<1>1. /\ Between(k) /\ i \in 1 .. Len(Body) /\ Body[i].op = "print"
      /\ Cmd = [kind |-> "PRINT", ops |-> <<SlotAt(r), Body[i].rows, Body[i].cols>>]
  BY DEF AtPrint
<1>2. Cmd.kind = "PRINT" /\ Ops = <<SlotAt(r), Body[i].rows, Body[i].cols>>
  BY <1>1 DEF Ops
<1>3. Len(Ops) = 3 /\ Ops[1] = SlotAt(r) /\ Ops[2] = Body[i].rows /\ Ops[3] = Body[i].cols
  BY <1>2
<1>4. Len(Body[i].args) = 1 /\ Body[i].args \in Seq(Nat)
  BY <1>1, OpIs
<1>5. /\ HasRoom(r) /\ Contents(r) = Value[r] /\ size \in 1 .. SizeLimit - 1 /\ r \in 1 .. Len(Body)
      /\ size = Body[r].rows * Body[r].cols
  <2>1. 1 \in DOMAIN Body[i].args /\ k \in Nat
    BY <1>4, EntryIs
  <2>2. Replayed(k)
    BY <1>1 DEF Between
  <2>3. QED
    BY <1>1, <2>1, <2>2, Operand
<1>6. Body[i].rows = Body[r].rows /\ Body[i].cols = Body[r].cols
  BY <1>1, ShapeIs
<1> HIDE DEF r, i
<1>7. PrintSize = size
  BY <1>3, <1>5, <1>6 DEF PrintSize
<1>8. PrintSize % SizeLimit = size
  <2> HIDE DEF size
  <2>1. size \in 0 .. SizeLimit - 1
    BY <1>5, SizeAssumption
  <2>2. QED
    BY <1>7, <2>1, BelowLimit, SizeAssumption
<1>9. IsBound(Ops[1]) /\ SizeOf(Ops[1]) = size
  BY <1>3, <1>5 DEF HasRoom
<1>10. Printed.value = Value[r]
  BY <1>3, <1>5 DEF Printed, Contents
<1> HIDE DEF size
<1>11. size \in Nat /\ size < SizeLimit /\ size > 0
  BY <1>5, SizeAssumption
<1>12. Printable
  BY <1>8, <1>9, <1>11 DEF Printable
<1>13. QED
  BY <1>2, <1>3, <1>7, <1>9, <1>10, <1>11, <1>12 DEF r, i

(* The parts of a DISPATCH of the compiler's. *)
LEMMA DispatchIs ==
  ASSUME CInv, Called, InProgram(call, pc), NEW k \in 0 .. Len(Body), AtDispatch(k), NEW i, i = k + 1
  PROVE  /\ Cmd.kind = "DISPATCH" /\ i \in 1 .. Len(Body) /\ IsCompute(i) /\ k \in Nat /\ Replayed(k) /\ HasRoom(i)
         /\ WellFormed /\ ArgsBound
         /\ Exe.kind = KernelOf(Body[i].op) /\ Exe.kind \in KernelKinds /\ Len(Args) = Arity(Exe.kind)
         /\ Exe.kind = "matmul" <=> Body[i].op = "linear"
         /\ Exe.device = RunsOn(i) /\ Exe.m = Body[i].rows /\ Exe.n = Body[i].cols
         /\ Body[i].op = "linear" => Exe.k = Body[Body[i].args[1]].cols
         /\ Exe.image = IF call.module.compiled /\ DeviceFor(i) = "cuda" THEN "inside" ELSE "none"
         /\ Len(Args) = Len(Body[i].args) + 1 /\ Dst = SlotAt(i) /\ Args[Len(Args)] = SlotAt(i)
         /\ Args \in Seq(Nat) /\ DOMAIN Args = 1 .. Len(Args)
         /\ Len(Body[i].args) \in {1, 2} /\ DOMAIN Body[i].args = 1 .. Len(Body[i].args)
         /\ \A a \in DOMAIN Body[i].args : Args[a] = SlotAt(Body[i].args[a]) /\ Ops[a + 2] = SlotAt(Body[i].args[a])
         /\ DOMAIN InputsOf(Ops) = DOMAIN Body[i].args /\ \A a \in DOMAIN InputsOf(Ops) : InputsOf(Ops)[a] = Args[a]
         /\ Len(Ops) = Len(Body[i].args) + 3
<1> DEFINE args == Body[i].args
<1>1. /\ Within(k) /\ i \in 1 .. Len(Body)
      /\ Cmd = [kind |-> "DISPATCH", ops |-> DispatchOps(i)]
  BY DEF AtDispatch
<1>2. IsCompute(i) /\ Replayed(k) /\ HasRoom(i) /\ k \in Nat
  BY <1>1, EntryIs DEF Within
<1>3. Cmd.kind = "DISPATCH" /\ Ops = DispatchOps(i)
  BY <1>1 DEF Ops
<1>4. /\ Ops \in Seq(Nat) /\ Len(args) \in {1, 2} /\ DOMAIN args = 1 .. Len(args) /\ Len(Ops) = Len(args) + 3
      /\ \A a \in 1 .. Len(args) : Ops[a + 2] = SlotAt(args[a])
      /\ Ops[Len(args) + 3] = SlotAt(i)
  BY <1>1, <1>2, <1>3, OperandsOf
<1>5. /\ WellFormed /\ Exe.kind = KernelOf(Body[i].op) /\ Exe.kind \in KernelKinds /\ Arity(Exe.kind) = Len(args) + 1
      /\ Exe.kind = "matmul" <=> Body[i].op = "linear"
      /\ Exe.device = RunsOn(i) /\ Exe.m = Body[i].rows /\ Exe.n = Body[i].cols
      /\ Body[i].op = "linear" => Exe.k = Body[args[1]].cols
      /\ Exe.image = IF call.module.compiled /\ DeviceFor(i) = "cuda" THEN "inside" ELSE "none"
  BY <1>1, <1>2, <1>3, ExecutableOf DEF WellFormed, Exe
<1>6. TypeOK
  BY DEF CInv, IInv
<1>7. /\ Args \in Seq(Nat) /\ Len(Args) = Len(Ops) - 2
      /\ \A a \in DOMAIN Args : Args[a] = Ops[a + 2]
      /\ Len(Args) > 0 =>
           /\ InputsOf(Ops) \in Seq(Nat)
           /\ Len(InputsOf(Ops)) = Len(Args) - 1
           /\ \A a \in DOMAIN InputsOf(Ops) : InputsOf(Ops)[a] = Args[a]
           /\ Dst = Args[Len(Args)] /\ Dst \in Nat
  BY <1>5, <1>6, ArgsTyped
<1> HIDE DEF args
<1>8. PICK n \in {1, 2} : n = Len(args)
  BY <1>4
<1>9. Len(Args) = n + 1 /\ DOMAIN Args = 1 .. n + 1
  BY <1>4, <1>7, <1>8
<1>10. \A a \in DOMAIN args : Args[a] = SlotAt(args[a]) /\ Ops[a + 2] = SlotAt(args[a])
  <2>1. ASSUME NEW a \in DOMAIN args PROVE Args[a] = SlotAt(args[a]) /\ Ops[a + 2] = SlotAt(args[a])
    <3>1. a \in 1 .. Len(args) /\ a \in 1 .. n + 1
      BY <1>4, <1>8
    <3>2. a \in DOMAIN Args
      BY <1>9, <3>1
    <3>3. Args[a] = Ops[a + 2]
      BY <1>7, <3>2
    <3>4. Ops[a + 2] = SlotAt(args[a])
      BY <1>4, <3>1
    <3>5. QED
      BY <3>3, <3>4
  <2>2. QED
    BY <2>1
<1>11. Args[n + 1] = SlotAt(i)
  <2>1. n + 1 \in DOMAIN Args /\ n + 1 + 2 = n + 3
    BY <1>9
  <2>2. QED
    BY <1>4, <1>7, <1>8, <2>1
<1>12. DOMAIN InputsOf(Ops) = 1 .. n /\ \A a \in DOMAIN InputsOf(Ops) : InputsOf(Ops)[a] = Args[a]
  <2>1. InputsOf(Ops) \in Seq(Nat) /\ Len(InputsOf(Ops)) = n
    BY <1>7, <1>9
  <2>2. QED
    BY <1>7, <1>9, <2>1
<1>13. Dst = SlotAt(i)
  BY <1>7, <1>9, <1>11
<1>14. ArgsBound
  <2>1. Len(Args) <= MaxArgs
    BY <1>9, ArityAssumption, ArgsAssumption
  <2>2. ASSUME NEW a \in DOMAIN Args PROVE IsBound(Args[a])
    <3>1. CASE a \in DOMAIN args
      <4>1. PICK r : r = args[a]
        OBVIOUS
      <4>2. HasRoom(r)
        BY <1>1, <1>2, <3>1, <4>1, Operand DEF args
      <4>3. QED
        BY <1>10, <3>1, <4>1, <4>2 DEF HasRoom
    <3>2. CASE a = n + 1
      BY <1>2, <1>11, <3>2 DEF HasRoom
    <3>3. QED
      BY <1>4, <1>8, <1>9, <3>1, <3>2
  <2>3. QED
    BY <2>1, <2>2 DEF ArgsBound
<1>15. QED
  BY <1>1, <1>2, <1>3, <1>4, <1>5, <1>7, <1>8, <1>9, <1>10, <1>11, <1>12, <1>13, <1>14 DEF args

(* The kernel stays inside its buffers. *)
LEMMA DispatchFits ==
  ASSUME CInv, Called, InProgram(call, pc), NEW k \in 0 .. Len(Body), AtDispatch(k), NEW i, i = k + 1
  PROVE  /\ KernelFits
         /\ \A a \in DOMAIN Args : SizeOf(Args[a]) > 0
<1> DEFINE o == Body[i]
           A == Body[o.args[1]]
           B == Body[o.args[2]]
<1>1. /\ i \in 1 .. Len(Body) /\ IsCompute(i) /\ k \in Nat /\ Replayed(k) /\ HasRoom(i)
      /\ Exe.kind \in KernelKinds /\ Len(Args) = Arity(Exe.kind)
      /\ Exe.kind = "matmul" <=> o.op = "linear"
      /\ Exe.m = o.rows /\ Exe.n = o.cols
      /\ o.op = "linear" => Exe.k = A.cols
      /\ Len(Args) = Len(o.args) + 1 /\ Args[Len(Args)] = SlotAt(i)
      /\ DOMAIN Args = 1 .. Len(Args)
      /\ Len(o.args) \in {1, 2} /\ DOMAIN o.args = 1 .. Len(o.args)
      /\ \A a \in DOMAIN o.args : Args[a] = SlotAt(o.args[a])
  BY DispatchIs
<1>2. ASSUME NEW a \in DOMAIN o.args
      PROVE  /\ SizeOf(Args[a]) = Body[o.args[a]].rows * Body[o.args[a]].cols
             /\ Body[o.args[a]].rows * Body[o.args[a]].cols > 0
  <2>1. PICK r : r = o.args[a]
    OBVIOUS
  <2>2. /\ HasRoom(r) /\ Size(Body[r]) \in 1 .. SizeLimit - 1
        /\ Size(Body[r]) = Body[r].rows * Body[r].cols
    BY <1>1, <2>1, Operand
  <2>3. Args[a] = SlotAt(r)
    BY <1>1, <2>1
  <2> HIDE DEF o
  <2>4. QED
    BY <2>1, <2>2, <2>3, SizeAssumption DEF HasRoom
<1>3. SizeOf(Args[Len(Args)]) = o.rows * o.cols /\ o.rows * o.cols > 0
  <2>1. IsKept(i)
    BY <1>1, OpIs DEF IsCompute
  <2>2. Size(o) \in 1 .. SizeLimit - 1 /\ Size(o) = o.rows * o.cols
    BY <1>1, <2>1, ShapeIs
  <2>3. QED
    BY <1>1, <2>2, SizeAssumption DEF HasRoom
<1>4. /\ o.op = "linear" => A.cols = B.rows /\ o.rows = A.rows /\ o.cols = B.cols
      /\ o.op = "add" => o.rows = A.rows /\ o.rows = B.rows /\ o.cols = A.cols /\ o.cols = B.cols
      /\ o.op \in {"relu", "print"} => o.rows = A.rows /\ o.cols = A.cols
      /\ o.rows \in Nat /\ o.cols \in Nat
  <2>1. o.op = "linear" => A.cols = B.rows /\ o.rows = A.rows /\ o.cols = B.cols
    BY <1>1, ShapeIs
  <2>2. o.op = "add" => o.rows = A.rows /\ o.rows = B.rows /\ o.cols = A.cols /\ o.cols = B.cols
    BY <1>1, ShapeIs
  <2>3. o.op \in {"relu", "print"} => o.rows = A.rows /\ o.cols = A.cols
    BY <1>1, ShapeIs
  <2>4. o.rows \in Nat /\ o.cols \in Nat
    BY <1>1, ShapeIs
  <2>5. QED
    BY <2>1, <2>2, <2>3, <2>4
<1>5. /\ o.op \in {"linear", "add"} => Len(o.args) = 2
      /\ o.op \in {"relu", "print"} => Len(o.args) = 1
      /\ o.op \in ComputeOps
  BY <1>1, OpIs DEF IsCompute
<1> HIDE DEF o, A, B
<1>6. \A a \in DOMAIN Args : SizeOf(Args[a]) > 0
  <2>1. ASSUME NEW a \in DOMAIN Args PROVE a \in DOMAIN o.args \/ a = Len(Args)
    BY <1>1
  <2>2. ASSUME NEW a \in DOMAIN o.args PROVE SizeOf(Args[a]) > 0
    BY <1>2
  <2>3. QED
    BY <1>3, <2>1, <2>2
<1>7. CASE o.op = "linear"
  <2>1. Len(o.args) = 2 /\ Len(Args) = 3 /\ 1 \in DOMAIN o.args /\ 2 \in DOMAIN o.args
    <3>1. PICK n \in {1, 2} : n = Len(o.args)
      BY <1>1
    <3>2. Len(o.args) = 2
      BY <1>5, <1>7
    <3>3. DOMAIN o.args = 1 .. n /\ Len(Args) = n + 1
      BY <1>1, <3>1
    <3>4. DOMAIN o.args = 1 .. 2 /\ Len(Args) = 2 + 1
      BY ONLY <3>1, <3>2, <3>3, Zenon
    <3>5. 1 \in 1 .. 2 /\ 2 \in 1 .. 2 /\ 2 + 1 = 3
      OBVIOUS
    <3>6. QED
      BY ONLY <3>2, <3>4, <3>5, Zenon
  <2>2. SizeOf(Args[1]) = A.rows * A.cols /\ SizeOf(Args[2]) = B.rows * B.cols /\ SizeOf(Args[3]) = o.rows * o.cols
    BY <1>2, <1>3, <2>1 DEF A, B
  <2>3. /\ Exe.kind = "matmul"
        /\ Exe.m * Exe.k = SizeOf(Args[1]) /\ Exe.k * Exe.n = SizeOf(Args[2]) /\ Exe.m * Exe.n = SizeOf(Args[3])
    BY <1>1, <1>4, <1>7, <2>2
  <2>4. SizeOf(Args[1]) \in Nat /\ SizeOf(Args[2]) \in Nat /\ SizeOf(Args[3]) \in Nat
    <3>1. ASSUME NEW a \in DOMAIN Args PROVE SizeOf(Args[a]) \in Nat
      <4>1. TypeOK /\ ArgsBound
        BY DispatchIs DEF CInv, IInv
      <4>2. SlotBuffer(Args[a]) \in Buffers
        BY <4>1, BoundSlot DEF ArgsBound
      <4>3. QED
        BY <4>1, <4>2 DEF TypeOK, Buffer, SizeOf
    <3>2. QED
      BY <1>1, <2>1, <3>1
  <2>5. QED
    BY <1>1, <1>6, <2>3, <2>4 DEF KernelFits, LoopsFit
<1>8. CASE o.op # "linear"
  <2>1. ASSUME NEW a \in DOMAIN Args PROVE SizeOf(Args[a]) = o.rows * o.cols
    <3>1. CASE a = Len(Args)
      BY <1>3, <3>1
    <3>2. CASE a # Len(Args)
      <4>1. a \in DOMAIN o.args
        BY <1>1, <3>2
      <4>2. SizeOf(Args[a]) = Body[o.args[a]].rows * Body[o.args[a]].cols
        BY <1>2, <4>1
      <4>3. a \in {1, 2} /\ (a = 2 => o.op = "add")
        <5>1. PICK n \in {1, 2} : n = Len(o.args)
          BY <1>1
        <5>2. a \in 1 .. n
          BY <1>1, <4>1, <5>1
        <5>3. \A m \in {1, 2} : \A b \in 1 .. m : b \in {1, 2} /\ (b = 2 => m = 2)
          OBVIOUS
        <5>4. a \in {1, 2} /\ (a = 2 => n = 2)
          BY ONLY <5>2, <5>3, n \in {1, 2}
        <5>5. o.op # "add" => o.op = "relu"
          BY <1>5, <1>8 DEF ComputeOps
        <5>6. o.op = "relu" => n = 1
          BY <1>5, <5>1
        <5>7. QED
          BY ONLY <5>4, <5>5, <5>6
      <4>4. o.rows = Body[o.args[a]].rows /\ o.cols = Body[o.args[a]].cols
        BY <1>4, <1>5, <1>8, <4>3 DEF ComputeOps, A, B
      <4>5. QED
        BY <4>2, <4>4
    <3>3. QED
      BY <3>1, <3>2
  <2>2. Exe.m * Exe.n = o.rows * o.cols /\ Exe.kind # "matmul" /\ o.rows * o.cols \in Nat
    BY <1>1, <1>4, <1>8
  <2>3. QED
    BY <1>1, <1>6, <2>1, <2>2 DEF KernelFits, LoopsFit
<1>9. QED
  BY <1>7, <1>8

(* Where the host is, by the kind of its command. *)
LEMMA Where ==
  ASSUME CInv, Replaying
  PROVE  /\ Called /\ InProgram(call, pc) /\ pc \in Nat /\ status = "OK"
         /\ TypeOK /\ SlotsOwnTheHeap /\ HandlersOwnTheDriver
         /\ \E k \in 0 .. Len(Body) :
              \/ AtEnd(k) /\ Cmd.kind = "END"
              \/ AtConstant(k) /\ Cmd.kind = "CONST"
              \/ AtAlloc(k) /\ Cmd.kind = "ALLOC"
              \/ AtDispatch(k) /\ Cmd.kind = "DISPATCH"
              \/ AtPrint(k) /\ Cmd.kind = "PRINT"
<1>1. /\ Called /\ InProgram(call, pc) /\ pc \in Nat
      /\ \E k \in 0 .. Len(Body) :
           AtEnd(k) \/ AtConstant(k) \/ AtAlloc(k) \/ AtDispatch(k) \/ AtPrint(k)
  BY Here DEF CInv, Faithful
<1>2. TypeOK /\ SlotsOwnTheHeap /\ HandlersOwnTheDriver
  BY DEF CInv, IInv
<1>3. status = "OK"
  BY <1>2 DEF Replaying, HandlersOwnTheDriver
<1>4. ASSUME NEW k \in 0 .. Len(Body)
      PROVE  /\ AtEnd(k) => Cmd.kind = "END"
             /\ AtConstant(k) => Cmd.kind = "CONST"
             /\ AtAlloc(k) => Cmd.kind = "ALLOC"
             /\ AtDispatch(k) => Cmd.kind = "DISPATCH"
             /\ AtPrint(k) => Cmd.kind = "PRINT"
  <2>1. AtEnd(k) => Cmd.kind = "END"
    BY DEF AtEnd, EndCommand
  <2>2. AtConstant(k) => Cmd.kind = "CONST"
    BY DEF AtConstant
  <2>3. AtAlloc(k) => Cmd.kind = "ALLOC"
    BY DEF AtAlloc
  <2>4. AtDispatch(k) => Cmd.kind = "DISPATCH"
    BY DEF AtDispatch
  <2>5. AtPrint(k) => Cmd.kind = "PRINT"
    BY DEF AtPrint
  <2>6. QED
    BY <2>1, <2>2, <2>3, <2>4, <2>5
<1>5. QED
  BY <1>1, <1>2, <1>3, <1>4

(* A handler that fails leaves the call. *)
LEMMA Fails ==
  ASSUME CInv, Called, call' = call, NEW s, Fail(s),
         s = "INVALID_MODULE" => Cardinality(Stored(Source)) > MaxSlots,
         s # "INVALID_ARGUMENT",
         s = "UNIMPLEMENTED" => OnCuda /\ ~call.module.compiled,
         s = "DEVICE" => call.device = "cuda" \/ OnCuda
  PROVE  Faithful'
<1>1. host' = "exit" /\ status' = s
  BY DEF Fail
<1>2. MayRefuse(status')
  BY <1>1 DEF MayRefuse
<1>3. QED
  BY <1>1, <1>2, Left

(* A slot cannot be bound because there are not as many, or no memory. *)
LEMMA BindRefused ==
  ASSUME CInv, Called, call' = call, NEW i, IsKept(i), BindFails(SlotAt(i))
  PROVE  Faithful'
<1>1. SlotAt(i) \in Nat /\ SlotAt(i) < Cardinality(Stored(Source)) /\ Cardinality(Stored(Source)) \in Nat
  BY KeptSlots
<1>2. CASE SlotAt(i) \notin Slots /\ Fail("INVALID_MODULE")
  <2>1. Cardinality(Stored(Source)) > MaxSlots
    BY <1>1, <1>2, SlotsAssumption DEF Slots
  <2>2. QED
    BY <1>2, <2>1, Fails
<1>3. CASE Fail("OUT_OF_MEMORY")
  BY <1>3, Fails
<1>4. QED
  BY <1>2, <1>3 DEF BindFails

(* What was replayed stays so when the slots it uses do. *)
LEMMA StillReplayed ==
  ASSUME call' = call, NEW k, Replayed(k), StoredUpTo(k)', UNCHANGED <<resultSlot, output>>
  PROVE  Replayed(k)'
<1>1. /\ Body' = Body /\ Value' = Value
      /\ SlotAt(Max(ComputesUpTo(k)))' = SlotAt(Max(ComputesUpTo(k)))
      /\ PrintsUpTo(k)' = PrintsUpTo(k) /\ ComputesUpTo(k)' = ComputesUpTo(k)
      /\ (PlacedUpTo(k)' <=> PlacedUpTo(k))
  <2>1. /\ Body' = Body /\ Value' = Value
        /\ \A i : /\ SlotAt(i)' = SlotAt(i) /\ PrintsUpTo(i)' = PrintsUpTo(i) /\ ComputesUpTo(i)' = ComputesUpTo(i)
                  /\ (PlacedUpTo(i)' <=> PlacedUpTo(i))
    BY SameCall
  <2>2. QED
    BY <2>1
<1>2. LatestIs(k)' <=> LatestIs(k)
  BY <1>1 DEF LatestIs
<1>3. PrintedUpTo(k)' <=> PrintedUpTo(k)
  BY <1>1 DEF PrintedUpTo
<1>4. QED
  BY <1>1, <1>2, <1>3 DEF Replayed

(* The result of the next op is bound. *)
LEMMA BoundHere ==
  ASSUME CInv, Called, NEW k \in 0 .. Len(Body) - 1, Replayed(k), NEW i, i = k + 1, IsKept(i),
         NEW b \in Buffers, NEW v \in Values, Bind(SlotAt(i), b, Size(Body[i]), v),
         UNCHANGED <<call, resultSlot, output>>
  PROVE  Replayed(k)' /\ HasRoom(i)' /\ Contents(i)' = v
<1> DEFINE s == SlotAt(i)
<1>1. TypeOK /\ SlotsOwnTheHeap
  BY DEF CInv, IInv
<1>2. Size(Body[i]) \in Nat /\ i \in 1 .. Len(Body) /\ k \in Nat
  BY EntryIs, ShapeIs
<1>3. /\ s \in Slots /\ slots'[s] = b /\ heap'[b].value = v
      /\ \A t \in Slots \ {s} :
           slots'[t] = slots[t] /\ (slots[t] # None => heap'[slots[t]] = heap[slots[t]])
  BY <1>1, <1>2, BindLeavesOthers
<1>4. heap'[b].size = Size(Body[i])
  <2>1. ReleasedHeap(s) \in [Buffers -> Buffer]
    BY <1>1, <1>3, ValuesAssumption DEF TypeOK, ReleasedHeap, Freed, Buffer
  <2>2. heap'[b] = Holding(Size(Body[i]), v)
    BY <2>1 DEF Bind
  <2>3. QED
    BY <2>2 DEF Holding
<1>5. /\ Body' = Body /\ s' = s
  BY SameCall
<1>6. b # None
  BY BuffersAssumption
<1>7. SlotBuffer(s)' = b
  BY <1>3, <1>5 DEF SlotBuffer, Slots
<1>8. HasRoom(i)' /\ Contents(i)' = v
  <2>1. IsBound(s)' /\ SizeOf(s)' = Size(Body[i]) /\ heap'[SlotBuffer(s)'].value = v
    BY <1>3, <1>4, <1>5, <1>6, <1>7 DEF IsBound, SizeOf
  <2>2. QED
    BY <1>5, <2>1 DEF HasRoom, Contents
<1>9. StoredUpTo(k)'
  <2>1. StoredUpTo(k)
    BY DEF Replayed
  <2>2. ASSUME NEW j \in 1 .. k, IsKept(j) PROVE SlotAt(j) # s
    BY <1>2, <2>2, KeptSlots
  <2>3. QED
    BY <1>3, <2>1, <2>2, OthersStay
<1>10. QED
  BY <1>8, <1>9, StillReplayed

(* One op more has been executed: each thing that is said of the ops so far. *)

(* Its value is kept. *)
LEMMA StoredNext ==
  ASSUME call' = call, Called, NEW k \in 0 .. Len(Body) - 1, NEW i, i = k + 1, StoredUpTo(k)',
         IsKept(i) => HasRoom(i)' /\ Contents(i)' = Value[i]
  PROVE  StoredUpTo(i)'
<1>1. /\ Value' = Value /\ \A j : IsKept(j)' <=> IsKept(j)
  BY SameCall
<1>2. k \in Nat
  BY EntryIs
<1>3. ASSUME NEW j \in 1 .. i, IsKept(j) PROVE HasRoom(j)' /\ Contents(j)' = Value[j]
  <2>1. CASE j = i
    BY <1>3, <2>1
  <2>2. CASE j # i
    <3>1. j \in 1 .. k
      BY <1>2, <2>2
    <3>2. QED
      BY <1>1, <1>3, <3>1 DEF StoredUpTo
  <2>3. QED
    BY <2>1, <2>2
<1>4. QED
  BY <1>1, <1>3 DEF StoredUpTo

(* It ran where it was placed. *)
LEMMA PlacedNext ==
  ASSUME call' = call, Called, NEW k \in 0 .. Len(Body) - 1, NEW i, i = k + 1, PlacedUpTo(k),
         IsCompute(i) => RanAsPlaced(i)
  PROVE  PlacedUpTo(i)'
<1>1. ComputesUpTo(i) = IF IsCompute(i) THEN ComputesUpTo(k) \cup {i} ELSE ComputesUpTo(k)
  BY ComputesNext
<1>2. PlacedUpTo(i)
  BY <1>1 DEF PlacedUpTo
<1>3. QED
  BY <1>2, SameCall

(* It is the last that was computed, if it was. *)
LEMMA LatestNext ==
  ASSUME call' = call, Called, NEW k \in 0 .. Len(Body) - 1, NEW i, i = k + 1, LatestIs(k),
         resultSlot' = IF IsCompute(i) THEN SlotAt(i) + 1 ELSE resultSlot
  PROVE  LatestIs(i)'
<1>1. /\ IsCompute(i) => ComputesUpTo(i) # {} /\ Max(ComputesUpTo(i)) = i
      /\ ~IsCompute(i) => ComputesUpTo(i) = ComputesUpTo(k)
  BY ComputesNext
<1>2. resultSlot' = IF ComputesUpTo(i) = {} THEN 0 ELSE SlotAt(Max(ComputesUpTo(i))) + 1
  <2>1. CASE IsCompute(i)
    BY <1>1, <2>1
  <2>2. CASE ~IsCompute(i)
    BY <1>1, <2>2 DEF LatestIs
  <2>3. QED
    BY <2>1, <2>2
<1>3. ComputesUpTo(i)' = ComputesUpTo(i) /\ \A j : SlotAt(j)' = SlotAt(j)
  BY SameCall
<1>4. QED
  BY <1>2, <1>3 DEF LatestIs

(* A sequence with one element more. *)
LEMMA AppendIs ==
  ASSUME NEW T, NEW s \in Seq(T), NEW e \in T, NEW n \in Nat, Len(s) = n
  PROVE  /\ Len(Append(s, e)) = n + 1 /\ Append(s, e)[n + 1] = e
         /\ \A p \in 1 .. n : Append(s, e)[p] = s[p]
OBVIOUS

(* It was printed, if it is a print. *)
LEMMA PrintedNext ==
  ASSUME call' = call, Called, NEW k \in 0 .. Len(Body) - 1, NEW i, i = k + 1, PrintedUpTo(k),
         output \in Seq(LineType), NEW l \in LineType,
         Body[i].op = "print" => l.value = Value[Body[i].args[1]],
         output' = IF Body[i].op = "print" THEN Append(output, l) ELSE output
  PROVE  PrintedUpTo(i)'
<1>1. /\ PrintsUpTo(k) \in Seq(Nat) /\ k \in Nat
      /\ Body[i].op = "print" => PrintsUpTo(i) = Append(PrintsUpTo(k), i)
      /\ Body[i].op # "print" => PrintsUpTo(i) = PrintsUpTo(k)
  BY PrintsNext, EntryIs
<1>2. PICK out \in Seq(LineType), prints \in Seq(Nat) : out = output /\ prints = PrintsUpTo(k)
  BY <1>1
<1>3. Len(out) = Len(prints) /\ \A p \in 1 .. Len(out) : out[p].value = Value[Body[prints[p]].args[1]]
  BY <1>2 DEF PrintedUpTo
<1>4. /\ Len(output') = Len(PrintsUpTo(i))
      /\ \A p \in 1 .. Len(output') : output'[p].value = Value[Body[PrintsUpTo(i)[p]].args[1]]
  <2>1. CASE Body[i].op # "print"
    BY <1>1, <1>2, <1>3, <2>1
  <2>2. CASE Body[i].op = "print"
    <3>1. output' = Append(out, l) /\ PrintsUpTo(i) = Append(prints, i) /\ i \in Nat
      BY <1>1, <1>2, <2>2
    <3>2. PICK n \in Nat : n = Len(out) /\ n = Len(prints)
      BY <1>3
    <3>3. /\ Len(Append(out, l)) = n + 1 /\ Len(Append(prints, i)) = n + 1
          /\ \A p \in 1 .. n : Append(out, l)[p] = out[p] /\ Append(prints, i)[p] = prints[p]
          /\ Append(out, l)[n + 1] = l /\ Append(prints, i)[n + 1] = i
      <4>1. Len(out) = n /\ Len(prints) = n
        BY <3>2
      <4>2. /\ Len(Append(out, l)) = n + 1 /\ Append(out, l)[n + 1] = l
            /\ \A p \in 1 .. n : Append(out, l)[p] = out[p]
        BY ONLY <4>1, AppendIs, out \in Seq(LineType), l \in LineType, n \in Nat
      <4>3. /\ Len(Append(prints, i)) = n + 1 /\ Append(prints, i)[n + 1] = i
            /\ \A p \in 1 .. n : Append(prints, i)[p] = prints[p]
        BY ONLY <3>1, <4>1, AppendIs, prints \in Seq(Nat), n \in Nat
      <4>4. QED
        BY <4>2, <4>3
    <3>4. ASSUME NEW p \in 1 .. n + 1 PROVE Append(out, l)[p].value = Value[Body[Append(prints, i)[p]].args[1]]
      <4>1. CASE p \in 1 .. n
        BY <1>3, <3>2, <3>3, <4>1
      <4>2. CASE p = n + 1
        BY <2>2, <3>3, <4>2
      <4>3. p \in 1 .. n \/ p = n + 1
        BY ONLY n \in Nat, p \in 1 .. n + 1
      <4>4. QED
        BY <4>1, <4>2, <4>3
    <3>5. QED
      BY <3>1, <3>3, <3>4
  <2>3. QED
    BY <2>1, <2>2
<1>5. PrintsUpTo(i)' = PrintsUpTo(i) /\ Body' = Body /\ Value' = Value
  BY SameCall
<1>6. QED
  BY <1>4, <1>5 DEF PrintedUpTo

(* One op more has been executed, and the host is behind it. *)
LEMMA OneMoreDone ==
  ASSUME CInv, call' = call, Called, NEW k \in 0 .. Len(Body) - 1, NEW i, i = k + 1,
         Replayed(k), StoredUpTo(k)',
         IsKept(i) => HasRoom(i)' /\ Contents(i)' = Value[i],
         IsCompute(i) => RanAsPlaced(i),
         resultSlot' = IF IsCompute(i) THEN SlotAt(i) + 1 ELSE resultSlot,
         NEW l \in LineType, Body[i].op = "print" => l.value = Value[Body[i].args[1]],
         output' = IF Body[i].op = "print" THEN Append(output, l) ELSE output,
         Continue, Place(i) = pc + 1
  PROVE  Faithful'
<1>1. StoredUpTo(k) /\ PlacedUpTo(k) /\ LatestIs(k) /\ PrintedUpTo(k) /\ output \in Seq(LineType)
  BY DEF Replayed, CInv, IInv, TypeOK
<1>2. StoredUpTo(i)'
  BY StoredNext
<1>3. PlacedUpTo(i)'
  BY <1>1, PlacedNext
<1>4. LatestIs(i)'
  BY <1>1, LatestNext
<1>5. PrintedUpTo(i)'
  BY <1>1, PrintedNext
<1>6. Place(i)' = Place(i) /\ Body' = Body
  BY SameCall
<1>7. i \in 0 .. Len(Body) /\ i \in Nat
  BY EntryIs
<1>8. Between(i)'
  BY <1>2, <1>3, <1>4, <1>5, <1>6, <1>7 DEF Between, Replayed, Continue
<1>9. QED
  BY <1>7, <1>8, GoesOn DEF Continue

(* There is something to print. *)
LEMMA SomeLine == \E l : l \in LineType
<1>1. [slot |-> 0, size |-> 0, value |-> Zero] \in LineType
  BY ValuesAssumption DEF LineType
<1>2. QED
  BY <1>1

(* What is not a step of a module the compiler writes. *)
LEMMA FetchSucceeds ==
  ASSUME CInv, FetchFails \/ WrongOperandCount
  PROVE  FALSE
<1>1. Replaying
  BY DEF FetchFails, WrongOperandCount, AtCommand, Replaying
<1>2. /\ InProgram(call, pc)
      /\ \E k \in 0 .. Len(Body) :
              \/ AtEnd(k) /\ Cmd.kind = "END"
              \/ AtConstant(k) /\ Cmd.kind = "CONST"
              \/ AtAlloc(k) /\ Cmd.kind = "ALLOC"
              \/ AtDispatch(k) /\ Cmd.kind = "DISPATCH"
              \/ AtPrint(k) /\ Cmd.kind = "PRINT"
  BY <1>1, Where
<1>3. /\ Cmd.kind # "other"
      /\ Cmd.kind = "CONST" => Len(Ops) = 3
      /\ Cmd.kind = "ALLOC" => Len(Ops) = 2
      /\ Cmd.kind = "PRINT" => Len(Ops) = 3
  BY <1>2 DEF AtConstant, AtAlloc, AtPrint, Ops
<1>4. QED
  BY <1>2, <1>3 DEF FetchFails, WrongOperandCount, AtCommand

(* ALLOC makes room for the result of its op. *)
LEMMA AllocFollows ==
  ASSUME CInv, Alloc
  PROVE  Faithful'
<1>1. Replaying /\ Cmd.kind = "ALLOC" /\ host = "fetch"
  BY DEF Alloc, AtCommand, Replaying
<1>2. PICK k \in 0 .. Len(Body) : AtAlloc(k)
  BY <1>1, Where
<1>3. Called /\ TypeOK /\ SlotsOwnTheHeap
  BY <1>1, Where
<1>4. PICK i \in Nat : i = k + 1
  BY <1>3, EntryIs
<1>5. /\ Between(k) /\ i \in 1 .. Len(Body) /\ IsCompute(i) /\ k \in 0 .. Len(Body) - 1
      /\ Cmd = [kind |-> "ALLOC", ops |-> <<SlotAt(i), Size(Body[i])>>]
  BY <1>2, <1>3, <1>4, EntryIs DEF AtAlloc
<1>6. Ops[1] = SlotAt(i) /\ Ops[2] = Size(Body[i]) /\ Size(Body[i]) \in Nat
  BY <1>3, <1>5, ShapeIs DEF Ops
<1>7. IsKept(i)
  BY <1>3, <1>5, OpIs DEF IsCompute
<1>8. /\ UNCHANGED <<call, resultSlot, gpu, output>>
      /\ \/ BindFails(SlotAt(i))
         \/ /\ \E b \in Buffers, v \in FreshValues(call, Size(Body[i])) : Bind(SlotAt(i), b, Size(Body[i]), v)
            /\ Continue
  BY <1>6 DEF Alloc, driver, effects
<1>9. CASE BindFails(SlotAt(i))
  BY <1>3, <1>7, <1>8, <1>9, BindRefused
<1>10. CASE /\ \E b \in Buffers, v \in FreshValues(call, Size(Body[i])) : Bind(SlotAt(i), b, Size(Body[i]), v)
            /\ Continue
  <2>1. FreshValues(call, Size(Body[i])) \subseteq Values
    BY ValuesAssumption DEF FreshValues
  <2>2. PICK b \in Buffers, v \in Values : Bind(SlotAt(i), b, Size(Body[i]), v)
    BY <1>10, <2>1
  <2>3. Replayed(k)
    BY <1>5 DEF Between
  <2>4. Replayed(k)' /\ HasRoom(i)'
    BY <1>3, <1>4, <1>5, <1>7, <1>8, <2>2, <2>3, BoundHere
  <2>5. host' = "fetch" /\ status' = "OK" /\ pc' = pc + 1 /\ pc = Place(k) /\ gpu = "idle"
    BY <1>1, <1>5, <1>10 DEF Continue, Between, CInv, IInv, HandlersOwnTheDriver
  <2>6. Place(k)' = Place(k) /\ Body' = Body /\ (IsCompute(i)' <=> IsCompute(i))
    BY <1>8, SameCall
  <2>7. Within(k)'
    BY <1>4, <1>5, <1>8, <2>4, <2>5, <2>6 DEF Within
  <2>8. QED
    BY <1>3, <1>5, <1>8, <2>5, <2>7, GoesOn, EntryIs
<1>11. QED
  BY <1>8, <1>9, <1>10

(* CONST binds the value of its op. *)
LEMMA ConstFollows ==
  ASSUME CInv, Const
  PROVE  Faithful'
<1>1. Replaying /\ Cmd.kind = "CONST" /\ host = "fetch"
  BY DEF Const, AtCommand, Replaying
<1>2. PICK k \in 0 .. Len(Body) : AtConstant(k)
  BY <1>1, Where
<1>3. Called /\ TypeOK /\ SlotsOwnTheHeap /\ pc \in Nat
  BY <1>1, Where
<1>4. PICK i \in Nat : i = k + 1
  BY <1>3, EntryIs
<1>5. /\ Between(k) /\ i \in 1 .. Len(Body) /\ Body[i].op = "constant" /\ IsKept(i) /\ k \in 0 .. Len(Body) - 1
      /\ Cmd = [kind |-> "CONST", ops |-> <<SlotAt(i), RodataOffset(Source, Position(i)), Size(Body[i])>>]
      /\ Place(i) = pc + 1
  BY <1>2, <1>3, <1>4, EntryIs DEF AtConstant
<1>6. /\ Ops[1] = SlotAt(i) /\ Ops[2] = RodataOffset(Source, Position(i)) /\ Ops[3] = Size(Body[i])
      /\ Size(Body[i]) \in Nat
  BY <1>3, <1>5, ShapeIs DEF Ops
<1>7. Literal(call.module, Ops[2], Ops[3]) = Value[i]
  BY <1>3, <1>5, <1>6, ConstantIs
<1>8. UNCHANGED <<call, resultSlot, gpu, output>>
  BY DEF Const, driver, effects
<1>9. M.hasRodata
  BY <1>3, SectionsAre DEF Called
<1>10. CASE BindFails(Ops[1])
  BY <1>3, <1>5, <1>6, <1>8, <1>10, BindRefused
<1>11. CASE M.hasRodata /\ call.device = "cuda" /\ Fail("DEVICE")
  BY <1>3, <1>8, <1>11, Fails
<1>12. CASE /\ \E b \in Buffers : Bind(Ops[1], b, Ops[3], Literal(call.module, Ops[2], Ops[3]))
            /\ Continue
  <2>1. PICK b \in Buffers : Bind(SlotAt(i), b, Size(Body[i]), Value[i])
    BY <1>6, <1>7, <1>12
  <2>2. Value[i] \in Values
    BY <1>7, ConstTyped, <1>3
  <2>3. Replayed(k)
    BY <1>5 DEF Between
  <2>4. Replayed(k)' /\ HasRoom(i)' /\ Contents(i)' = Value[i]
    BY <1>3, <1>4, <1>5, <1>8, <2>1, <2>2, <2>3, BoundHere
  <2>5. ~IsCompute(i)
    BY <1>5 DEF IsCompute, ComputeOps
  <2>6. PICK l \in LineType : TRUE
    BY SomeLine
  <2>7. StoredUpTo(k)'
    BY <2>4 DEF Replayed
  <2>8. QED
    BY <1>3, <1>4, <1>5, <1>8, <1>12, <2>3, <2>4, <2>5, <2>7, OneMoreDone
<1>13. QED
  BY <1>9, <1>10, <1>11, <1>12 DEF Const

(* The constants the compiler wrote are in RODATA. *)
LEMMA ConstantsAreInside ==
  ASSUME CInv, ConstOutsideRodata
  PROVE  FALSE
<1>1. Replaying /\ Cmd.kind = "CONST"
  BY DEF ConstOutsideRodata, AtCommand, Replaying
<1>2. PICK k \in 0 .. Len(Body) : AtConstant(k)
  BY <1>1, Where
<1>3. Called
  BY <1>1, Where
<1>4. PICK i \in 1 .. Len(Body) : i = k + 1
  BY <1>2 DEF AtConstant
<1>5. /\ Body[i].op = "constant" /\ IsKept(i)
      /\ Cmd = [kind |-> "CONST", ops |-> <<SlotAt(i), RodataOffset(Source, Position(i)), Size(Body[i])>>]
  BY <1>2, <1>4 DEF AtConstant
<1>6. Ops[2] = RodataOffset(Source, Position(i)) /\ Ops[3] = Size(Body[i])
  BY <1>5 DEF Ops
<1>7. ~OutsideRodata(Ops[2], Ops[3])
  BY <1>3, <1>5, <1>6, ConstantIs
<1>8. QED
  BY <1>7 DEF ConstOutsideRodata

(* What the kernel of a DISPATCH writes is what its op means. *)
LEMMA ResultIs ==
  ASSUME CInv, Called, InProgram(call, pc), NEW k \in 0 .. Len(Body), AtDispatch(k), NEW i, i = k + 1
  PROVE  Results = {Value[i]}
<1> DEFINE args   == Body[i].args
           inputs == InputsOf(Ops)
<1>1. /\ i \in 1 .. Len(Body) /\ IsCompute(i) /\ k \in Nat /\ Replayed(k)
      /\ Exe.kind = KernelOf(Body[i].op) /\ Exe.kind \in KernelKinds
      /\ Dst = SlotAt(i)
      /\ Len(args) \in {1, 2} /\ DOMAIN args = 1 .. Len(args)
      /\ \A a \in DOMAIN args : Args[a] = SlotAt(args[a]) /\ Ops[a + 2] = SlotAt(args[a])
      /\ DOMAIN inputs = DOMAIN args /\ \A a \in DOMAIN inputs : inputs[a] = Args[a]
      /\ Len(Ops) = Len(args) + 3
  BY DispatchIs
<1>2. ASSUME NEW a \in DOMAIN args
      PROVE  SlotAt(args[a]) # SlotAt(i) /\ Contents(args[a]) = Value[args[a]]
  <2>1. PICK r : r = args[a]
    OBVIOUS
  <2>2. r \in 1 .. k /\ IsKept(r) /\ Contents(r) = Value[r]
    BY <1>1, <2>1, Operand
  <2>3. IsKept(i)
    BY <1>1, OpIs DEF IsCompute
  <2>4. r # i
    BY <1>1, <2>2
  <2>5. SlotAt(r) # SlotAt(i)
    BY <2>2, <2>3, <2>4, KeptSlots
  <2> HIDE DEF args
  <2>6. QED
    BY <2>1, <2>2, <2>5
<1> HIDE DEF args, inputs
<1>3. ~ \E j \in 3 .. Len(Ops) - 1 : Ops[j] = DstOf(Ops)
  <2>1. SUFFICES ASSUME NEW j \in 3 .. Len(Ops) - 1 PROVE Ops[j] # SlotAt(i)
    BY <1>1 DEF Dst
  <2>2. PICK n \in {1, 2} : n = Len(args)
    BY <1>1
  <2>3. j \in 3 .. (n + 3) - 1
    BY <1>1, <2>2
  <2>4. PICK a \in 1 .. n : a = j - 2
    BY <2>3
  <2>5. a + 2 = j
    BY <2>3, <2>4
  <2>6. a \in DOMAIN args
    BY <1>1, <2>2
  <2>7. QED
    BY <1>1, <1>2, <2>5, <2>6
<1>4. [a \in DOMAIN inputs |-> heap[SlotBuffer(inputs[a])].value] = [a \in DOMAIN args |-> Value[args[a]]]
  <2>1. ASSUME NEW a \in DOMAIN args PROVE heap[SlotBuffer(inputs[a])].value = Value[args[a]]
    BY <1>1, <1>2 DEF Contents
  <2>2. QED
    BY <1>1, <2>1
<1>5. Value[i] = Kernel(Exe.kind, [a \in DOMAIN args |-> Value[args[a]]])
  <2>1. Body[i].op # "constant"
    BY <1>1 DEF IsCompute, ComputeOps
  <2>2. Value[i] = Valued(Value, i)
    BY <1>1, ValueIs
  <2>3. QED
    BY <1>1, <2>1, <2>2 DEF Valued, args
<1>6. QED
  BY <1>3, <1>4, <1>5 DEF Results, ResultValues, inputs

(* It leaves the values of the ops before it alone. *)
LEMMA KernelWrote ==
  ASSUME CInv, Called, InProgram(call, pc), NEW k \in 0 .. Len(Body), AtDispatch(k), NEW i, i = k + 1,
         RunReferenceKernel \/ KernelFinishes \/ KernelFaults
  PROVE  /\ StoredUpTo(k)' /\ HasRoom(i)'
         /\ RunReferenceKernel \/ KernelFinishes => Contents(i)' = Value[i]
<1>1. /\ i \in 1 .. Len(Body) /\ IsCompute(i) /\ k \in Nat /\ Replayed(k) /\ HasRoom(i) /\ Dst = SlotAt(i)
  BY DispatchIs
<1>2. IInv /\ TypeOK /\ SlotsOwnTheHeap
  BY DEF CInv, IInv
<1>3. /\ Dst \in Slots /\ SlotBuffer(Dst) = slots[Dst] /\ slots[Dst] \in Buffers /\ UNCHANGED <<call, slots>>
  BY <1>2, KernelWrites
<1>4. PICK b \in Buffers, v \in Values : b = slots[Dst] /\ heap' = [heap EXCEPT ![b].value = v]
  BY <1>2, KernelWrites
<1>5. /\ heap'[b].size = heap[b].size /\ heap'[b].value = v
      /\ \A c \in Buffers \ {b} : heap'[c] = heap[c]
  BY <1>2, <1>4 DEF TypeOK, Buffer
<1>6. Body' = Body /\ \A j : SlotAt(j)' = SlotAt(j)
  BY <1>3, SameCall
<1>7. SlotBuffer(SlotAt(i)) = b /\ SlotBuffer(SlotAt(i))' = b
  BY <1>1, <1>3, <1>4, <1>6 DEF SlotBuffer
<1>8. HasRoom(i)' /\ Contents(i)' = v
  BY <1>1, <1>5, <1>6, <1>7 DEF HasRoom, Contents, IsBound, SizeOf
<1>9. StoredUpTo(k)'
  <2>1. StoredUpTo(k)
    BY <1>1 DEF Replayed
  <2>2. ASSUME NEW j \in 1 .. k, IsKept(j) PROVE SlotAt(j) # Dst
    <3>1. IsKept(i)
      BY <1>1, OpIs DEF IsCompute
    <3>2. QED
      BY <1>1, <2>2, <3>1, KeptSlots
  <2>3. ASSUME NEW t \in Slots \ {Dst}
        PROVE  slots'[t] = slots[t] /\ (slots[t] # None => heap'[slots[t]] = heap[slots[t]])
    <3>1. slots[t] # None => slots[t] # b /\ slots[t] \in Buffers
      BY <1>2, <1>3, <1>4 DEF TypeOK, SlotsOwnTheHeap
    <3>2. QED
      BY <1>3, <1>5, <3>1
  <2>4. QED
    BY <1>3, <2>1, <2>2, <2>3, OthersStay
<1>10. ASSUME RunReferenceKernel \/ KernelFinishes PROVE v = Value[i]
  <2>1. Results = {Value[i]}
    BY ResultIs
  <2>2. PICK w \in Results : heap' = [heap EXCEPT ![SlotBuffer(Dst)].value = w]
    BY <1>10 DEF RunReferenceKernel, KernelFinishes
  <2>3. heap'[b].value = w
    BY <1>2, <1>3, <1>4, <2>2 DEF TypeOK, Buffer
  <2>4. QED
    BY <1>5, <2>1, <2>2, <2>3
<1>11. QED
  BY <1>8, <1>9, <1>10

(* A handler at a kernel goes on with the same op. *)
LEMMA HandlerGoesOn ==
  ASSUME CInv, Called, NEW k \in 0 .. Len(Body), Within(k),
         UNCHANGED <<call, slots, heap, resultSlot, output, pc, status>>, status = "OK",
         host' \in {"get_function", "launch", "synchronize"}, gpu' # "finished",
         call.device = "cuda", call.module.compiled
  PROVE  Faithful'
<1>1. /\ Replayed(k)' /\ (HasRoom(k + 1)' <=> HasRoom(k + 1))
  BY Stays DEF Within
<1>2. Body' = Body /\ Place(k)' = Place(k) /\ (IsCompute(k + 1)' <=> IsCompute(k + 1))
  BY SameCall
<1>3. Within(k)'
  BY <1>1, <1>2 DEF Within
<1>4. QED
  BY <1>3, GoesOn, EntryIs

(* Where the host is while it waits for a kernel. *)
LEMMA AtKernel ==
  ASSUME CInv, Replaying, host # "print_read", host = "fetch" => Cmd.kind = "DISPATCH"
  PROVE  /\ Called /\ InProgram(call, pc) /\ pc \in Nat /\ status = "OK" /\ TypeOK /\ HandlersOwnTheDriver
         /\ Cmd.kind = "DISPATCH"
         /\ \E k \in 0 .. Len(Body) : AtDispatch(k) /\ Within(k) /\ k \in Nat /\ k \in 0 .. Len(Body) - 1
         /\ host # "fetch" => call.device = "cuda" /\ call.module.compiled
<1>1. /\ Called /\ InProgram(call, pc) /\ pc \in Nat /\ status = "OK" /\ TypeOK /\ HandlersOwnTheDriver
      /\ \E k \in 0 .. Len(Body) :
              \/ AtEnd(k) /\ Cmd.kind = "END"
              \/ AtConstant(k) /\ Cmd.kind = "CONST"
              \/ AtAlloc(k) /\ Cmd.kind = "ALLOC"
              \/ AtDispatch(k) /\ Cmd.kind = "DISPATCH"
              \/ AtPrint(k) /\ Cmd.kind = "PRINT"
  BY Where
<1>2. Cmd.kind = "DISPATCH"
  BY <1>1 DEF Replaying, HandlersOwnTheDriver, Launching
<1>3. PICK k \in 0 .. Len(Body) : AtDispatch(k)
  BY <1>1, <1>2
<1>4. Within(k) /\ k \in Nat
  BY <1>1, <1>3, EntryIs DEF AtDispatch
<1>5. QED
  BY <1>1, <1>2, <1>3, <1>4 DEF Within

(* No kernel leaves its buffers. *)
LEMMA KernelsFit ==
  ASSUME CInv, KernelOverruns
  PROVE  FALSE
<1>1. Replaying /\ host # "print_read" /\ (host = "fetch" => Cmd.kind = "DISPATCH")
  <2>1. HandlersOwnTheDriver
    BY DEF CInv, IInv
  <2>2. QED
    BY <2>1 DEF KernelOverruns, RunsReference, Dispatching, AtCommand, HandlersOwnTheDriver, Replaying
<1>2. PICK k \in 0 .. Len(Body) : AtDispatch(k)
  BY <1>1, AtKernel
<1>3. Called /\ InProgram(call, pc)
  BY <1>1, AtKernel
<1>4. KernelFits
  BY <1>2, <1>3, DispatchFits
<1>5. QED
  BY <1>4 DEF KernelOverruns

(* A DISPATCH is refused for a placement only. *)
LEMMA RejectedFollows ==
  ASSUME CInv, DispatchRejected \/ DescriptorRejected \/ LaunchRejected
  PROVE  Faithful'
<1>1. Replaying /\ host # "print_read" /\ (host = "fetch" => Cmd.kind = "DISPATCH")
  BY DEF DispatchRejected, DescriptorRejected, LaunchRejected, Dispatching, AtCommand, Replaying
<1>2. PICK k \in 0 .. Len(Body) : AtDispatch(k)
  BY <1>1, AtKernel
<1>3. Called /\ InProgram(call, pc) /\ call \in Calls
  BY <1>1, AtKernel DEF Called
<1>4. PICK i : i = k + 1
  OBVIOUS
<1>5. /\ i \in 1 .. Len(Body) /\ IsCompute(i) /\ WellFormed /\ ArgsBound
      /\ Exe.kind \in KernelKinds /\ Len(Args) = Arity(Exe.kind) /\ Exe.device = RunsOn(i)
      /\ Exe.image = IF call.module.compiled /\ DeviceFor(i) = "cuda" THEN "inside" ELSE "none"
  BY <1>2, <1>3, <1>4, DispatchIs
<1>6. \A a \in DOMAIN Args : SizeOf(Args[a]) > 0
  BY <1>2, <1>3, <1>4, DispatchFits
<1>7. RunsOn(i) = "cuda" => DeviceFor(i) = "cuda" /\ OnCuda
  BY <1>5 DEF RunsOn, OnCuda, ComputesUpTo
<1>8. call.device \in {"cpu", "cuda"} /\ RunsOn(i) \in {"cpu", "cuda"}
  BY <1>3 DEF Calls, Devices, RunsOn
<1>9. call' = call
  BY DEF DispatchRejected, DescriptorRejected, LaunchRejected
<1>10. CASE DispatchRejected
  <2>1. ~Placed /\ Fail("DEVICE")
    BY <1>5, <1>10 DEF DispatchRejected
  <2>2. call.device = "cuda" \/ OnCuda
    BY <1>5, <1>7, <1>8, <2>1 DEF Placed
  <2>3. QED
    BY <1>3, <1>9, <2>1, <2>2, Fails
<1>11. CASE DescriptorRejected
  <2>1. "other" \notin KernelKinds
    BY DEF KernelKinds
  <2>2. PICK a \in DOMAIN Args : ~HostPointer(Args[a])
    BY <1>5, <1>11, <2>1 DEF DescriptorRejected
  <2>3. call.device = "cuda"
    BY <1>6, <1>8, <2>2 DEF HostPointer
  <2>4. Placed /\ Exe.image = "none" /\ Fail("UNIMPLEMENTED")
    BY <1>5, <1>11, <2>1, <2>2 DEF DescriptorRejected, Dispatching
  <2>5. OnCuda /\ ~call.module.compiled
    BY <1>5, <1>7, <2>3, <2>4 DEF Placed
  <2>6. QED
    BY <1>3, <1>9, <2>4, <2>5, Fails
<1>12. CASE LaunchRejected
  <2>1. Placed
    BY <1>12 DEF LaunchRejected, Dispatching
  <2>2. Exe.image = "inside" => RunsOn(i) = "cuda"
    BY <1>5 DEF RunsOn
  <2>3. call.device = "cuda" /\ Fail("DEVICE")
    BY <1>5, <1>12, <2>1, <2>2 DEF LaunchRejected, Placed
  <2>4. QED
    BY <1>3, <1>9, <2>3, Fails
<1>13. QED
  BY <1>10, <1>11, <1>12

(* A reference kernel computes its op, on the cpu. *)
LEMMA RunReferenceFollows ==
  ASSUME CInv, RunReferenceKernel
  PROVE  Faithful'
<1>1. Replaying /\ host # "print_read" /\ (host = "fetch" => Cmd.kind = "DISPATCH")
  BY DEF RunReferenceKernel, RunsReference, Dispatching, AtCommand, Replaying
<1>2. PICK k \in 0 .. Len(Body) : AtDispatch(k) /\ Within(k) /\ k \in 0 .. Len(Body) - 1
  BY <1>1, AtKernel
<1>3. Called /\ InProgram(call, pc) /\ call \in Calls
  BY <1>1, AtKernel DEF Called
<1>4. PICK i : i = k + 1
  OBVIOUS
<1>5. /\ i \in 1 .. Len(Body) /\ IsCompute(i) /\ Replayed(k) /\ Dst = SlotAt(i)
      /\ Exe.device = RunsOn(i) /\ Len(Body[i].args) \in {1, 2}
      /\ Exe.image = IF call.module.compiled /\ DeviceFor(i) = "cuda" THEN "inside" ELSE "none"
      /\ DOMAIN Args = 1 .. Len(Args) /\ Len(Args) = Len(Body[i].args) + 1
  BY <1>2, <1>3, <1>4, DispatchIs
<1>6. StoredUpTo(k)' /\ HasRoom(i)' /\ Contents(i)' = Value[i]
  BY <1>2, <1>3, <1>4, KernelWrote
<1>7. RanAsPlaced(i)
  <2>1. Placed /\ Exe.image = "none" /\ \A a \in DOMAIN Args : HostPointer(Args[a])
    BY DEF RunReferenceKernel, RunsReference, Dispatching
  <2>2. 1 \in DOMAIN Args
    <3>1. PICK n \in {1, 2} : n = Len(Body[i].args)
      BY <1>5
    <3>2. DOMAIN Args = 1 .. n + 1
      BY <1>5, <3>1
    <3>3. QED
      BY <3>2
  <2>3. call.device = "cpu"
    BY <2>1, <2>2 DEF HostPointer
  <2>4. QED
    BY <1>5, <2>1, <2>3 DEF RanAsPlaced, Placed, RunsOn
<1>8. /\ UNCHANGED <<call, output>> /\ Continue /\ resultSlot' = SlotAt(i) + 1
  BY <1>5 DEF RunReferenceKernel
<1>9. Body[i].op # "print"
  BY <1>5 DEF IsCompute, ComputeOps
<1>10. Place(i) = pc + 1
  BY <1>2, <1>4 DEF AtDispatch
<1>11. PICK l \in LineType : TRUE
  BY SomeLine
<1>12. QED
  BY <1>2, <1>3, <1>4, <1>5, <1>6, <1>7, <1>8, <1>9, <1>10, OneMoreDone

(* Device code is launched on cuda. *)
LEMMA LaunchFollows ==
  ASSUME CInv, LoadImage \/ GetFunction \/ LaunchKernel
  PROVE  Faithful'
<1>1. Replaying /\ host # "print_read" /\ (host = "fetch" => Cmd.kind = "DISPATCH")
  BY DEF LoadImage, GetFunction, LaunchKernel, Dispatching, AtCommand, Replaying
<1>2. PICK k \in 0 .. Len(Body) : AtDispatch(k) /\ Within(k)
  BY <1>1, AtKernel
<1>3. /\ Called /\ InProgram(call, pc) /\ status = "OK" /\ HandlersOwnTheDriver
      /\ host # "fetch" => call.device = "cuda" /\ call.module.compiled
  BY <1>1, AtKernel
<1>4. /\ call' = call /\ UNCHANGED <<slots, heap, resultSlot, output>>
      /\ gpu' # "finished" \/ gpu' = gpu
  BY DEF LoadImage, GetFunction, LaunchKernel, machine, effects
<1>5. gpu' # "finished"
  BY <1>3, <1>4 DEF HandlersOwnTheDriver, LoadImage, GetFunction, LaunchKernel, Dispatching, AtCommand
<1>6. CASE Fail("NOT_FOUND") \/ (Fail("DEVICE") /\ host = "launch")
  BY <1>3, <1>4, <1>6, Fails
<1>7. CASE host' \in {"get_function", "launch", "synchronize"} /\ UNCHANGED <<status, pc>>
  <2>1. call.device = "cuda" /\ call.module.compiled
    <3>1. CASE host = "fetch"
      <4>1. Exe.image = "inside" /\ call.device = "cuda"
        BY <3>1 DEF LoadImage, GetFunction, LaunchKernel
      <4>2. PICK i : i = k + 1
        OBVIOUS
      <4>3. Exe.image = IF call.module.compiled /\ DeviceFor(i) = "cuda" THEN "inside" ELSE "none"
        BY <1>2, <1>3, <4>2, DispatchIs
      <4>4. QED
        BY <4>1, <4>3
    <3>2. QED
      BY <1>3, <3>1
  <2>2. QED
    BY <1>2, <1>3, <1>4, <1>5, <1>7, <2>1, HandlerGoesOn
<1>8. QED
  BY <1>6, <1>7 DEF LoadImage, GetFunction, LaunchKernel

(* Its kernel has computed the op when the host hears of it. *)
LEMMA SynchronizeFollows ==
  ASSUME CInv, Synchronize
  PROVE  Faithful'
<1>1. Replaying /\ host # "print_read" /\ host # "fetch"
  BY DEF Synchronize, Replaying
<1>2. PICK k \in 0 .. Len(Body) : AtDispatch(k) /\ Within(k) /\ k \in 0 .. Len(Body) - 1
  BY <1>1, AtKernel
<1>3. /\ Called /\ InProgram(call, pc) /\ HandlersOwnTheDriver
      /\ call.device = "cuda" /\ call.module.compiled
  BY <1>1, AtKernel
<1>4. PICK i : i = k + 1
  OBVIOUS
<1>5. /\ i \in 1 .. Len(Body) /\ IsCompute(i) /\ Replayed(k) /\ Dst = SlotAt(i) /\ Exe.device = RunsOn(i)
  BY <1>2, <1>3, <1>4, DispatchIs
<1>6. UNCHANGED <<call, slots, heap, output>>
  BY DEF Synchronize
<1>7. CASE gpu = "finished" /\ Continue /\ resultSlot' = Dst + 1
  <2>1. HasRoom(i) /\ Contents(i) = Value[i]
    BY <1>2, <1>4, <1>7 DEF Within
  <2>2. HasRoom(i)' /\ Contents(i)' = Value[i] /\ StoredUpTo(k)'
    <3>1. Body' = Body /\ Value' = Value /\ \A j : SlotAt(j)' = SlotAt(j) /\ (IsKept(j)' <=> IsKept(j))
      BY <1>6, SameCall
    <3>2. \A j : (HasRoom(j)' <=> HasRoom(j)) /\ Contents(j)' = Contents(j)
      BY <1>6, <3>1 DEF HasRoom, Contents, IsBound, SizeOf, SlotBuffer
    <3>3. StoredUpTo(k)
      BY <1>5 DEF Replayed
    <3>4. QED
      BY <2>1, <3>1, <3>2, <3>3 DEF StoredUpTo
  <2>3. RanAsPlaced(i)
    BY <1>1, <1>3, <1>5 DEF RanAsPlaced, Placed, HandlersOwnTheDriver, Launching, Synchronize
  <2>4. Body[i].op # "print"
    BY <1>5 DEF IsCompute, ComputeOps
  <2>5. Place(i) = pc + 1
    BY <1>2, <1>4 DEF AtDispatch
  <2>6. PICK l \in LineType : TRUE
    BY SomeLine
  <2>7. QED
    BY <1>2, <1>3, <1>4, <1>5, <1>6, <1>7, <2>2, <2>3, <2>4, <2>5, OneMoreDone
<1>8. CASE Fail("DEVICE")
  BY <1>3, <1>6, <1>8, Fails
<1>9. QED
  BY <1>7, <1>8 DEF Synchronize

(* The kernel computes the op while the host waits, or faults. *)
LEMMA GpuFollows ==
  ASSUME CInv, GpuStep
  PROVE  Faithful'
<1>1. host = "synchronize" /\ gpu = "running" /\ HandlersOwnTheDriver
  BY DEF GpuStep, KernelFinishes, KernelFaults, CInv, IInv, HandlersOwnTheDriver
<1>2. Replaying /\ host # "print_read" /\ host # "fetch"
  BY <1>1 DEF Replaying
<1>3. PICK k \in 0 .. Len(Body) : AtDispatch(k) /\ Within(k) /\ k \in Nat
  BY <1>2, AtKernel
<1>4. Called /\ InProgram(call, pc) /\ status = "OK"
  BY <1>2, AtKernel
<1>5. PICK i : i = k + 1
  OBVIOUS
<1>6. StoredUpTo(k)' /\ HasRoom(i)' /\ (KernelFinishes => Contents(i)' = Value[i])
  BY <1>3, <1>4, <1>5, KernelWrote DEF GpuStep
<1>7. /\ UNCHANGED <<call, host, status, pc, resultSlot, output>>
      /\ gpu' = "finished" => KernelFinishes
  BY DEF GpuStep, KernelFinishes, KernelFaults, effects
<1>8. Replayed(k)'
  BY <1>3, <1>6, <1>7, StillReplayed DEF Within
<1>9. /\ Body' = Body /\ Value' = Value /\ \A j : Place(j)' = Place(j) /\ (IsCompute(j)' <=> IsCompute(j))
  BY <1>7, SameCall
<1>10. Within(k)'
  BY <1>3, <1>5, <1>6, <1>7, <1>8, <1>9 DEF Within
<1>11. QED
  BY <1>1, <1>3, <1>4, <1>7, <1>10, GoesOn

(* What a PRINT prints. *)
LEMMA PrintTyped ==
  ASSUME CInv, Called, InProgram(call, pc), NEW k \in 0 .. Len(Body), AtPrint(k)
  PROVE  PrintSize \in Nat /\ Printed \in LineType
<1>1. TypeOK
  BY DEF CInv, IInv
<1>2. Ops \in Seq(Nat) /\ Len(Ops) = 3 /\ IsBound(Ops[1])
  <2>1. Ops \in Seq(Nat)
    BY <1>1, CommandTyped
  <2>2. Len(Ops) = 3 /\ IsBound(Ops[1])
    BY PrintIs
  <2>3. QED
    BY <2>1, <2>2
<1>3. PICK a \in Nat, b \in Nat, c \in Nat : a = Ops[1] /\ b = Ops[2] /\ c = Ops[3]
  <2>1. PICK s \in Seq(Nat) : s = Ops
    BY <1>2
  <2>2. Len(s) = 3
    BY <1>2, <2>1
  <2>3. s[1] \in Nat /\ s[2] \in Nat /\ s[3] \in Nat
    <3>1. \A j \in 1 .. 3 : s[j] \in Nat
      BY <2>2, ElementOfSeq
    <3>2. QED
      BY <3>1
  <2>4. QED
    BY <2>1, <2>3
<1>4. b * c \in Nat
  OBVIOUS
<1>5. PrintSize \in Nat
  BY <1>3, <1>4 DEF PrintSize
<1>6. heap[SlotBuffer(Ops[1])].value \in Values
  <2>1. SlotBuffer(Ops[1]) \in Buffers
    BY <1>1, <1>2, BoundSlot
  <2>2. QED
    BY <1>1, <2>1 DEF TypeOK, Buffer
<1>7. QED
  BY <1>3, <1>5, <1>6 DEF Printed, LineType

(* A PRINT of the compiler is of what is there. *)
LEMMA PrintsFit ==
  ASSUME CInv, PrintRejected \/ PrintOverruns
  PROVE  FALSE
<1>1. Replaying /\ Cmd.kind = "PRINT"
  BY DEF PrintRejected, PrintOverruns, AtCommand, Replaying, CInv, IInv, HandlersOwnTheDriver
<1>2. PICK k \in 0 .. Len(Body) : AtPrint(k)
  BY <1>1, Where
<1>3. Called /\ InProgram(call, pc) /\ TypeOK
  BY <1>1, Where
<1>4. Printable /\ PrintSize < SizeLimit
  BY <1>2, <1>3, PrintIs
<1>5. PrintSize \in Nat
  BY <1>2, <1>3, PrintTyped
<1>6. QED
  BY <1>4, <1>5, SizeAssumption DEF PrintRejected, PrintOverruns

(* It prints the value of its operand, after those before it. *)
LEMMA PrintFollows ==
  ASSUME CInv, PrintMapped \/ PrintStage \/ PrintRead
  PROVE  Faithful'
<1>1. Replaying /\ Cmd.kind = "PRINT"
  BY DEF PrintMapped, PrintStage, PrintRead, AtCommand, Replaying, CInv, IInv, HandlersOwnTheDriver
<1>2. PICK k \in 0 .. Len(Body) : AtPrint(k)
  BY <1>1, Where
<1>3. Called /\ InProgram(call, pc) /\ TypeOK /\ status = "OK"
  BY <1>1, Where
<1>4. PICK i \in Nat : i = k + 1
  BY <1>3, EntryIs
<1>5. /\ Between(k) /\ i \in 1 .. Len(Body) /\ Body[i].op = "print" /\ k \in 0 .. Len(Body) - 1
      /\ Place(i) = pc + 1
  BY <1>2, <1>3, <1>4, EntryIs DEF AtPrint
<1>6. /\ UNCHANGED <<call, slots, heap, resultSlot>>
  BY DEF PrintMapped, PrintStage, PrintRead, machine
<1>7. CASE Fail("OUT_OF_MEMORY") \/ (call.device = "cuda" /\ Fail("DEVICE"))
  BY <1>3, <1>6, <1>7, Fails
<1>8. CASE host' = "print_read" /\ UNCHANGED <<status, pc, output>>
  <2>1. Replayed(k)' /\ Place(k)' = Place(k) /\ Body' = Body
    BY <1>5, <1>6, <1>8, Stays, SameCall DEF Between
  <2>2. Between(k)'
    BY <1>5, <1>8, <2>1 DEF Between
  <2>3. k \in Nat
    BY <1>5
  <2>4. QED
    BY <1>3, <1>6, <1>8, <2>2, <2>3, GoesOn
<1>9. CASE output' = Append(output, Printed) /\ Continue
  <2>1. Printed \in LineType /\ Printed.value = Value[Body[i].args[1]]
    BY <1>2, <1>3, <1>4, PrintTyped, PrintIs
  <2>2. ~IsKept(i) /\ ~IsCompute(i)
    <3>1. PICK o : o = Body[i]
      OBVIOUS
    <3>2. o.op = "print" /\ (IsKept(i) => o.op \in ComputeOps \cup {"constant"})
      BY <1>3, <1>5, <3>1, OpIs
    <3>3. QED
      BY <1>5, <3>2 DEF IsCompute, ComputeOps
  <2>3. Replayed(k) /\ StoredUpTo(k)
    BY <1>5 DEF Between, Replayed
  <2>4. StoredUpTo(k)'
    <3>1. Body' = Body /\ Value' = Value /\ \A j : SlotAt(j)' = SlotAt(j) /\ (IsKept(j)' <=> IsKept(j))
      BY <1>6, SameCall
    <3>2. \A j : (HasRoom(j)' <=> HasRoom(j)) /\ Contents(j)' = Contents(j)
      BY <1>6, <3>1 DEF HasRoom, Contents, IsBound, SizeOf, SlotBuffer
    <3>3. QED
      BY <2>3, <3>1, <3>2 DEF StoredUpTo
  <2>5. PICK l \in LineType : l = Printed
    BY <2>1
  <2>6. QED
    BY <1>3, <1>4, <1>5, <1>6, <1>9, <2>1, <2>2, <2>3, <2>4, <2>5, OneMoreDone
<1>10. QED
  BY <1>7, <1>8, <1>9 DEF PrintMapped, PrintStage, PrintRead, effects

(* The last result, when there is one. *)
LEMMA LatestHere ==
  ASSUME CInv, Called, Replayed(Len(Body)), resultSlot > 0 \/ ComputesUpTo(Len(Body)) # {},
         NEW m, m = Max(ComputesUpTo(Len(Body)))
  PROVE  /\ m \in ComputesUpTo(Len(Body)) /\ ComputesUpTo(Len(Body)) # {}
         /\ resultSlot > 0 /\ resultSlot - 1 = SlotAt(m) /\ HasRoom(m) /\ Contents(m) = Value[m]
<1>1. resultSlot = IF ComputesUpTo(Len(Body)) = {} THEN 0 ELSE SlotAt(m) + 1
  BY DEF Replayed, LatestIs
<1>2. ComputesUpTo(Len(Body)) # {}
  BY <1>1
<1>3. Len(Body) \in Nat
  BY EntryIs
<1>4. ComputesUpTo(Len(Body)) \in SUBSET (1 .. Len(Body))
  BY DEF ComputesUpTo
<1>5. m \in ComputesUpTo(Len(Body))
  BY <1>2, <1>3, <1>4, GreatestOf
<1>6. m \in 1 .. Len(Body) /\ IsCompute(m)
  BY <1>5 DEF ComputesUpTo
<1>7. IsKept(m)
  BY <1>6, OpIs DEF IsCompute
<1>8. SlotAt(m) \in Nat
  BY <1>7, KeptSlots
<1>9. HasRoom(m) /\ Contents(m) = Value[m]
  BY <1>6, <1>7 DEF Replayed, StoredUpTo
<1>10. QED
  BY <1>1, <1>2, <1>5, <1>8, <1>9

(* END captures the value of the last op computed, if it is long enough. *)
LEMMA EndFollows ==
  ASSUME CInv, End
  PROVE  Faithful'
<1>1. Replaying /\ Cmd.kind = "END"
  BY DEF End, AtCommand, Replaying
<1>2. PICK k \in 0 .. Len(Body) : AtEnd(k)
  BY <1>1, Where
<1>3. Called /\ TypeOK /\ status = "OK"
  BY <1>1, Where
<1>4. Replayed(Len(Body))
  BY <1>2 DEF AtEnd, Between
<1>5. PICK m : m = Max(ComputesUpTo(Len(Body)))
  OBVIOUS
<1>6. /\ call' = call /\ host' = "done" /\ UNCHANGED <<output, resultSlot>>
  BY DEF End
<1>7. call.out \in Nat
  BY <1>3, CallsAssumption DEF TypeOK, Calls
<1>8. CASE status' = "INVALID_ARGUMENT" /\ WantsResult /\ ~Capturable
  <2>1. m \in ComputesUpTo(Len(Body)) /\ resultSlot - 1 = SlotAt(m) /\ HasRoom(m)
    BY <1>3, <1>4, <1>5, <1>8, LatestHere DEF WantsResult
  <2>2. ~(call.out <= Size(Body[m]))
    BY <1>8, <2>1 DEF Capturable, HasRoom
  <2>3. m \in 1 .. Len(Body)
    BY <2>1 DEF ComputesUpTo
  <2>4. Size(Body[m]) \in Nat
    BY <1>3, <2>3, ShapeIs
  <2>5. call.out > Body[m].rows * Body[m].cols
    <3>1. IsKept(m)
      BY <1>3, <2>1, <2>3, OpIs DEF ComputesUpTo, IsCompute
    <3>2. Size(Body[m]) = Body[m].rows * Body[m].cols
      BY <1>3, <2>3, <3>1, ShapeIs
    <3>3. call.out > Size(Body[m])
      BY <1>7, <2>2, <2>4
    <3>4. QED
      BY <3>2, <3>3
  <2>6. MayRefuse(status')
    BY <1>3, <1>5, <1>8, <2>5 DEF MayRefuse
  <2>7. QED
    BY <1>6, <1>8, <2>6, Left
<1>9. CASE status' = "DEVICE" /\ call.device = "cuda"
  <2>1. MayRefuse(status')
    BY <1>3, <1>9 DEF MayRefuse
  <2>2. QED
    BY <1>6, <1>9, <2>1, Left
<1>10. CASE status' = "OK" /\ (~WantsResult \/ captured' = heap[SlotBuffer(resultSlot - 1)].value)
  <2>1. ASSUME call.out > 0, ComputesUpTo(Len(Body)) # {} PROVE captured' = Value[m]
    <3>1. resultSlot > 0 /\ resultSlot - 1 = SlotAt(m) /\ Contents(m) = Value[m]
      BY <1>3, <1>4, <1>5, <2>1, LatestHere
    <3>2. QED
      BY <1>10, <2>1, <3>1 DEF WantsResult, Contents
  <2>2. /\ Called' /\ Body' = Body /\ Value' = Value
        /\ \A i : /\ PlacedUpTo(i)' <=> PlacedUpTo(i)
                  /\ ComputesUpTo(i)' = ComputesUpTo(i) /\ PrintsUpTo(i)' = PrintsUpTo(i)
    BY <1>3, <1>6, SameCall
  <2>3. PlacedUpTo(Len(Body))' /\ PrintedUpTo(Len(Body))'
    BY <1>4, <1>6, <2>2 DEF Replayed, PrintedUpTo
  <2>4. Answered'
    BY <1>5, <1>6, <2>1, <2>2, <2>3 DEF Answered
  <2>5. MayRefuse(status)'
    BY <1>6, <1>10, SameRefusals DEF MayRefuse
  <2>6. QED
    BY <1>6, <2>4, <2>5 DEF Faithful, Follows, Replaying, Starts
<1>11. QED
  BY <1>3, <1>8, <1>9, <1>10 DEF End

(* Nothing has been replayed yet. *)
LEMMA InitFollows ==
  ASSUME Init
  PROVE  Faithful
BY DEF Init, InitMachine, Faithful, Follows, Replaying, Starts, MayRefuse, Answered

-----------------------------------------------------------------------------
(* What that shows of an answer. *)

(* Nothing happens. *)
LEMMA FaithfulStays ==
  ASSUME CInv, UNCHANGED vars
  PROVE  Faithful'
<1>1. UNCHANGED <<call, host, status, pc, slots, heap, resultSlot, gpu, output, captured>>
  BY DEF vars, machine, driver, effects
<1>2. /\ Body' = Body /\ Value' = Value /\ (Called' <=> Called)
      /\ \A i : /\ Place(i)' = Place(i) /\ (IsCompute(i)' <=> IsCompute(i)) /\ (PlacedUpTo(i)' <=> PlacedUpTo(i))
                /\ ComputesUpTo(i)' = ComputesUpTo(i) /\ PrintsUpTo(i)' = PrintsUpTo(i)
  BY <1>1, SameCall
<1>3. \A k : /\ Replayed(k)' <=> Replayed(k)
             /\ HasRoom(k)' <=> HasRoom(k)
             /\ Contents(k)' = Contents(k)
  BY <1>1, Stays
<1>4. \A k : (Between(k)' <=> Between(k)) /\ (Within(k)' <=> Within(k))
  BY <1>1, <1>2, <1>3 DEF Between, Within
<1>5. Follows'
  BY <1>1, <1>2, <1>4 DEF CInv, Faithful, Follows, Replaying
<1>6. Answered'
  BY <1>1, <1>2 DEF CInv, Faithful, Answered, PrintedUpTo
<1>7. MayRefuse(status)'
  <2>1. MayRefuse(status)' <=> MayRefuse(status')
    BY <1>1, SameRefusals
  <2>2. MayRefuse(status)
    BY DEF CInv, Faithful
  <2>3. MayRefuse(status')
    BY <1>1, <2>2
  <2>4. QED
    BY <2>1, <2>3
<1>8. QED
  BY <1>1, <1>5, <1>6, <1>7 DEF CInv, Faithful, Starts

(* No step of the host or the GPU leaves the graph. *)
LEMMA FaithfulPreserved ==
  ASSUME CInv, [Next]_vars
  PROVE  Faithful'
<1>1. CASE HostStep
  <2>1. CASE StartFails \/ Start \/ Exit
    BY <2>1, StartFailsFollows, StartFollows, ExitFollows
  <2>2. CASE FetchFails \/ WrongOperandCount \/ ConstOutsideRodata
    BY <2>2, FetchSucceeds, ConstantsAreInside
  <2>3. CASE Alloc \/ Const
    BY <2>3, AllocFollows, ConstFollows
  <2>4. CASE DispatchRejected \/ DescriptorRejected \/ LaunchRejected
    BY <2>4, RejectedFollows
  <2>5. CASE RunReferenceKernel
    BY <2>5, RunReferenceFollows
  <2>6. CASE LoadImage \/ GetFunction \/ LaunchKernel
    BY <2>6, LaunchFollows
  <2>7. CASE Synchronize
    BY <2>7, SynchronizeFollows
  <2>8. CASE PrintRejected \/ PrintOverruns
    BY <2>8, PrintsFit
  <2>9. CASE PrintMapped \/ PrintStage \/ PrintRead
    BY <2>9, PrintFollows
  <2>10. CASE End
    BY <2>10, EndFollows
  <2>11. QED
    BY <1>1, <2>1, <2>2, <2>3, <2>4, <2>5, <2>6, <2>7, <2>8, <2>9, <2>10 DEF HostStep
<1>2. CASE GpuStep
  BY <1>2, GpuFollows
<1>3. CASE KernelOverruns
  BY <1>3, KernelsFit
<1>4. CASE UNCHANGED vars
  BY <1>4, FaithfulStays
<1>5. QED
  BY <1>1, <1>2, <1>3, <1>4 DEF Next

(* The arguments do not change, nor whether the shapes of the graph fit. *)
LEMMA SameShapes ==
  ASSUME [Next]_vars
  PROVE  Fits' <=> Fits
<1>1. call' = call
  BY DEF Next, HostStep, GpuStep, vars, StartFails, Start, FetchFails, WrongOperandCount, Alloc,
      ConstOutsideRodata, Const, DispatchRejected, DescriptorRejected, RunReferenceKernel,
      LaunchRejected, LoadImage, GetFunction, LaunchKernel, Synchronize, PrintRejected,
      PrintMapped, PrintStage, PrintRead, PrintOverruns, KernelOverruns, KernelFinishes,
      KernelFaults, End, Exit
<1>2. QED
  BY <1>1 DEF Fits, Graph

(* The host follows a graph whose shapes fit: where it is, the slots hold the values of
   the ops before it, each computed on its device, and what was printed is what they
   print. *)
THEOREM Fidelity == Spec => [](Fits => CInv)
<1>1. Init => (Fits => Faithful)
  BY InitFollows
<1>2. IInv /\ (Fits => Faithful) /\ [Next]_vars => (Fits => Faithful)'
  <2>1. SUFFICES ASSUME IInv, Fits => Faithful, [Next]_vars, Fits'
                 PROVE  Faithful'
    OBVIOUS
  <2>2. CInv
    BY <2>1, SameShapes DEF CInv
  <2>3. QED
    BY <2>1, <2>2, FaithfulPreserved
<1>3. Spec => []IInv
  BY Invariance
<1>4. (Fits => CInv) <=> (Fits => IInv /\ Faithful)
  BY DEF CInv
<1>5. QED
  BY <1>1, <1>2, <1>3, <1>4, PTL DEF Spec

(* All the ops of the graph. *)
LEMMA SameOps ==
  ASSUME Called
  PROVE  /\ ComputeIn(Body) = ComputesUpTo(Len(Body))
         /\ PrintsIn(Body) = PrintsUpTo(Len(Body)) /\ PrintsUpTo(Len(Body)) \in Seq(Nat)
<1>1. DOMAIN Body = 1 .. Len(Body) /\ Len(Body) \in Nat
  BY EntryIs
<1>2. ComputeIn(Body) = ComputesUpTo(Len(Body))
  BY <1>1 DEF ComputeIn, ComputesUpTo, IsCompute
<1>3. PrintsIn(Body) = PrintsUpTo(Len(Body))
  BY <1>1, Zenon DEF PrintsIn, PrintsUpTo
<1>4. PrintsUpTo(Len(Body)) \in Seq(Nat)
  <2>1. CASE Len(Body) = 0
    <3>1. PrintsUpTo(0) = <<>>
      <4>1. 1 .. 0 = {}
        OBVIOUS
      <4>2. QED
        BY <4>1 DEF PrintsUpTo, FlattenSeq
    <3>2. PrintsUpTo(Len(Body)) = PrintsUpTo(0)
      BY ONLY <2>1, Zenon
    <3>3. <<>> \in Seq(Nat)
      OBVIOUS
    <3>4. QED
      BY ONLY <3>1, <3>2, <3>3, Zenon
  <2>2. CASE Len(Body) # 0
    <3>1. PICK k \in 0 .. Len(Body) - 1 : k + 1 = Len(Body) /\ k + 1 \in Nat
      <4>1. PICK n \in Nat : n = Len(Body) /\ n # 0
        BY <1>1, <2>2
      <4>2. n - 1 \in 0 .. n - 1 /\ (n - 1) + 1 = n
        BY <4>1
      <4>3. QED
        BY <4>1, <4>2
    <3>2. PrintsUpTo(k) \in Seq(Nat)
      BY PrintsNext
    <3>3. PrintsUpTo(k + 1) = Append(PrintsUpTo(k), k + 1) \/ PrintsUpTo(k + 1) = PrintsUpTo(k)
      BY PrintsNext
    <3>4. PrintsUpTo(k + 1) \in Seq(Nat)
      BY <3>1, <3>2, <3>3
    <3>5. QED
      BY <3>1, <3>4
  <2>3. QED
    BY <2>1, <2>2
<1>5. QED
  BY <1>2, <1>3, <1>4

(* interpreter.c: a compiled module of shapes that fit, once accepted, prints what its graph prints,
   in order, and captures the value it computes last. *)
THEOREM Answers == Spec => []AnswersAreTheGraphs
<1>1. (Fits => CInv) => AnswersAreTheGraphs
  <2>1. SUFFICES ASSUME CInv, host = "done", status = "OK"
                 PROVE  /\ [i \in DOMAIN output |-> output[i].value]
                             = [p \in DOMAIN PrintsIn(Body) |-> Value[Body[PrintsIn(Body)[p]].args[1]]]
                        /\ call.out > 0 /\ ComputeIn(Body) # {} => captured = Value[Max(ComputeIn(Body))]
    BY DEF AnswersAreTheGraphs
  <2>2. Answered /\ output \in Seq(LineType)
    BY <2>1 DEF CInv, Faithful, IInv, TypeOK
  <2>3. /\ Called /\ PrintedUpTo(Len(Body))
        /\ call.out > 0 /\ ComputesUpTo(Len(Body)) # {} => captured = Value[Max(ComputesUpTo(Len(Body)))]
    BY <2>1, <2>2 DEF Answered
  <2>4. PICK prints \in Seq(Nat), out \in Seq(LineType) : prints = PrintsUpTo(Len(Body)) /\ out = output
    BY <2>2, <2>3, SameOps
  <2>5. PrintsIn(Body) = prints /\ ComputeIn(Body) = ComputesUpTo(Len(Body))
    BY <2>3, <2>4, SameOps
  <2>6. Len(out) = Len(prints) /\ \A p \in 1 .. Len(out) : out[p].value = Value[Body[prints[p]].args[1]]
    BY <2>3, <2>4 DEF PrintedUpTo
  <2>7. [i \in DOMAIN out |-> out[i].value] = [p \in DOMAIN prints |-> Value[Body[prints[p]].args[1]]]
    <3>1. DOMAIN out = 1 .. Len(out) /\ DOMAIN prints = 1 .. Len(out)
      BY <2>6
    <3>2. QED
      BY <2>6, <3>1
  <2>8. QED
    BY <2>3, <2>4, <2>5, <2>7
<1>2. QED
  BY <1>1, Fidelity, PTL

(* ModuleSerializer.cpp and interpreter.c: a kernel or a print leaves its buffers only
   where the shapes of the graph do not fit; otherwise what one writes is valid to the
   other, unless it has too many values. *)
THEOREM Validity == Spec => []CompiledModulesAreValid
<1>1. (Fits => CInv) => CompiledModulesAreValid
  <2>1. SUFFICES ASSUME CInv PROVE CompiledModulesAreValid
    BY DEF CompiledModulesAreValid
  <2>2. MayRefuse(status) /\ host # "undefined"
    BY <2>1 DEF CInv, Faithful
  <2>3. ASSUME status = "INVALID_ARGUMENT"
        PROVE  call.out > Body[Max(ComputeIn(Body))].rows * Body[Max(ComputeIn(Body))].cols
    <3>1. Called /\ call.out > Body[Max(ComputesUpTo(Len(Body)))].rows * Body[Max(ComputesUpTo(Len(Body)))].cols
      BY <2>2, <2>3 DEF MayRefuse
    <3>2. QED
      BY <3>1, SameOps
  <2>4. QED
    BY <2>2, <2>3 DEF MayRefuse, CompiledModulesAreValid, Source
<1>2. QED
  BY <1>1, Fidelity, PTL

(* A compiled module of shapes that fit runs on the device all its ops are run on, and is refused for
   a placement only if one of them is on cuda. *)
THEOREM PlacementsDecide == Spec => []PlacementDecides
<1>1. (Fits => CInv) => PlacementDecides
  <2> DEFINE devices == {RunsOn(i) : i \in ComputeIn(Body)}
  <2>1. SUFFICES ASSUME CInv PROVE PlacementDecides
    BY DEF PlacementDecides
  <2>2. MayRefuse(status) /\ Answered
    BY <2>1 DEF CInv, Faithful
  <2>3. ASSUME Called PROVE /\ devices = {RunsOn(i) : i \in ComputesUpTo(Len(Body))}
                            /\ OnCuda <=> "cuda" \in devices
    BY <2>3, SameOps DEF RunsOn, OnCuda
  <2>4. ASSUME status = "OK", host = "done"
        PROVE  devices \subseteq {call.device} /\ ("cuda" \in devices => call.module.compiled)
    <3>1. Called /\ PlacedUpTo(Len(Body))
      BY <2>2, <2>4 DEF Answered
    <3>2. ASSUME NEW i \in ComputesUpTo(Len(Body))
          PROVE  RunsOn(i) = call.device /\ (RunsOn(i) = "cuda" => call.module.compiled)
      BY <3>1 DEF PlacedUpTo, RanAsPlaced, RunsOn
    <3>3. QED
      BY <2>3, <3>1, <3>2
  <2>5. status = "UNIMPLEMENTED" => "cuda" \in devices /\ ~call.module.compiled
    BY <2>2, <2>3 DEF MayRefuse
  <2>6. status = "DEVICE" /\ call.device = "cpu" => "cuda" \in devices
    BY <2>2, <2>3 DEF MayRefuse
  <2>7. QED
    BY <2>4, <2>5, <2>6 DEF PlacementDecides
<1>2. QED
  BY <1>1, Fidelity, PTL
=============================================================================
