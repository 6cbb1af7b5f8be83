---------------------------- MODULE Interpreter ----------------------------
(***************************************************************************)
(* hexir_execute_capture (runtime/src/vm/interpreter.c): one call replays  *)
(* the command list of a loaded module against the HAL and its two         *)
(* backends (runtime/src/hal).  The host thread is sequential; a CUDA      *)
(* kernel runs on the GPU concurrently with it, between cuLaunchKernel and *)
(* the end of cuCtxSynchronize.  Every driver call and every allocation    *)
(* may fail.                                                               *)
(***************************************************************************)
EXTENDS Program, FiniteSets

CONSTANTS
  Buffers,         (* addresses the allocators can return: bounds memory  *)
  MaxArgs          (* entries of buffers[] and args[] in vm_dispatch      *)

Errors == {"INVALID_ARGUMENT", "INVALID_MODULE", "NOT_FOUND", "OUT_OF_MEMORY",
           "DEVICE", "UNIMPLEMENTED"}
HostStates ==
  {"start", "fetch", "get_function", "launch", "synchronize", "print_read",
   "exit", "done", "undefined"}

ASSUME BuffersAssumption == None \notin Buffers
ASSUME ArgsAssumption    == MaxArgs \in Nat \ {0}

VARIABLES
  call,        (* the arguments; never changes                             *)
  host,        (* where the host thread is                                 *)
  status,      (* the local `status`                                       *)
  pc,          (* the local `pc`, in commands                              *)
  slots,       (* vm_state_t.slots                                         *)
  heap,        (* the allocators: what each address holds                  *)
  resultSlot,  (* result_slot + 1; 0 is the code's -1                      *)
  staging,     (* the staging buffer of vm_print is allocated              *)
  cumodule,    (* a CUmodule is loaded                                     *)
  gpu,         (* the kernel on the GPU                                    *)
  output,      (* what was printed                                         *)
  captured,    (* what was copied to out_result                            *)
  last         (* history: the last dispatch that ran to its end           *)

(* An address that is not allocated, and one that is. *)
Freed == [live |-> FALSE, size |-> 0, value |-> Zero]
Holding(size, value) == [live |-> TRUE, size |-> size, value |-> value]

machine == <<slots, heap, resultSlot>>
driver  == <<staging, cumodule, gpu>>
effects == <<output, captured, last>>
vars    == <<call, host, status, pc, machine, driver, effects>>

-----------------------------------------------------------------------------
(* Reading the program.                                                      *)

M    == Sections(call.module)
Cmd  == CommandAt(call, pc)
Ops  == Cmd.ops
Exe  == ExeOf(call, Ops)
Args == ArgsOf(Ops)
Dst  == DstOf(Ops)
AtCommand(kind) == host = "fetch" /\ InProgram(call, pc) /\ Cmd.kind = kind

(* vm_slot: NULL past the table, and for a slot nothing is bound to. *)
SlotBuffer(s) == IF s \in Slots THEN slots[s] ELSE None
IsBound(s)    == SlotBuffer(s) # None
SizeOf(s)     == heap[SlotBuffer(s)].size

(* hexir_buffer_host_pointer is NULL on CUDA, and on the CPU when calloc was
   not called because the size is 0. *)
HostPointer(s) == call.device = "cpu" /\ SizeOf(s) > 0

Free == {b \in Buffers : ~heap[b].live}

-----------------------------------------------------------------------------
(* How a handler ends.                                                       *)

Continue == host' = "fetch" /\ status' = "OK" /\ pc' = pc + 1

(* The loop condition fails; vm_release is what is left to do. *)
Fail(s) == host' = "exit" /\ status' = s /\ pc' = pc

(* Mutant: vm_bind overwrites the slot without releasing what it held. *)
ReleasedHeapForgets(s) == heap

(* hexir_buffer_release of what slot s holds, then NULL. *)
ReleasedHeap(s) ==
  IF slots[s] = None THEN heap ELSE [heap EXCEPT ![slots[s]] = Freed]

(* Mutant: a buffer that is handed out again keeps what it held. *)
BindReuses(s, b, size, value) ==
  /\ s \in Slots
  /\ b \in Free \cup ({slots[s]} \ {None})
  /\ heap' = [ReleasedHeap(s) EXCEPT ![b] = IF b = slots[s] THEN heap[b] ELSE Holding(size, value)]
  /\ slots' = [slots EXCEPT ![s] = b]

(* vm_bind succeeds: the old buffer is released first, so the allocator may
   hand its address out again. *)
Bind(s, b, size, value) ==
  /\ s \in Slots
  /\ b \in Free \cup ({slots[s]} \ {None})
  /\ heap' = [ReleasedHeap(s) EXCEPT ![b] = Holding(size, value)]
  /\ slots' = [slots EXCEPT ![s] = b]

(* vm_bind fails, with the slot out of range or with no memory; in the second
   case the old buffer is already gone. *)
BindFails(s) ==
  \/ /\ s \notin Slots
     /\ Fail("INVALID_MODULE")
     /\ UNCHANGED <<slots, heap>>
  \/ /\ s \in Slots
     /\ Fail("OUT_OF_MEMORY")
     /\ heap' = ReleasedHeap(s)
     /\ slots' = [slots EXCEPT ![s] = None]

-----------------------------------------------------------------------------
(* Before the loop.                                                          *)

MalformedModule ==
  M.symbols = "absent" \/ M.program = "absent" \/ M.exeTable = "truncated"

(* These returns come before anything is bound, and skip vm_release. *)
StartFails ==
  /\ host = "start"
  /\ MalformedModule \/ SymbolIndices(call) = {}
  /\ host' = "done"
  /\ status' = IF MalformedModule THEN "INVALID_MODULE" ELSE "NOT_FOUND"
  /\ UNCHANGED <<call, pc, machine, driver, effects>>

Start ==
  /\ host = "start"
  /\ ~MalformedModule /\ SymbolIndices(call) # {}
  /\ host' = "fetch"
  /\ pc' = EntryOffset(call)
  /\ UNCHANGED <<call, status, machine, driver, effects>>

-----------------------------------------------------------------------------
(* The loop: one command at a time.                                          *)

(* Mutant: an unknown command is skipped without advancing pc. *)
FetchStays ==
  /\ host = "fetch"
  /\ ~InProgram(call, pc) \/ AtCommand("other")
  /\ host' = "fetch"
  /\ UNCHANGED <<call, status, pc, machine, driver, effects>>

(* The command runs past the section, or its kind has no case. *)
FetchFails ==
  /\ host = "fetch"
  /\ ~InProgram(call, pc) \/ AtCommand("other")
  /\ Fail("INVALID_MODULE")
  /\ UNCHANGED <<call, machine, driver, effects>>

WrongOperandCount ==
  /\ \/ AtCommand("ALLOC") /\ Len(Ops) # 2
     \/ AtCommand("CONST") /\ Len(Ops) # 3
     \/ AtCommand("PRINT") /\ Len(Ops) # 3
  /\ Fail("INVALID_MODULE")
  /\ UNCHANGED <<call, machine, driver, effects>>

Alloc ==
  /\ AtCommand("ALLOC") /\ Len(Ops) = 2
  /\ \/ BindFails(Ops[1])
     \/ /\ \E b \in Buffers, v \in FreshValues(call, Ops[2]) : Bind(Ops[1], b, Ops[2], v)
        /\ Continue
  /\ UNCHANGED <<call, resultSlot, driver, effects>>

(* Mutant: the end of the slice is computed, and wraps. *)
OutsideRodataSum(offset, size) == (offset + size) % SizeLimit > M.rodata

OutsideRodata(offset, size) == offset > M.rodata \/ size > M.rodata - offset

ConstOutsideRodata ==
  /\ AtCommand("CONST") /\ Len(Ops) = 3 /\ OutsideRodata(Ops[2], Ops[3])
  /\ Fail("INVALID_MODULE")
  /\ UNCHANGED <<call, machine, driver, effects>>

(* Mutant: the status of the write is not looked at. *)
ConstUnchecked ==
  /\ AtCommand("CONST") /\ Len(Ops) = 3 /\ ~OutsideRodata(Ops[2], Ops[3])
  /\ \/ BindFails(Ops[1])
     \/ /\ \E b \in Buffers, v \in FreshValues(call, Ops[3]) : Bind(Ops[1], b, Ops[3], v)
        /\ Continue
  /\ UNCHANGED <<call, resultSlot, driver, effects>>

(* The write fails on a module without RODATA, whose source pointer is NULL,
   and when cuMemcpyHtoD does; the buffer stays bound, holding what it held. *)
Const ==
  /\ AtCommand("CONST") /\ Len(Ops) = 3 /\ ~OutsideRodata(Ops[2], Ops[3])
  /\ \/ BindFails(Ops[1])
     \/ /\ \E b \in Buffers, v \in FreshValues(call, Ops[3]) : Bind(Ops[1], b, Ops[3], v)
        /\ \/ ~M.hasRodata /\ Fail("INVALID_ARGUMENT")
           \/ M.hasRodata /\ call.device = "cuda" /\ Fail("DEVICE")
     \/ /\ M.hasRodata
        /\ \E b \in Buffers : Bind(Ops[1], b, Ops[3], Literal(call.module, Ops[2], Ops[3]))
        /\ Continue
  /\ UNCHANGED <<call, resultSlot, driver, effects>>

-----------------------------------------------------------------------------
(* vm_dispatch.  The checks are made in this order.                          *)

WellFormed  == WellFormedDispatch(call, Ops)
Placed      == Exe.device = call.device
(* Mutant: arg_count is taken as it comes. *)
ArgsBoundAny == \A i \in DOMAIN Args : IsBound(Args[i])

ArgsBound   == Len(Args) <= MaxArgs /\ \A i \in DOMAIN Args : IsBound(Args[i])
Dispatching == AtCommand("DISPATCH") /\ WellFormed /\ Placed /\ ArgsBound

(* The loops of reference_kernels.c stay inside the buffers.  Nothing checks
   this before a kernel runs. *)
LoopsFit(exe, args) ==
  /\ exe.kind \in KernelKinds /\ Len(args) = Arity(exe.kind)
  /\ IF exe.kind = "matmul"
     THEN /\ exe.m * exe.k <= SizeOf(args[1])
          /\ exe.k * exe.n <= SizeOf(args[2])
          /\ exe.m * exe.n <= SizeOf(args[3])
     ELSE \A i \in DOMAIN args : exe.m * exe.n <= SizeOf(args[i])
KernelFits == LoopsFit(Exe, Args)

Results ==
  LET inputs == InputsOf(Ops)
  IN ResultValues(Exe.kind, Ops,
                  [i \in DOMAIN inputs |-> heap[SlotBuffer(inputs[i])].value])

(* The kernel wrote v: hexir_execute_capture records the destination. *)
Ran(v) == [exe |-> Ops[1], at |-> pc + 1, value |-> v]

DispatchRejected ==
  /\ AtCommand("DISPATCH")
  /\ \/ ~WellFormed /\ Fail("INVALID_MODULE")
     \/ WellFormed /\ ~Placed /\ Fail("DEVICE")
     \/ WellFormed /\ Placed /\ ~ArgsBound /\ Fail("INVALID_MODULE")
  /\ UNCHANGED <<call, machine, driver, effects>>

(* No device code: the reference kernels, which need host pointers. *)
DescriptorRejected ==
  /\ Dispatching /\ Exe.image = "none"
  /\ LET mapped == \A i \in DOMAIN Args : HostPointer(Args[i])
     IN \/ ~mapped /\ Fail("UNIMPLEMENTED")
        \/ mapped /\ Exe.kind = "other" /\ Fail("UNIMPLEMENTED")
        \/ mapped /\ Exe.kind # "other" /\ Len(Args) # Arity(Exe.kind) /\ Fail("INVALID_MODULE")
  /\ UNCHANGED <<call, machine, driver, effects>>

RunsReference ==
  /\ Dispatching /\ Exe.image = "none"
  /\ Exe.kind # "other" /\ Len(Args) = Arity(Exe.kind)
  /\ \A i \in DOMAIN Args : HostPointer(Args[i])

RunReferenceKernel ==
  /\ RunsReference /\ KernelFits
  /\ \E v \in Results :
       /\ heap' = [heap EXCEPT ![SlotBuffer(Dst)].value = v]
       /\ last' = Ran(v)
  /\ resultSlot' = Dst + 1
  /\ Continue
  /\ UNCHANGED <<call, slots, driver, output, captured>>

(* Device code: hexir_device_launch. *)
LaunchRejected ==
  /\ Dispatching
  /\ \/ Exe.image = "outside" /\ Fail("INVALID_MODULE")
     \/ Exe.image = "inside" /\ call.device = "cpu" /\ Fail("UNIMPLEMENTED")
     \/ Exe.image = "inside" /\ call.device = "cuda" /\ Fail("DEVICE")
  /\ UNCHANGED <<call, machine, driver, effects>>

LoadImage ==
  /\ Dispatching
  /\ Exe.image = "inside" /\ call.device = "cuda"
  /\ host' = "get_function" /\ cumodule' = TRUE
  /\ UNCHANGED <<call, status, pc, machine, staging, gpu, effects>>

GetFunction ==
  /\ host = "get_function"
  /\ \/ host' = "launch" /\ UNCHANGED <<status, pc, cumodule>>
     \/ Fail("NOT_FOUND") /\ cumodule' = FALSE
  /\ UNCHANGED <<call, machine, staging, gpu, effects>>

LaunchKernel ==
  /\ host = "launch"
  /\ \/ host' = "synchronize" /\ gpu' = "running" /\ UNCHANGED <<status, pc, cumodule>>
     \/ Fail("DEVICE") /\ cumodule' = FALSE /\ UNCHANGED gpu
  /\ UNCHANGED <<call, machine, staging, effects>>

(* Mutant: cuda_launch returns without synchronizing. *)
SynchronizeAtOnce ==
  /\ host = "synchronize"
  /\ cumodule' = FALSE /\ Continue
  /\ UNCHANGED <<call, slots, heap, staging, gpu, resultSlot, output, captured, last>>

(* Mutant: the slot recorded for capture is the first argument. *)
SynchronizeRecordsInput ==
  /\ host = "synchronize" /\ gpu \in {"finished", "faulted"}
  /\ cumodule' = FALSE /\ gpu' = "idle"
  /\ \/ /\ gpu = "finished"
        /\ Continue
        /\ resultSlot' = Args[1] + 1
        /\ last' = Ran(heap[SlotBuffer(Dst)].value)
     \/ /\ gpu = "faulted"
        /\ Fail("DEVICE")
        /\ UNCHANGED <<resultSlot, last>>
  /\ UNCHANGED <<call, slots, heap, staging, output, captured>>

(* cuCtxSynchronize returns once the kernel is over, and reports its fault. *)
Synchronize ==
  /\ host = "synchronize" /\ gpu \in {"finished", "faulted"}
  /\ cumodule' = FALSE /\ gpu' = "idle"
  /\ \/ /\ gpu = "finished"
        /\ Continue
        /\ resultSlot' = Dst + 1
        /\ last' = Ran(heap[SlotBuffer(Dst)].value)
     \/ /\ gpu = "faulted"
        /\ Fail("DEVICE")
        /\ UNCHANGED <<resultSlot, last>>
  /\ UNCHANGED <<call, slots, heap, staging, output, captured>>

(* External: the kernel on the GPU. *)
KernelFinishes ==
  /\ gpu = "running" /\ KernelFits
  /\ \E v \in Results : heap' = [heap EXCEPT ![SlotBuffer(Dst)].value = v]
  /\ gpu' = "finished"
  /\ UNCHANGED <<call, host, status, pc, slots, resultSlot, staging, cumodule, effects>>

KernelFaults ==
  /\ gpu = "running" /\ KernelFits
  /\ \E v \in Values : heap' = [heap EXCEPT ![SlotBuffer(Dst)].value = v]
  /\ gpu' = "faulted"
  /\ UNCHANGED <<call, host, status, pc, slots, resultSlot, staging, cumodule, effects>>

(* A kernel whose extents or arity do not match its buffers reads and writes
   memory that is not theirs.  Nothing is claimed of what follows. *)
KernelOverruns ==
  /\ RunsReference \/ gpu = "running"
  /\ ~KernelFits
  /\ host' = "undefined" /\ gpu' = "idle"
  /\ UNCHANGED <<call, status, pc, machine, staging, cumodule, effects>>

-----------------------------------------------------------------------------
(* vm_print.                                                                 *)

PrintSize == Ops[2] * Ops[3]
Printable == IsBound(Ops[1]) /\ PrintSize % SizeLimit <= SizeOf(Ops[1])
Printed   == [slot |-> Ops[1], size |-> PrintSize, value |-> heap[SlotBuffer(Ops[1])].value]

PrintRejected ==
  /\ AtCommand("PRINT") /\ Len(Ops) = 3 /\ ~Printable
  /\ Fail("INVALID_MODULE")
  /\ UNCHANGED <<call, machine, driver, effects>>

PrintMapped ==
  /\ AtCommand("PRINT") /\ Len(Ops) = 3 /\ Printable /\ HostPointer(Ops[1])
  /\ PrintSize < SizeLimit
  /\ output' = Append(output, Printed)
  /\ Continue
  /\ UNCHANGED <<call, machine, driver, captured, last>>

(* No host pointer: malloc a staging buffer, then a device to host copy. *)
PrintStage ==
  /\ AtCommand("PRINT") /\ Len(Ops) = 3 /\ Printable /\ ~HostPointer(Ops[1])
  /\ \/ host' = "print_read" /\ staging' = TRUE /\ UNCHANGED <<status, pc>>
     \/ Fail("OUT_OF_MEMORY") /\ UNCHANGED staging
  /\ UNCHANGED <<call, machine, cumodule, gpu, effects>>

PrintRead ==
  /\ host = "print_read"
  /\ \/ PrintSize < SizeLimit /\ output' = Append(output, Printed) /\ Continue
     \/ call.device = "cuda" /\ Fail("DEVICE") /\ UNCHANGED output
  /\ staging' = FALSE
  /\ UNCHANGED <<call, machine, cumodule, gpu, captured, last>>

(* The size wrapped when it was checked: the loops run over rows that are not there. *)
PrintOverruns ==
  /\ \/ AtCommand("PRINT") /\ Len(Ops) = 3 /\ Printable /\ HostPointer(Ops[1])
     \/ host = "print_read"
  /\ PrintSize >= SizeLimit
  /\ host' = "undefined"
  /\ UNCHANGED <<call, status, pc, machine, driver, effects>>

-----------------------------------------------------------------------------
(* Leaving.                                                                  *)

(* Mutant: the loop of vm_release stops one slot early. *)
ReleaseAllButLast ==
  LET released == Slots \ {MaxSlots - 1}
  IN /\ heap' = [b \in Buffers |-> IF \E s \in released : slots[s] = b THEN Freed ELSE heap[b]]
     /\ slots' = [s \in Slots |-> None]

(* vm_release. *)
ReleaseAll ==
  /\ heap' = [b \in Buffers |-> IF \E s \in Slots : slots[s] = b THEN Freed ELSE heap[b]]
  /\ slots' = [s \in Slots |-> None]

WantsResult == call.out > 0 /\ resultSlot > 0
Capturable  == IsBound(resultSlot - 1) /\ call.out <= SizeOf(resultSlot - 1)

End ==
  /\ AtCommand("END")
  /\ \/ /\ ~WantsResult
        /\ UNCHANGED <<status, captured>>
     \/ /\ WantsResult /\ ~Capturable
        /\ status' = "INVALID_ARGUMENT"
        /\ UNCHANGED captured
     \/ /\ WantsResult /\ Capturable
        /\ captured' = heap[SlotBuffer(resultSlot - 1)].value
        /\ UNCHANGED status
     \/ /\ WantsResult /\ Capturable /\ call.device = "cuda"
        /\ status' = "DEVICE"
        /\ UNCHANGED captured
  /\ ReleaseAll
  /\ host' = "done"
  /\ UNCHANGED <<call, pc, resultSlot, driver, output, last>>

(* Mutant: the status is overwritten on the way out. *)
ExitForgetsError ==
  /\ host = "exit"
  /\ ReleaseAll
  /\ host' = "done" /\ status' = "OK"
  /\ UNCHANGED <<call, pc, resultSlot, driver, effects>>

Exit ==
  /\ host = "exit"
  /\ ReleaseAll
  /\ host' = "done"
  /\ UNCHANGED <<call, status, pc, resultSlot, driver, effects>>

-----------------------------------------------------------------------------
InitMachine ==
  /\ host = "start" /\ status = "OK" /\ pc = 0
  /\ slots = [s \in Slots |-> None]
  /\ heap = [b \in Buffers |-> Freed]
  /\ resultSlot = 0
  /\ staging = FALSE /\ cumodule = FALSE /\ gpu = "idle"
  /\ output = <<>> /\ captured = None /\ last = None

Init == call \in Calls /\ InitMachine

HostStep ==
  \/ StartFails \/ Start \/ FetchFails \/ WrongOperandCount
  \/ Alloc \/ ConstOutsideRodata \/ Const
  \/ DispatchRejected \/ DescriptorRejected \/ RunReferenceKernel
  \/ LaunchRejected \/ LoadImage \/ GetFunction \/ LaunchKernel \/ Synchronize
  \/ PrintRejected \/ PrintMapped \/ PrintStage \/ PrintRead
  \/ PrintOverruns \/ End \/ Exit

GpuStep == KernelFinishes \/ KernelFaults

Next == HostStep \/ GpuStep \/ KernelOverruns

Spec == Init /\ [][Next]_vars

(* The host thread runs until it returns; a kernel, whose loops have constant
   bounds, ends. *)
FairSpec == Spec /\ WF_vars(HostStep) /\ WF_vars(GpuStep \/ KernelOverruns)

-----------------------------------------------------------------------------
(* Properties.                                                               *)

Buffer   == [live : BOOLEAN, size : Nat, value : Values]
RunType  == [exe : Nat, at : Nat, value : Values]
LineType == [slot : Nat, size : Nat, value : Values]

TypeOK ==
  /\ call \in Calls
  /\ host \in HostStates
  /\ status \in Errors \cup {"OK"}
  /\ pc \in Nat
  /\ slots \in [Slots -> Buffers \cup {None}]
  /\ heap \in [Buffers -> Buffer]
  /\ resultSlot \in Nat
  /\ staging \in BOOLEAN /\ cumodule \in BOOLEAN
  /\ gpu \in {"idle", "running", "finished", "faulted"}
  /\ output \in Seq(LineType)
  /\ captured \in Values \cup {None}
  /\ last \in RunType \cup {None}

(* Every allocated buffer is bound to exactly one slot, and a slot never keeps
   an address that was released: vm_bind cannot leak what it replaces, and
   vm_release cannot free a buffer twice. *)
SlotsOwnTheHeap ==
  /\ \A s \in Slots : slots[s] # None => heap[slots[s]].live
  /\ \A s, t \in Slots : slots[s] = slots[t] /\ slots[s] # None => s = t
  /\ \A b \in Buffers : heap[b].live => \E s \in Slots : slots[s] = b

(* Where the host is, and what goes with it: the driver's objects exist only
   inside the handler that made them, the command a handler started on is
   still the current one, and an error is set exactly when the loop was left. *)
Launching == host \in {"get_function", "launch", "synchronize"}
HandlersOwnTheDriver ==
  /\ host \notin {"exit", "done"} => status = "OK"
  /\ host = "exit" => status # "OK"
  /\ host \in {"start", "done"} => \A s \in Slots : slots[s] = None
  /\ gpu # "idle" => host = "synchronize"
  /\ gpu \in {"finished", "faulted"} => KernelFits
  /\ Launching => cumodule
  /\ cumodule => Launching \/ host = "undefined"
  /\ staging => host \in {"print_read", "undefined"}
  /\ Launching =>
       /\ InProgram(call, pc) /\ Cmd.kind = "DISPATCH"
       /\ WellFormed /\ Placed /\ ArgsBound
  /\ host = "print_read" =>
       InProgram(call, pc) /\ Cmd.kind = "PRINT" /\ Len(Ops) = 3 /\ Printable

(* However the call returns, nothing it took is still held: no buffer, no
   staging memory, no CUDA module. *)
NothingLeaks ==
  host = "done" => Free = Buffers /\ ~staging /\ ~cumodule

(* While a kernel is on the GPU the host waits for it, its image is loaded and
   the buffers it uses are allocated: no read, release or unload can overtake
   an asynchronous launch.  The array of the buffers it is launched with has an
   entry for each. *)
KernelIsAwaited ==
  gpu # "idle" =>
    /\ host = "synchronize" /\ cumodule
    /\ \A i \in DOMAIN Args : heap[SlotBuffer(Args[i])].live
    /\ Len(Args) <= MaxArgs

(* A kernel only ever ran on the device the compiler placed it on. *)
PlacementHonoured ==
  last # None => ExesOf(call)[last.exe + 1].device = call.device

(* The commands that bound the destination of the last dispatch again, since;
   and what one of them puts there. *)
Binds(i) == M.commands[i].kind \in {"ALLOC", "CONST"}
LastDst  == DstOf(M.commands[last.at].ops)
Rebinds  ==
  {i \in last.at + 1 .. pc :
     i \in DOMAIN M.commands /\ Binds(i) /\ M.commands[i].ops[1] = LastDst}
PutBy(command) ==
  IF command.kind = "CONST" THEN {Literal(call.module, command.ops[2], command.ops[3])}
                            ELSE FreshValues(call, command.ops[2])
LeftByLast(v) ==
  \/ Rebinds = {} /\ v = last.value
  \/ \E i \in Rebinds : (\A j \in Rebinds : j <= i) /\ v \in PutBy(M.commands[i])

(* vm.h: a successful capture delivers what the last dispatch wrote.  It does, unless
   its slot was bound again before END: then it is what the last command to do so put
   there, for the slot is remembered and not what it held. *)
CapturesLastDispatch ==
  host = "done" /\ status = "OK" /\ call.out > 0 /\ last # None
    => LeftByLast(captured)

(* While commands are replayed the recorded result slot is bound: the NULL
   test at END is never what refuses a capture. *)
ResultStaysBound ==
  status = "OK" /\ host \notin {"done", "undefined"} /\ resultSlot > 0
    => IsBound(resultSlot - 1)

(* What a capture rests on: only END fills out_result; and the recorded slot is the
   last destination and holds what was left there, except while the kernel of the next
   dispatch has written and the host has not yet heard of it. *)
CaptureComesLast == host # "done" => captured = None
LastResultKept ==
  /\ status = "OK" /\ host \notin {"done", "undefined"}
  /\ gpu \notin {"finished", "faulted"} /\ last # None
  => /\ last.at \in DOMAIN M.commands /\ last.at <= pc
     /\ resultSlot > 0 /\ resultSlot - 1 = LastDst
     /\ LeftByLast(heap[SlotBuffer(resultSlot - 1)].value)

(* The inductive invariant.  No conjunct is inductive alone: a kernel's buffers
   stay allocated because the host cannot leave cuda_launch before it, and the
   host stays there because the slots it checked are still bound. *)
IInv ==
  /\ TypeOK /\ SlotsOwnTheHeap /\ HandlersOwnTheDriver
  /\ ResultStaysBound /\ PlacementHonoured
  /\ CaptureComesLast /\ LastResultKept /\ CapturesLastDispatch

(* The first error is the one reported, and after it nothing is allocated,
   printed, launched or captured. *)
FirstErrorIsFinal ==
  [][status # "OK" =>
       /\ status' = status
       /\ UNCHANGED effects /\ gpu' = "idle"
       /\ Free \subseteq Free']_vars

(* program.h:31: ALLOC makes a zeroed destination buffer. *)
AllocatesZeroed ==
  [][AtCommand("ALLOC") /\ host' = "fetch" => heap'[slots'[Ops[1]]].value = Zero]_vars

(* The call implements CommandList: on either device, whatever fails and
   however the GPU is scheduled, what is printed and captured is what replaying
   the commands one after the other gives.  An asynchronous DISPATCH takes
   effect when its kernel is over. *)
Failed  == status # "OK" \/ gpu = "faulted" \/ host = "undefined"
Running == ~Failed /\ host \notin {"start", "done"}
Phase ==
  IF Failed THEN "failed"
  ELSE IF Running THEN "running"
  ELSE IF host = "done" THEN "returned" ELSE "ready"
Reached  == IF gpu = "finished" THEN pc + 1 ELSE pc
Holds    == [s \in Slots |-> IF Running /\ slots[s] # None
                             THEN heap[slots[s]].value ELSE None]
Recorded == IF gpu = "finished" THEN Dst + 1 ELSE resultSlot
Replay ==
  INSTANCE CommandList WITH
    phase <- Phase, at <- Reached, mem <- Holds, latest <- Recorded,
    log <- output, result <- captured
ImplementsCommandList == Replay!Spec

(* Every call returns, unless a kernel or a print left its buffers. *)
Returns == <>(host \in {"done", "undefined"})
=============================================================================
