--------------------------- MODULE HexirRunProofs ---------------------------
(***************************************************************************)
(* Proofs about HexirRun, for every command line.                          *)
(***************************************************************************)
EXTENDS HexirRun, ListLemmas, TLAPS

-----------------------------------------------------------------------------
(* The arguments.                                                            *)

(* The locals while main has read nothing, and after one argument more. *)
LEMMA ReadingNothing ==
  Reading(0) = [path |-> None, entry |-> "main", kind |-> "cpu", selftest |-> FALSE]
BY NothingGiven DEF Reading

LEMMA ReadingOneMore ==
  ASSUME argv \in Seq(ArgumentType), i \in DOMAIN argv,
         request = Reading(i - 1), ~BadArgument(argv[i])
  PROVE  Read(argv[i]) = Reading(i)
<1> DEFINE a == argv[i]
<1>1. a \in ArgumentType /\ i \in Nat \ {0} /\ (i - 1) + 1 = i /\ i - 1 \in Nat
  OBVIOUS
<1>2. a.option \in {"quiet", "selftest", "entry", "device", "path"}
  BY <1>1 DEF ArgumentType, BadArgument
<1>3. ASSUME NEW option, NEW default
      PROVE  /\ a.option = option =>
                  Given(argv, option, i) # {} /\ LastGiven(argv, option, i, default) = a.value
             /\ a.option # option =>
                  /\ Given(argv, option, i) = Given(argv, option, i - 1)
                  /\ LastGiven(argv, option, i, default) = LastGiven(argv, option, i - 1, default)
  <2> DEFINE n == i - 1
  <2>1. n \in Nat /\ n + 1 = i
    BY <1>1
  <2> HIDE DEF n
  <2>2. /\ argv[n + 1].option = option =>
             /\ Given(argv, option, n + 1) # {}
             /\ LastGiven(argv, option, n + 1, default) = argv[n + 1].value
        /\ argv[n + 1].option # option =>
             /\ Given(argv, option, n + 1) = Given(argv, option, n)
             /\ LastGiven(argv, option, n + 1, default) = LastGiven(argv, option, n, default)
    BY <2>1, OneMoreGiven
  <2>3. QED
    BY <2>1, <2>2 DEF n
<1>4. QED
  BY <1>2, <1>3 DEF Read, Reading

(* Reading on does not change what was asked; an action that keeps the locals
   keeps what they say. *)
LEMMA LocalsKept ==
  ASSUME UNCHANGED locals
  PROVE  /\ argv' = argv /\ i' = i /\ request' = request
         /\ Reading(i - 1)' = Reading(i - 1) /\ Task(request)' = Task(request)
         /\ (\A a \in 1 .. i - 1 : ~BadArgument(argv[a]))' <=> \A a \in 1 .. i - 1 : ~BadArgument(argv[a])
         /\ Malformed' <=> Malformed
<1>1. argv' = argv /\ i' = i /\ request' = request
  BY DEF locals
<1>2. QED
  BY <1>1 DEF Reading, Given, LastGiven, Task, BadArgument, Malformed

(* Past the arguments, the line is a good one and the locals hold all of it. *)
LEMMA Understood ==
  ASSUME TypeOK, ReadSoFar, stage \notin {"parse", "exited"}
  PROVE  ~Malformed /\ Task(request) = Asked
<1>1. i - 1 = Len(argv) /\ DOMAIN argv = 1 .. Len(argv)
  BY DEF TypeOK, ReadSoFar
<1>2. QED
  BY <1>1 DEF ReadSoFar, Malformed, Asked

-----------------------------------------------------------------------------
(* The invariant.                                                            *)

LEMMA InitInvariant == Init => IInv
<1> SUFFICES ASSUME Init PROVE IInv
  OBVIOUS
<1>1. argv \in Seq(ArgumentType) /\ Len(argv) \in Nat
  BY CommandsAssumption DEF Init
<1>2. TypeOK
  <2>1. i \in 1 .. Len(argv) + 1
    BY <1>1 DEF Init
  <2>2. request.kind \in {"cpu", "cuda"} /\ request.selftest \in BOOLEAN
    BY DEF Init
  <2>3. DeviceTypeOK({"buffer"})
    BY DEF Init, DeviceInit, DeviceTypeOK
  <2>4. QED
    BY <1>1, <2>1, <2>2, <2>3 DEF Init, TypeOK, Results
<1>3. ReadSoFar
  BY <1>1, ReadingNothing DEF Init, ReadSoFar
<1>4. Held /\ Progress /\ BuffersHaveADevice /\ NothingLeaks /\ ExitCodes
  BY DEF Init, DeviceInit, Held, InSelftest, Progress, BuffersHaveADevice, NothingLeaks, ExitCodes
<1>5. QED
  BY <1>2, <1>3, <1>4 DEF IInv

LEMMA ParsePreserves == IInv /\ Parse => IInv'
<1> SUFFICES ASSUME IInv, Parse PROVE IInv'
  OBVIOUS
<1>1. /\ stage = "parse" /\ i \in 1 .. Len(argv) /\ argv' = argv
      /\ argv \in Seq(ArgumentType) /\ Len(argv) \in Nat
      /\ module' = module /\ result' = result /\ ran' = ran /\ UNCHANGED deviceVars
  BY DEF IInv, TypeOK, Parse
<1>2. DeviceTypeOK({"buffer"})'
  BY <1>1 DEF IInv, TypeOK, DeviceTypeOK, deviceVars
<1>3. CASE BadArgument(argv[i]) /\ Usage /\ UNCHANGED <<i, request>>
  <2>1. stage' = "exited" /\ exit' = 2 /\ UNCHANGED locals
    BY <1>1, <1>3 DEF Usage, Exit, locals
  <2>2. Malformed'
    BY <1>1, <1>3, <2>1, LocalsKept DEF Malformed
  <2>3. TypeOK' /\ ReadSoFar'
    BY <1>1, <1>2, <2>1, LocalsKept DEF IInv, TypeOK, ReadSoFar
  <2>4. Held' /\ Progress' /\ BuffersHaveADevice'
    BY <1>1, <2>1, LocalsKept
       DEF IInv, Held, InSelftest, Progress, BuffersHaveADevice, deviceVars
  <2>5. NothingLeaks' /\ ExitCodes'
    BY <1>1, <2>1, <2>2
       DEF IInv, Held, InSelftest, Progress, NothingLeaks, ExitCodes, deviceVars
  <2>6. QED
    BY <2>3, <2>4, <2>5 DEF IInv
<1>4. CASE ~BadArgument(argv[i]) /\ request' = Read(argv[i]) /\ i' = i + 1 /\ UNCHANGED <<stage, exit>>
  <2>1. i' - 1 = i /\ i' \in 1 .. Len(argv) + 1 /\ stage' = "parse" /\ exit' = exit
    BY <1>1, <1>4
  <2>2. request' = Reading(i)
    BY <1>1, <1>4, ReadingOneMore DEF IInv, ReadSoFar
  <2>3. Reading(i - 1)' = Reading(i)
    BY <1>1, <2>1 DEF Reading, Given, LastGiven
  <2>4. request'.kind \in {"cpu", "cuda"} /\ request'.selftest \in BOOLEAN
    <3>1. argv[i] \in ArgumentType
      BY <1>1
    <3>2. request.kind \in {"cpu", "cuda"}
      BY DEF IInv, TypeOK
    <3>3. request'.selftest \in BOOLEAN
      BY <2>2 DEF Reading
    <3>4. CASE argv[i].option = "device"
      <4>1. argv[i].value \in {"cpu", "cuda"}
        BY <1>4, <3>4 DEF BadArgument
      <4>2. request'.kind = argv[i].value
        BY <1>4, <3>2, <3>4, <2>2 DEF Read, IInv, ReadSoFar, Reading
      <4>3. QED
        BY <3>3, <4>1, <4>2
    <3>5. CASE argv[i].option # "device"
      <4>1. request'.kind = request.kind
        BY <1>4, <3>1, <3>5 DEF Read, ArgumentType, IInv, ReadSoFar, Reading
      <4>2. QED
        BY <3>2, <3>3, <4>1
    <3>6. QED
      BY <3>4, <3>5
  <2>5. ReadSoFar'
    <3>1. \A a \in 1 .. i - 1 : ~BadArgument(argv[a])
      BY DEF IInv, ReadSoFar
    <3>2. \A a \in 1 .. i : ~BadArgument(argv[a])
      BY <1>1, <1>4, <3>1
    <3>3. (\A a \in 1 .. i - 1 : ~BadArgument(argv[a]))'
      BY <1>1, <2>1, <3>2 DEF BadArgument
    <3>4. QED
      BY <2>1, <2>2, <2>3, <3>3 DEF ReadSoFar
  <2>6. TypeOK'
    BY <1>1, <1>2, <2>1, <2>4 DEF IInv, TypeOK
  <2>7. Held' /\ Progress' /\ BuffersHaveADevice' /\ NothingLeaks' /\ ExitCodes'
    BY <1>1, <2>1
       DEF IInv, Held, InSelftest, Progress, BuffersHaveADevice, NothingLeaks, ExitCodes, deviceVars
  <2>8. QED
    BY <2>5, <2>6, <2>7 DEF IInv
<1>5. QED
  BY <1>3, <1>4 DEF Parse

LEMMA ParsedPreserves == IInv /\ Parsed => IInv'
<1> SUFFICES ASSUME IInv, Parsed PROVE IInv'
  OBVIOUS
<1>1. /\ UNCHANGED locals /\ UNCHANGED deviceVars /\ UNCHANGED <<module, result, ran>>
      /\ stage = "parse" /\ i = Len(argv) + 1 /\ i - 1 = Len(argv) /\ DOMAIN argv = 1 .. Len(argv)
  BY DEF Parsed, IInv, TypeOK
<1>2. \/ request.selftest /\ stage' = "create" /\ exit' = exit
      \/ ~request.selftest /\ request.path = None /\ stage' = "exited" /\ exit' = 2
      \/ ~request.selftest /\ request.path # None /\ stage' = "load" /\ exit' = exit
  BY DEF Parsed, Usage, Exit
<1>3. TypeOK'
  BY <1>1, <1>2, LocalsKept DEF IInv, TypeOK, DeviceTypeOK, deviceVars
<1>4. ReadSoFar'
  <2>1. Len(argv)' = Len(argv)
    BY <1>1, LocalsKept
  <2>2. QED
    BY <1>1, <1>2, <2>1, LocalsKept DEF IInv, ReadSoFar
<1>5. Held' /\ BuffersHaveADevice' /\ NothingLeaks'
  BY <1>1, <1>2, LocalsKept
     DEF IInv, Held, InSelftest, BuffersHaveADevice, NothingLeaks, deviceVars
<1>6. Progress'
  BY <1>1, <1>2, LocalsKept DEF IInv, Held, InSelftest, Progress
<1>7. ExitCodes'
  <2>1. stage' = "exited" => Malformed
    BY <1>1, <1>2 DEF IInv, ReadSoFar, Malformed
  <2>2. QED
    BY <1>1, <1>2, <2>1, LocalsKept DEF IInv, Held, InSelftest, Progress, ExitCodes, deviceVars
<1>8. QED
  BY <1>3, <1>4, <1>5, <1>6, <1>7 DEF IInv

LEMMA LoadModulePreserves == IInv /\ LoadModule => IInv'
<1> SUFFICES ASSUME IInv, LoadModule PROVE IInv'
  OBVIOUS
<1>1. UNCHANGED locals
  BY DEF LoadModule, Exit, deviceVars
<1>2. TypeOK'
  BY <1>1, LocalsKept
     DEF IInv, TypeOK, DeviceTypeOK, Results, LoadModule, Exit, deviceVars
<1>3. ReadSoFar'
  BY <1>1, LocalsKept
     DEF IInv, ReadSoFar, LoadModule, Exit, deviceVars
<1>4. Held' /\ BuffersHaveADevice' /\ NothingLeaks'
  BY <1>1, LocalsKept
     DEF IInv, TypeOK, DeviceTypeOK, Held, InSelftest, DeviceOf, BuffersHaveADevice, NothingLeaks,
         LoadModule, Exit, deviceVars
<1>5. Progress'
  BY <1>1, LocalsKept
     DEF IInv, TypeOK, ReadSoFar, Held, InSelftest, Progress, Task, LoadModule, Exit, deviceVars
<1>6. ExitCodes'
  BY <1>1, LocalsKept, Understood
     DEF IInv, Held, InSelftest, Progress, ExitCodes, LoadModule, Exit, deviceVars
<1>7. QED
  BY <1>2, <1>3, <1>4, <1>5, <1>6 DEF IInv

LEMMA CreatePreserves == IInv /\ Create => IInv'
<1> SUFFICES ASSUME IInv, Create PROVE IInv'
  OBVIOUS
<1>1. UNCHANGED locals
  BY DEF Create, BeginCreate
<1>2. TypeOK'
  BY <1>1, LocalsKept
     DEF IInv, TypeOK, DeviceTypeOK, Results, Create, BeginCreate
<1>3. ReadSoFar'
  BY <1>1, LocalsKept
     DEF IInv, ReadSoFar, Create, BeginCreate
<1>4. Held' /\ BuffersHaveADevice' /\ NothingLeaks'
  BY <1>1, LocalsKept
     DEF IInv, TypeOK, DeviceTypeOK, Held, InSelftest, DeviceOf, BuffersHaveADevice, NothingLeaks,
         Create, BeginCreate
<1>5. Progress'
  BY <1>1, LocalsKept
     DEF IInv, TypeOK, ReadSoFar, Held, InSelftest, Progress, Task, Create, BeginCreate
<1>6. ExitCodes'
  BY <1>1, LocalsKept, Understood
     DEF IInv, Held, InSelftest, Progress, ExitCodes, Create, BeginCreate
<1>7. QED
  BY <1>2, <1>3, <1>4, <1>5, <1>6 DEF IInv

LEMMA DeviceRefusedPreserves == IInv /\ DeviceRefused => IInv'
<1> SUFFICES ASSUME IInv, DeviceRefused PROVE IInv'
  OBVIOUS
<1>1. UNCHANGED locals
  BY DEF DeviceRefused, Exit, deviceVars
<1>2. TypeOK'
  BY <1>1, LocalsKept
     DEF IInv, TypeOK, DeviceTypeOK, Results, DeviceRefused, Exit, deviceVars
<1>3. ReadSoFar'
  BY <1>1, LocalsKept
     DEF IInv, ReadSoFar, DeviceRefused, Exit, deviceVars
<1>4. Held' /\ BuffersHaveADevice' /\ NothingLeaks'
  BY <1>1, LocalsKept
     DEF IInv, TypeOK, DeviceTypeOK, Held, InSelftest, DeviceOf, BuffersHaveADevice, NothingLeaks,
         DeviceRefused, Exit, deviceVars
<1>5. Progress'
  BY <1>1, LocalsKept
     DEF IInv, TypeOK, ReadSoFar, Held, InSelftest, Progress, Task, DeviceRefused, Exit, deviceVars
<1>6. ExitCodes'
  BY <1>1, LocalsKept, Understood
     DEF IInv, Held, InSelftest, Progress, ExitCodes, DeviceRefused, Exit, deviceVars
<1>7. QED
  BY <1>2, <1>3, <1>4, <1>5, <1>6 DEF IInv

LEMMA ExecutePreserves == IInv /\ Execute => IInv'
<1> SUFFICES ASSUME IInv, Execute PROVE IInv'
  OBVIOUS
<1>1. UNCHANGED locals
  BY DEF Execute, deviceVars
<1>2. TypeOK'
  BY <1>1, LocalsKept
     DEF IInv, TypeOK, DeviceTypeOK, Results, Execute, deviceVars
<1>3. ReadSoFar'
  BY <1>1, LocalsKept
     DEF IInv, ReadSoFar, Execute, deviceVars
<1>4. Held' /\ BuffersHaveADevice' /\ NothingLeaks'
  BY <1>1, LocalsKept
     DEF IInv, TypeOK, DeviceTypeOK, Held, InSelftest, DeviceOf, BuffersHaveADevice, NothingLeaks,
         Execute, deviceVars
<1>5. Progress'
  BY <1>1, LocalsKept
     DEF IInv, TypeOK, ReadSoFar, Held, InSelftest, Progress, Task, Execute, deviceVars
<1>6. ExitCodes'
  BY <1>1, LocalsKept, Understood
     DEF IInv, Held, InSelftest, Progress, ExitCodes, Execute, deviceVars
<1>7. QED
  BY <1>2, <1>3, <1>4, <1>5, <1>6 DEF IInv

LEMMA FinishPreserves == IInv /\ Finish => IInv'
<1> SUFFICES ASSUME IInv, Finish PROVE IInv'
  OBVIOUS
<1>1. UNCHANGED locals
  BY DEF Finish, ReleaseDevice, Exit
<1>2. TypeOK'
  BY <1>1, LocalsKept
     DEF IInv, TypeOK, DeviceTypeOK, Results, Finish, ReleaseDevice, Exit
<1>3. ReadSoFar'
  BY <1>1, LocalsKept
     DEF IInv, ReadSoFar, Finish, ReleaseDevice, Exit
<1>4. Held' /\ BuffersHaveADevice' /\ NothingLeaks'
  BY <1>1, LocalsKept
     DEF IInv, TypeOK, DeviceTypeOK, Held, InSelftest, DeviceOf, BuffersHaveADevice, NothingLeaks,
         Finish, ReleaseDevice, Exit
<1>5. Progress'
  BY <1>1, LocalsKept
     DEF IInv, TypeOK, ReadSoFar, Held, InSelftest, Progress, Task, Finish, ReleaseDevice, Exit
<1>6. ExitCodes'
  BY <1>1, LocalsKept, Understood
     DEF IInv, Held, InSelftest, Progress, ExitCodes, Finish, ReleaseDevice, Exit
<1>7. QED
  BY <1>2, <1>3, <1>4, <1>5, <1>6 DEF IInv

LEMMA SelftestAllocatePreserves == IInv /\ SelftestAllocate => IInv'
<1> SUFFICES ASSUME IInv, SelftestAllocate PROVE IInv'
  OBVIOUS
<1>1. UNCHANGED locals
  BY DEF SelftestAllocate, Allocate
<1>2. TypeOK'
  BY <1>1, LocalsKept
     DEF IInv, TypeOK, DeviceTypeOK, Results, SelftestAllocate, Allocate
<1>3. ReadSoFar'
  BY <1>1, LocalsKept
     DEF IInv, ReadSoFar, SelftestAllocate, Allocate
<1>4. Held' /\ BuffersHaveADevice' /\ NothingLeaks'
  BY <1>1, LocalsKept
     DEF IInv, TypeOK, DeviceTypeOK, Held, InSelftest, DeviceOf, BuffersHaveADevice, NothingLeaks,
         SelftestAllocate, Allocate
<1>5. Progress'
  BY <1>1, LocalsKept
     DEF IInv, TypeOK, ReadSoFar, Held, InSelftest, Progress, Task, SelftestAllocate, Allocate
<1>6. ExitCodes'
  BY <1>1, LocalsKept, Understood
     DEF IInv, Held, InSelftest, Progress, ExitCodes, SelftestAllocate, Allocate
<1>7. QED
  BY <1>2, <1>3, <1>4, <1>5, <1>6 DEF IInv

LEMMA SelftestTransferPreserves == IInv /\ SelftestTransfer => IInv'
<1> SUFFICES ASSUME IInv, SelftestTransfer PROVE IInv'
  OBVIOUS
<1>1. /\ UNCHANGED locals /\ UNCHANGED <<module, result, ran, exit>>
      /\ UNCHANGED <<library, creating, device, buffers>>
      /\ stage \in {"write", "wait", "read"} /\ stage' \in {"wait", "read", "compare", "unwind"}
  BY DEF SelftestTransfer, SelftestStep, Transfer, deviceVars
<1>2. TypeOK'
  BY <1>1, LocalsKept DEF IInv, TypeOK, DeviceTypeOK
<1>3. ReadSoFar'
  <2>1. Len(argv)' = Len(argv)
    BY <1>1, LocalsKept
  <2>2. QED
    BY <1>1, <2>1, LocalsKept DEF IInv, ReadSoFar
<1>4. Held' /\ BuffersHaveADevice' /\ NothingLeaks'
  BY <1>1, LocalsKept
     DEF IInv, Held, InSelftest, DeviceOf, BuffersHaveADevice, NothingLeaks
<1>5. Progress' /\ ExitCodes'
  BY <1>1, LocalsKept DEF IInv, Progress, ExitCodes
<1>6. QED
  BY <1>2, <1>3, <1>4, <1>5 DEF IInv

LEMMA ComparePreserves == IInv /\ Compare => IInv'
<1> SUFFICES ASSUME IInv, Compare PROVE IInv'
  OBVIOUS
<1>1. UNCHANGED locals
  BY DEF Compare, deviceVars
<1>2. TypeOK'
  BY <1>1, LocalsKept
     DEF IInv, TypeOK, DeviceTypeOK, Results, Compare, deviceVars
<1>3. ReadSoFar'
  BY <1>1, LocalsKept
     DEF IInv, ReadSoFar, Compare, deviceVars
<1>4. Held' /\ BuffersHaveADevice' /\ NothingLeaks'
  BY <1>1, LocalsKept
     DEF IInv, TypeOK, DeviceTypeOK, Held, InSelftest, DeviceOf, BuffersHaveADevice, NothingLeaks,
         Compare, deviceVars
<1>5. Progress'
  <2>1. /\ request.selftest /\ stage' = "unwind" /\ i = Len(argv) + 1 /\ Len(argv)' = Len(argv)
        /\ ran = <<>> /\ result = "unknown"
    BY <1>1, LocalsKept DEF IInv, ReadSoFar, Held, InSelftest, Progress, Compare
  <2>2. CASE status = "OK"
    <3>1. ran' = Task(request) /\ ran' # <<>>
      BY <2>1, <2>2 DEF Compare, Task
    <3>2. QED
      BY <1>1, <2>1, <3>1, LocalsKept DEF Progress
  <2>3. CASE status # "OK"
    BY <1>1, <2>1, <2>3, LocalsKept DEF Progress, Compare
  <2>4. QED
    BY <2>2, <2>3
<1>6. ExitCodes'
  BY <1>1, LocalsKept, Understood
     DEF IInv, Held, InSelftest, Progress, ExitCodes, Compare, deviceVars
<1>7. QED
  BY <1>2, <1>3, <1>4, <1>5, <1>6 DEF IInv

LEMMA UnwindBufferPreserves == IInv /\ UnwindBuffer => IInv'
<1> SUFFICES ASSUME IInv, UnwindBuffer PROVE IInv'
  OBVIOUS
<1>1. UNCHANGED locals
  BY DEF UnwindBuffer, ReleaseBuffers
<1>2. TypeOK'
  BY <1>1, LocalsKept
     DEF IInv, TypeOK, DeviceTypeOK, Results, UnwindBuffer, ReleaseBuffers
<1>3. ReadSoFar'
  BY <1>1, LocalsKept
     DEF IInv, ReadSoFar, UnwindBuffer, ReleaseBuffers
<1>4. Held' /\ BuffersHaveADevice' /\ NothingLeaks'
  BY <1>1, LocalsKept
     DEF IInv, TypeOK, DeviceTypeOK, Held, InSelftest, DeviceOf, BuffersHaveADevice, NothingLeaks,
         UnwindBuffer, ReleaseBuffers
<1>5. Progress'
  BY <1>1, LocalsKept
     DEF IInv, TypeOK, ReadSoFar, Held, InSelftest, Progress, Task, UnwindBuffer, ReleaseBuffers
<1>6. ExitCodes'
  BY <1>1, LocalsKept, Understood
     DEF IInv, Held, InSelftest, Progress, ExitCodes, UnwindBuffer, ReleaseBuffers
<1>7. QED
  BY <1>2, <1>3, <1>4, <1>5, <1>6 DEF IInv

LEMMA UnwindEndPreserves == IInv /\ UnwindEnd => IInv'
<1> SUFFICES ASSUME IInv, UnwindEnd PROVE IInv'
  OBVIOUS
<1>1. UNCHANGED locals
  BY DEF UnwindEnd, ReleaseDevice, Exit
<1>2. TypeOK'
  BY <1>1, LocalsKept
     DEF IInv, TypeOK, DeviceTypeOK, Results, UnwindEnd, ReleaseDevice, Exit
<1>3. ReadSoFar'
  BY <1>1, LocalsKept
     DEF IInv, ReadSoFar, UnwindEnd, ReleaseDevice, Exit
<1>4. Held' /\ BuffersHaveADevice' /\ NothingLeaks'
  BY <1>1, LocalsKept
     DEF IInv, TypeOK, DeviceTypeOK, Held, InSelftest, DeviceOf, BuffersHaveADevice, NothingLeaks,
         UnwindEnd, ReleaseDevice, Exit
<1>5. Progress'
  BY <1>1, LocalsKept
     DEF IInv, TypeOK, ReadSoFar, Held, InSelftest, Progress, Task, UnwindEnd, ReleaseDevice, Exit
<1>6. ExitCodes'
  BY <1>1, LocalsKept, Understood
     DEF IInv, Held, InSelftest, Progress, ExitCodes, UnwindEnd, ReleaseDevice, Exit
<1>7. QED
  BY <1>2, <1>3, <1>4, <1>5, <1>6 DEF IInv

LEMMA StepCreatePreserves == IInv /\ StepCreate => IInv'
<1> SUFFICES ASSUME IInv, StepCreate PROVE IInv'
  OBVIOUS
<1>1. /\ UNCHANGED locals /\ UNCHANGED <<stage, module, result, ran, exit>>
      /\ creating # "idle" /\ stage = "creating" /\ Creating
  BY DEF StepCreate, locals, Creating, CreateCpu, LoadLibrary, Initialise, AllocateObjects, OpenContext,
         IInv, Held
<1>2. /\ library' \in {"unopened", "open", "failed"} /\ buffers' = buffers
      /\ creating' \in {"idle", "init", "objects", "open"}
      /\ creating' \notin {"idle", "open"} => device' = {}
      /\ creating' # "idle" => creating # "cpu"
      /\ creating' = "open" => device' = {"device", "impl"}
      /\ creating' = "idle" => device' = IF status' = "OK" THEN DeviceOf(request.kind) ELSE {}
  <2>1. CASE CreateCpu
    BY <1>1, <2>1
       DEF CreateCpu, Created, Refused, DeviceOf, IInv, TypeOK, DeviceTypeOK, Held
  <2>2. CASE LoadLibrary
    BY <1>1, <2>2 DEF LoadLibrary, Refused, IInv, TypeOK, DeviceTypeOK, Held
  <2>3. CASE Initialise
    BY <1>1, <2>3 DEF Initialise, Refused, IInv, TypeOK, DeviceTypeOK, Held
  <2>4. CASE AllocateObjects
    BY <1>1, <2>4 DEF AllocateObjects, Refused, IInv, TypeOK, DeviceTypeOK, Held
  <2>5. CASE OpenContext
    BY <1>1, <2>5
       DEF OpenContext, Created, Refused, DeviceOf, IInv, TypeOK, DeviceTypeOK, Held
  <2>6. QED
    BY <1>1, <2>1, <2>2, <2>3, <2>4, <2>5 DEF Creating
<1>3. TypeOK'
  <2>1. device' \subseteq CudaDevice
    BY <1>2 DEF IInv, TypeOK, DeviceOf, CpuDevice, CudaDevice
  <2>2. QED
    BY <1>1, <1>2, <2>1, LocalsKept DEF IInv, TypeOK, DeviceTypeOK
<1>4. ReadSoFar'
  BY <1>1, LocalsKept DEF IInv, ReadSoFar
<1>5. Held' /\ BuffersHaveADevice' /\ NothingLeaks'
  BY <1>1, <1>2, LocalsKept DEF IInv, Held, InSelftest, BuffersHaveADevice, NothingLeaks
<1>6. Progress' /\ ExitCodes'
  BY <1>1, LocalsKept DEF IInv, Progress, ExitCodes
<1>7. QED
  BY <1>3, <1>4, <1>5, <1>6 DEF IInv

LEMMA StutterPreserves == IInv /\ UNCHANGED vars => IInv'
<1> SUFFICES ASSUME IInv, UNCHANGED vars PROVE IInv'
  OBVIOUS
<1>1. /\ UNCHANGED locals /\ UNCHANGED <<stage, module, result, ran, exit>>
      /\ UNCHANGED <<library, creating, status, device, buffers>>
  BY DEF vars, locals, deviceVars
<1>2. TypeOK' /\ ReadSoFar' /\ Held'
  BY <1>1, LocalsKept DEF IInv, TypeOK, DeviceTypeOK, ReadSoFar, Held
<1>3. Progress' /\ BuffersHaveADevice' /\ NothingLeaks' /\ ExitCodes'
  BY <1>1, LocalsKept DEF IInv, Progress, BuffersHaveADevice, NothingLeaks, ExitCodes
<1>4. QED
  BY <1>2, <1>3 DEF IInv

-----------------------------------------------------------------------------
(* The invariant holds in every reachable state: each way through main keeps what
   it holds and what it has read. *)
THEOREM Invariance == Spec => []IInv
<1>1. Init => IInv
  BY InitInvariant
<1>2. IInv /\ [Next]_vars => IInv'
  BY ParsePreserves, ParsedPreserves, LoadModulePreserves, CreatePreserves, StepCreatePreserves,
     DeviceRefusedPreserves, ExecutePreserves, FinishPreserves, SelftestAllocatePreserves,
     SelftestTransferPreserves, ComparePreserves, UnwindBufferPreserves, UnwindEndPreserves,
     StutterPreserves DEF Next
<1>3. QED
  BY <1>1, <1>2, PTL DEF Spec

(* Every early return of main and of the selftest gives back the mapping, the
   buffer and the device. *)
THEOREM Cleanliness == Spec => []NothingLeaks
<1>1. IInv => NothingLeaks
  BY DEF IInv
<1>2. QED
  BY <1>1, Invariance, PTL

(* The exit status of every command line is the documented one. *)
THEOREM Statuses == Spec => []ExitCodes
<1>1. IInv => ExitCodes
  BY DEF IInv
<1>2. QED
  BY <1>1, Invariance, PTL

(* Whatever else the line says, the last path, entry and device are what runs. *)
THEOREM LastOneCounts == Spec => []RunsWhatWasAsked
<1>1. IInv => RunsWhatWasAsked
  <2> SUFFICES ASSUME IInv, ran # <<>> PROVE ran = Asked
    BY DEF RunsWhatWasAsked
  <2>1. ran = Task(request) /\ i - 1 = Len(argv)
    BY DEF IInv, TypeOK, Progress
  <2>2. QED
    BY <2>1 DEF IInv, ReadSoFar, Asked
<1>2. QED
  BY <1>1, Invariance, PTL
=============================================================================
