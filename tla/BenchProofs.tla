---------------------------- MODULE BenchProofs -----------------------------
(***************************************************************************)
(* Proofs about Bench, for every module and every command line.            *)
(***************************************************************************)
EXTENDS Bench, ListLemmas, TLAPS

-----------------------------------------------------------------------------
(* verify_sampled.                                                           *)

(* A row of n elements holds a multiple of any stride up to n: the last multiple
   before the end of the matrix is in its last row. *)
LEMMA LastRowIsSampled ==
  ASSUME NEW m \in 1 .. SampleCount, NEW n \in Nat \ {0}
  PROVE  \E index \in Samples(m, n) : index \div n = m - 1
<1> DEFINE total  == m * n
           stride == AtLeast1(total \div SampleCount)
           q      == (total - 1) \div stride
<1>1. total \in Nat /\ total >= 1 /\ m \in Nat
  BY DEF SampleCount
<1>2. stride \in Nat /\ 1 <= stride /\ stride <= n
  <2>1. total <= 512 * n
    BY <1>1 DEF SampleCount
  <2>2. total \div SampleCount \in Nat /\ total \div SampleCount <= n
    <3> HIDE DEF total
    <3>1. QED
      BY <1>1, <2>1 DEF SampleCount
  <2>3. QED
    BY <2>2 DEF AtLeast1
<1>3. q \in Nat /\ stride * q <= total - 1 /\ total - 1 < stride * q + stride
  <2> HIDE DEF total, stride
  <2>1. QED
    BY <1>1, <1>2
<1>4. stride * q \in Samples(m, n)
  BY <1>3 DEF Samples
<1>5. (stride * q) \div n = m - 1
  <2> DEFINE index == stride * q
  <2> HIDE DEF stride, q
  <2>1. index \in Nat /\ index <= m * n - 1 /\ m * n - n <= index
    BY <1>1, <1>2, <1>3
  <2>2. m * n - n = (m - 1) * n
    BY <1>1
  <2> HIDE DEF index
  <2>3. index = (m - 1) * n + (index - (m - 1) * n) /\ index - (m - 1) * n \in 0 .. n - 1
    BY <1>1, <2>1, <2>2
  <2>4. index \div n = m - 1
    BY <1>1, <2>3
  <2>5. QED
    BY <2>4 DEF index
<1>6. QED
  BY <1>4, <1>5

-----------------------------------------------------------------------------
(* The arguments.                                                            *)

(* The locals while main has read nothing, and after one argument more. *)
LEMMA ReadingNothing ==
  Reading(0) = [path |-> None, kind |-> "cuda", iterations |-> DefaultIterations,
                baseline |-> TRUE, verify |-> TRUE]
<1>1. /\ LastGiven(argv, "path", 0, None) = None
      /\ LastGiven(argv, "device", 0, "cuda") = "cuda"
      /\ LastGiven(argv, "iters", 0, DefaultIterations) = DefaultIterations
      /\ Given(argv, "no_baseline", 0) = {} /\ Given(argv, "no_verify", 0) = {}
  BY NothingGiven
<1>2. QED
  BY <1>1 DEF Reading

LEMMA ReadingOneMore ==
  ASSUME argv \in Seq(ArgumentType), i \in DOMAIN argv,
         options = Reading(i - 1), ~BadArgument(argv[i])
  PROVE  Read(argv[i]) = Reading(i)
<1> DEFINE a == argv[i]
<1>1. a \in ArgumentType /\ i \in Nat \ {0} /\ (i - 1) + 1 = i /\ i - 1 \in Nat
  OBVIOUS
<1>2. a.option \in {"path", "device", "iters", "no_baseline", "no_verify"}
  BY <1>1 DEF ArgumentType, BadArgument
<1>3. ASSUME NEW option, NEW default
      PROVE  /\ a.option = option =>
                  Given(argv, option, i) # {} /\ LastGiven(argv, option, i, default) = a.value
             /\ a.option # option =>
                  /\ Given(argv, option, i) = Given(argv, option, i - 1)
                  /\ LastGiven(argv, option, i, default) = LastGiven(argv, option, i - 1, default)
  <2> DEFINE n == i - 1
  <2>1. n \in Nat /\ n + 1 = i
    BY <1>1
  <2> HIDE DEF n
  <2>2. /\ argv[n + 1].option = option =>
             /\ Given(argv, option, n + 1) # {}
             /\ LastGiven(argv, option, n + 1, default) = argv[n + 1].value
        /\ argv[n + 1].option # option =>
             /\ Given(argv, option, n + 1) = Given(argv, option, n)
             /\ LastGiven(argv, option, n + 1, default) = LastGiven(argv, option, n, default)
    BY <2>1, OneMoreGiven
  <2>3. QED
    BY <2>1, <2>2 DEF n
<1> HIDE DEF a
<1>4. CASE a.option = "path"
  BY ZenonT(40), <1>3, <1>4 DEF a, Read, Reading
<1>5. CASE a.option = "device"
  <2>1. Read(a) = [options EXCEPT !.kind = IF a.value = "cpu" THEN "cpu" ELSE "cuda"]
    BY <1>5 DEF Read
  <2>2. /\ LastGiven(argv, "path", i, None) = LastGiven(argv, "path", i - 1, None)
        /\ LastGiven(argv, "device", i, "cuda") = a.value
        /\ LastGiven(argv, "iters", i, DefaultIterations) = LastGiven(argv, "iters", i - 1, DefaultIterations)
        /\ Given(argv, "no_baseline", i) = Given(argv, "no_baseline", i - 1)
        /\ Given(argv, "no_verify", i) = Given(argv, "no_verify", i - 1)
    BY <1>3, <1>5
  <2>3. QED
    BY <2>1, <2>2 DEF a, Reading
<1>6. CASE a.option = "iters"
  BY SMTT(30), <1>3, <1>6 DEF a, Read, Reading
<1>7. CASE a.option = "no_baseline"
  BY ZenonT(40), <1>3, <1>7 DEF a, Read, Reading
<1>8. CASE a.option = "no_verify"
  BY ZenonT(40), <1>3, <1>8 DEF a, Read, Reading
<1>9. QED
  BY <1>2, <1>4, <1>5, <1>6, <1>7, <1>8 DEF a

(* What an argument that is not bad sets is of its type. *)
LEMMA ReadingTypes ==
  ASSUME TypeOK, ReadSoFar, i \in DOMAIN argv, ~BadArgument(argv[i])
  PROVE  LET new == Read(argv[i])
         IN /\ new.path \in Modules \cup {None} /\ new.kind \in {"cpu", "cuda"}
            /\ new.iterations \in Nat \ {0} /\ new.baseline \in BOOLEAN /\ new.verify \in BOOLEAN
<1> DEFINE a == argv[i]
<1>1. a \in ArgumentType
  BY DEF TypeOK
<1>2. /\ options.path \in Modules \cup {None} /\ options.kind \in {"cpu", "cuda"}
      /\ options.iterations \in Nat \ {0} /\ options.baseline \in BOOLEAN /\ options.verify \in BOOLEAN
      /\ options = Reading(i - 1)
  BY DEF TypeOK, ReadSoFar
<1> HIDE DEF a
<1>3. CASE a.option = "path"
  BY <1>1, <1>2, <1>3 DEF a, Read, Reading, ArgumentType
<1>4. CASE a.option = "device"
  BY <1>1, <1>2, <1>4 DEF a, Read, Reading, ArgumentType
<1>5. CASE a.option = "iters"
  <2>1. a.value \in Int /\ ~(a.value < 1)
    BY <1>1, <1>5 DEF a, ArgumentType, BadArgument
  <2>2. a.value \in Nat \ {0}
    BY <2>1
  <2>3. Read(a) = [options EXCEPT !.iterations = a.value]
    BY <1>5 DEF Read
  <2>4. /\ Read(a).iterations = a.value /\ Read(a).path = options.path /\ Read(a).kind = options.kind
        /\ Read(a).baseline = options.baseline /\ Read(a).verify = options.verify
    BY <1>2, <2>3 DEF Reading
  <2>5. QED
    BY <1>2, <2>2, <2>4 DEF a
<1>6. CASE a.option = "no_baseline"
  BY <1>1, <1>2, <1>6 DEF a, Read, Reading, ArgumentType
<1>7. CASE a.option = "no_verify"
  BY <1>1, <1>2, <1>7 DEF a, Read, Reading, ArgumentType
<1>8. QED
  BY <1>1, <1>3, <1>4, <1>5, <1>6, <1>7 DEF a, ArgumentType, BadArgument

(* An action that keeps the arguments keeps what they say. *)
LEMMA ArgumentsKept ==
  ASSUME UNCHANGED arguments
  PROVE  /\ argv' = argv /\ i' = i /\ options' = options /\ Len(argv)' = Len(argv)
         /\ module' = module /\ First' = First /\ (IsGemm <=> IsGemm')
         /\ Reading(i - 1)' = Reading(i - 1) /\ Asked' = Asked
         /\ (\A a \in 1 .. i - 1 : ~BadArgument(argv[a]))' <=> \A a \in 1 .. i - 1 : ~BadArgument(argv[a])
         /\ Malformed' <=> Malformed
<1>1. argv' = argv /\ i' = i /\ options' = options
  BY DEF arguments
<1>2. QED
  BY <1>1 DEF Reading, Given, LastGiven, BadArgument, Asked, Malformed, module, First, IsGemm

(* Past the arguments, the line is a good one and the locals hold all of it. *)
LEMMA Understood ==
  ASSUME TypeOK, ReadSoFar, stage \notin {"parse", "exited"}
  PROVE  ~Malformed /\ options = Asked
<1>1. i - 1 = Len(argv) /\ DOMAIN argv = 1 .. Len(argv)
  BY DEF TypeOK, ReadSoFar
<1>2. QED
  BY <1>1 DEF ReadSoFar, Malformed, Asked

-----------------------------------------------------------------------------
(* The invariant.                                                            *)

LEMMA InitInvariant == Init => IInv
<1> SUFFICES ASSUME Init PROVE IInv
  OBVIOUS
<1>1. argv \in Seq(ArgumentType) /\ Len(argv) \in Nat
  BY CommandsAssumption DEF Init
<1>2. TypeOK
  <2>1. i \in 1 .. Len(argv) + 1 /\ 0 \in 0 .. options.iterations
    BY <1>1, IterationsAssumption DEF Init
  <2>2. /\ options.path \in Modules \cup {None} /\ options.kind \in {"cpu", "cuda"}
        /\ options.iterations \in Nat \ {0} /\ options.baseline \in BOOLEAN /\ options.verify \in BOOLEAN
    BY IterationsAssumption DEF Init
  <2>3. DeviceTypeOK({"a", "b", "c"})
    BY DEF Init, DeviceInit, DeviceTypeOK
  <2>4. QED
    BY <1>1, <2>1, <2>2, <2>3 DEF Init, TypeOK, Stages
<1>3. ReadSoFar
  BY <1>1, ReadingNothing DEF Init, ReadSoFar
<1>4. UsedWhileOpen /\ OneDeviceAtATime /\ DriverStaysLoaded /\ Held /\ Progress
  BY DEF Init, DeviceInit, UsedWhileOpen, BuffersHaveADevice, OneDeviceAtATime, DriverStaysLoaded, InBaseline, Held, Progress,
         InOperands, InBaseline
<1>5. NothingLeaks /\ ExitCodes /\ TimesWholeRuns /\ VerdictIsRight
  BY DEF Init, NothingLeaks, ExitCodes, TimesWholeRuns, VerdictIsRight, Comparable
<1>6. QED
  BY <1>2, <1>3, <1>4, <1>5 DEF IInv

LEMMA ParsedPreserves ==
  ASSUME IInv, Parsed
  PROVE  IInv'
<1>1. UNCHANGED arguments
  BY DEF Parsed, GoOn, Return, baseline, deviceVars
<1>2. TypeOK'
  <2>1. stage' \in Stages /\ exit' \in {None, 0, 1, 2}
    BY DEF IInv, TypeOK, Stages,
           Parsed, GoOn, Return, baseline, deviceVars
  <2>2. mapped' \in BOOLEAN /\ result' \in BOOLEAN /\ captured' \in BOOLEAN
    BY DEF IInv, TypeOK, Parsed, GoOn, Return, baseline, deviceVars
  <2>3. /\ timed' \in 0 .. options.iterations /\ verdict' \in {"none", "ok", "wrong"}
        /\ reported' \subseteq {"hexir", "cublas"}
    BY DEF IInv, TypeOK, Parsed, GoOn, Return, baseline, deviceVars
  <2>4. library2' \in BOOLEAN /\ handle' \in BOOLEAN
    BY DEF IInv, TypeOK, Parsed, GoOn, Return, baseline, deviceVars
  <2>5. DeviceTypeOK({"a", "b", "c"})'
    BY DEF IInv, TypeOK, DeviceTypeOK, Parsed, GoOn, Return, baseline, deviceVars
  <2>6. QED
    BY <1>1, <2>1, <2>2, <2>3, <2>4, <2>5, ArgumentsKept DEF IInv, TypeOK
<1>3. ReadSoFar'
  <2>1. i = Len(argv) + 1 /\ (stage' = "load" => options.path # None) /\ stage' \in {"load", "exited"}
    BY DEF IInv, TypeOK, Parsed, GoOn, Return
  <2>2. QED
    BY <1>1, <2>1, ArgumentsKept DEF IInv, ReadSoFar
<1>4. UsedWhileOpen' /\ OneDeviceAtATime' /\ DriverStaysLoaded' /\ NothingLeaks'
  BY <1>1, ArgumentsKept
     DEF IInv, TypeOK, UsedWhileOpen, BuffersHaveADevice, OneDeviceAtATime, DriverStaysLoaded, InBaseline, NothingLeaks, Held, InOperands, DeviceOf,
         Parsed, GoOn, Return, baseline, deviceVars
<1>5. Held'
  BY <1>1, ArgumentsKept
     DEF IInv, TypeOK, Held, InOperands, DeviceOf,
         Parsed, GoOn, Return, baseline, deviceVars
<1>6. Progress'
  BY <1>1, ArgumentsKept
     DEF IInv, TypeOK, ReadSoFar, Progress, InOperands, InBaseline,
         Parsed, GoOn, Return, baseline, deviceVars
<1>7. ExitCodes'
  <2>1. i - 1 = Len(argv) /\ stage = "parse" /\ library' = library
    BY DEF IInv, TypeOK, Parsed, deviceVars
  <2>2. stage' = "exited" => exit' = 2 /\ options.path = None
    BY DEF Parsed, GoOn, Return
  <2>3. options = Asked
    BY <2>1 DEF IInv, ReadSoFar, Asked
  <2>4. QED
    BY <1>1, <2>1, <2>2, <2>3, ArgumentsKept DEF IInv, Held, ExitCodes, Malformed
<1>8. TimesWholeRuns' /\ VerdictIsRight'
  BY <1>1, ArgumentsKept, Understood
     DEF IInv, Progress, TimesWholeRuns, VerdictIsRight, Comparable,
         Parsed, GoOn, Return, baseline, deviceVars
<1>9. QED
  BY <1>2, <1>3, <1>4, <1>5, <1>6, <1>7, <1>8 DEF IInv

LEMMA LoadModulePreserves ==
  ASSUME IInv, LoadModule
  PROVE  IInv'
<1>1. UNCHANGED arguments
  BY DEF LoadModule, Return, baseline, deviceVars
<1>2. TypeOK'
  <2>1. stage' \in Stages /\ exit' \in {None, 0, 1, 2}
    BY DEF IInv, TypeOK, Stages,
           LoadModule, Return, baseline, deviceVars
  <2>2. mapped' \in BOOLEAN /\ result' \in BOOLEAN /\ captured' \in BOOLEAN
    BY DEF IInv, TypeOK, LoadModule, Return, baseline, deviceVars
  <2>3. /\ timed' \in 0 .. options.iterations /\ verdict' \in {"none", "ok", "wrong"}
        /\ reported' \subseteq {"hexir", "cublas"}
    BY DEF IInv, TypeOK, LoadModule, Return, baseline, deviceVars
  <2>4. library2' \in BOOLEAN /\ handle' \in BOOLEAN
    BY DEF IInv, TypeOK, LoadModule, Return, baseline, deviceVars
  <2>5. DeviceTypeOK({"a", "b", "c"})'
    BY DEF IInv, TypeOK, DeviceTypeOK, LoadModule, Return, baseline, deviceVars
  <2>6. QED
    BY <1>1, <2>1, <2>2, <2>3, <2>4, <2>5, ArgumentsKept DEF IInv, TypeOK
<1>3. ReadSoFar'
  BY <1>1, ArgumentsKept
     DEF IInv, ReadSoFar,
         LoadModule, Return, baseline, deviceVars
<1>4. UsedWhileOpen' /\ OneDeviceAtATime' /\ DriverStaysLoaded' /\ NothingLeaks'
  BY <1>1, ArgumentsKept
     DEF IInv, TypeOK, UsedWhileOpen, BuffersHaveADevice, OneDeviceAtATime, DriverStaysLoaded, InBaseline, NothingLeaks, Held, InOperands, DeviceOf,
         LoadModule, Return, baseline, deviceVars
<1>5. Held'
  BY <1>1, ArgumentsKept
     DEF IInv, TypeOK, Held, InOperands, DeviceOf,
         LoadModule, Return, baseline, deviceVars
<1>6. Progress'
  BY <1>1, ArgumentsKept
     DEF IInv, TypeOK, ReadSoFar, Progress, InOperands, InBaseline,
         LoadModule, Return, baseline, deviceVars
<1>7. ExitCodes'
  BY <1>1, ArgumentsKept, Understood
     DEF IInv, Progress, ExitCodes, InOperands, InBaseline,
         LoadModule, Return, baseline, deviceVars
<1>8. TimesWholeRuns' /\ VerdictIsRight'
  BY <1>1, ArgumentsKept, Understood
     DEF IInv, Progress, TimesWholeRuns, VerdictIsRight, Comparable,
         LoadModule, Return, baseline, deviceVars
<1>9. QED
  BY <1>2, <1>3, <1>4, <1>5, <1>6, <1>7, <1>8 DEF IInv

LEMMA InspectPreserves ==
  ASSUME IInv, Inspect
  PROVE  IInv'
<1>1. UNCHANGED arguments
  BY DEF Inspect, Return, baseline, deviceVars
<1>2. TypeOK'
  <2>1. stage' \in Stages /\ exit' \in {None, 0, 1, 2}
    BY DEF IInv, TypeOK, Stages,
           Inspect, Return, baseline, deviceVars
  <2>2. mapped' \in BOOLEAN /\ result' \in BOOLEAN /\ captured' \in BOOLEAN
    BY DEF IInv, TypeOK, Inspect, Return, baseline, deviceVars
  <2>3. /\ timed' \in 0 .. options.iterations /\ verdict' \in {"none", "ok", "wrong"}
        /\ reported' \subseteq {"hexir", "cublas"}
    BY DEF IInv, TypeOK, Inspect, Return, baseline, deviceVars
  <2>4. library2' \in BOOLEAN /\ handle' \in BOOLEAN
    BY DEF IInv, TypeOK, Inspect, Return, baseline, deviceVars
  <2>5. DeviceTypeOK({"a", "b", "c"})'
    BY DEF IInv, TypeOK, DeviceTypeOK, Inspect, Return, baseline, deviceVars
  <2>6. QED
    BY <1>1, <2>1, <2>2, <2>3, <2>4, <2>5, ArgumentsKept DEF IInv, TypeOK
<1>3. ReadSoFar'
  BY <1>1, ArgumentsKept
     DEF IInv, ReadSoFar,
         Inspect, Return, baseline, deviceVars
<1>4. UsedWhileOpen' /\ OneDeviceAtATime' /\ DriverStaysLoaded' /\ NothingLeaks'
  BY <1>1, ArgumentsKept
     DEF IInv, TypeOK, UsedWhileOpen, BuffersHaveADevice, OneDeviceAtATime, DriverStaysLoaded, InBaseline, NothingLeaks, Held, InOperands, DeviceOf,
         Inspect, Return, baseline, deviceVars
<1>5. Held'
  BY <1>1, ArgumentsKept
     DEF IInv, TypeOK, Held, InOperands, DeviceOf,
         Inspect, Return, baseline, deviceVars
<1>6. Progress'
  BY <1>1, ArgumentsKept
     DEF IInv, TypeOK, ReadSoFar, Progress, InOperands, InBaseline,
         Inspect, Return, baseline, deviceVars
<1>7. ExitCodes'
  BY <1>1, ArgumentsKept, Understood
     DEF IInv, Progress, ExitCodes, InOperands, InBaseline,
         Inspect, Return, baseline, deviceVars
<1>8. TimesWholeRuns' /\ VerdictIsRight'
  BY <1>1, ArgumentsKept, Understood
     DEF IInv, Progress, TimesWholeRuns, VerdictIsRight, Comparable,
         Inspect, Return, baseline, deviceVars
<1>9. QED
  BY <1>2, <1>3, <1>4, <1>5, <1>6, <1>7, <1>8 DEF IInv

LEMMA CreateToRunPreserves ==
  ASSUME IInv, CreateToRun
  PROVE  IInv'
<1>1. UNCHANGED arguments
  BY DEF CreateToRun, Create, BeginCreate, GoOn, baseline
<1>2. TypeOK'
  BY <1>1, ArgumentsKept
     DEF IInv, TypeOK, Stages, DeviceTypeOK,
         CreateToRun, Create, BeginCreate, GoOn, baseline
<1>3. ReadSoFar'
  BY <1>1, ArgumentsKept
     DEF IInv, ReadSoFar,
         CreateToRun, Create, BeginCreate, GoOn, baseline
<1>4. UsedWhileOpen' /\ OneDeviceAtATime' /\ DriverStaysLoaded' /\ NothingLeaks'
  BY <1>1, ArgumentsKept
     DEF IInv, TypeOK, UsedWhileOpen, BuffersHaveADevice, OneDeviceAtATime, DriverStaysLoaded, InBaseline, NothingLeaks, Held, InOperands, DeviceOf,
         CreateToRun, Create, BeginCreate, GoOn, baseline
<1>5. Held'
  BY <1>1, ArgumentsKept
     DEF IInv, TypeOK, Held, InOperands, DeviceOf,
         CreateToRun, Create, BeginCreate, GoOn, baseline
<1>6. Progress'
  BY <1>1, ArgumentsKept
     DEF IInv, TypeOK, ReadSoFar, Progress, InOperands, InBaseline,
         CreateToRun, Create, BeginCreate, GoOn, baseline
<1>7. ExitCodes'
  BY <1>1, ArgumentsKept, Understood
     DEF IInv, Progress, ExitCodes, InOperands, InBaseline,
         CreateToRun, Create, BeginCreate, GoOn, baseline
<1>8. TimesWholeRuns' /\ VerdictIsRight'
  BY <1>1, ArgumentsKept, Understood
     DEF IInv, Progress, TimesWholeRuns, VerdictIsRight, Comparable,
         CreateToRun, Create, BeginCreate, GoOn, baseline
<1>9. QED
  BY <1>2, <1>3, <1>4, <1>5, <1>6, <1>7, <1>8 DEF IInv

LEMMA DeviceRefusedPreserves ==
  ASSUME IInv, DeviceRefused
  PROVE  IInv'
<1>1. UNCHANGED arguments
  BY DEF DeviceRefused, Return, baseline, deviceVars
<1>2. TypeOK'
  BY <1>1, ArgumentsKept
     DEF IInv, TypeOK, Stages, DeviceTypeOK,
         DeviceRefused, Return, baseline, deviceVars
<1>3. ReadSoFar'
  BY <1>1, ArgumentsKept
     DEF IInv, ReadSoFar,
         DeviceRefused, Return, baseline, deviceVars
<1>4. UsedWhileOpen' /\ OneDeviceAtATime' /\ DriverStaysLoaded' /\ NothingLeaks'
  BY <1>1, ArgumentsKept
     DEF IInv, TypeOK, UsedWhileOpen, BuffersHaveADevice, OneDeviceAtATime, DriverStaysLoaded, InBaseline, NothingLeaks, Held, InOperands, DeviceOf,
         DeviceRefused, Return, baseline, deviceVars
<1>5. Held'
  BY <1>1, ArgumentsKept
     DEF IInv, TypeOK, Held, InOperands, DeviceOf,
         DeviceRefused, Return, baseline, deviceVars
<1>6. Progress'
  BY <1>1, ArgumentsKept
     DEF IInv, TypeOK, ReadSoFar, Progress, InOperands, InBaseline,
         DeviceRefused, Return, baseline, deviceVars
<1>7. ExitCodes'
  BY <1>1, ArgumentsKept, Understood
     DEF IInv, Progress, ExitCodes, InOperands, InBaseline,
         DeviceRefused, Return, baseline, deviceVars
<1>8. TimesWholeRuns' /\ VerdictIsRight'
  BY <1>1, ArgumentsKept, Understood
     DEF IInv, Progress, TimesWholeRuns, VerdictIsRight, Comparable,
         DeviceRefused, Return, baseline, deviceVars
<1>9. QED
  BY <1>2, <1>3, <1>4, <1>5, <1>6, <1>7, <1>8 DEF IInv

LEMMA CapturePreserves ==
  ASSUME IInv, Capture
  PROVE  IInv'
<1>1. UNCHANGED arguments
  BY DEF Capture, ReleaseDevice, Return, GoOn, baseline, deviceVars
<1>2. TypeOK'
  <2>1. stage' \in Stages /\ exit' \in {None, 0, 1, 2}
    BY DEF IInv, TypeOK, Stages,
           Capture, ReleaseDevice, Return, GoOn, baseline, deviceVars
  <2>2. mapped' \in BOOLEAN /\ result' \in BOOLEAN /\ captured' \in BOOLEAN
    BY DEF IInv, TypeOK, Capture, ReleaseDevice, Return, GoOn, baseline, deviceVars
  <2>3. /\ timed' \in 0 .. options.iterations /\ verdict' \in {"none", "ok", "wrong"}
        /\ reported' \subseteq {"hexir", "cublas"}
    BY DEF IInv, TypeOK, Capture, ReleaseDevice, Return, GoOn, baseline, deviceVars
  <2>4. library2' \in BOOLEAN /\ handle' \in BOOLEAN
    BY DEF IInv, TypeOK, Capture, ReleaseDevice, Return, GoOn, baseline, deviceVars
  <2>5. DeviceTypeOK({"a", "b", "c"})'
    BY DEF IInv, TypeOK, DeviceTypeOK, Capture, ReleaseDevice, Return, GoOn, baseline, deviceVars
  <2>6. QED
    BY <1>1, <2>1, <2>2, <2>3, <2>4, <2>5, ArgumentsKept DEF IInv, TypeOK
<1>3. ReadSoFar'
  BY <1>1, ArgumentsKept
     DEF IInv, ReadSoFar,
         Capture, ReleaseDevice, Return, GoOn, baseline, deviceVars
<1>4. UsedWhileOpen' /\ OneDeviceAtATime' /\ DriverStaysLoaded' /\ NothingLeaks'
  BY <1>1, ArgumentsKept
     DEF IInv, TypeOK, UsedWhileOpen, BuffersHaveADevice, OneDeviceAtATime, DriverStaysLoaded, InBaseline, NothingLeaks, Held, InOperands, DeviceOf,
         Capture, ReleaseDevice, Return, GoOn, baseline, deviceVars
<1>5. Held'
  BY <1>1, ArgumentsKept
     DEF IInv, TypeOK, Held, InOperands, DeviceOf,
         Capture, ReleaseDevice, Return, GoOn, baseline, deviceVars
<1>6. Progress'
  BY <1>1, ArgumentsKept
     DEF IInv, TypeOK, ReadSoFar, Progress, InOperands, InBaseline,
         Capture, ReleaseDevice, Return, GoOn, baseline, deviceVars
<1>7. ExitCodes'
  BY <1>1, ArgumentsKept, Understood
     DEF IInv, Progress, ExitCodes, InOperands, InBaseline,
         Capture, ReleaseDevice, Return, GoOn, baseline, deviceVars
<1>8. TimesWholeRuns' /\ VerdictIsRight'
  BY <1>1, ArgumentsKept, Understood
     DEF IInv, Progress, TimesWholeRuns, VerdictIsRight, Comparable,
         Capture, ReleaseDevice, Return, GoOn, baseline, deviceVars
<1>9. QED
  BY <1>2, <1>3, <1>4, <1>5, <1>6, <1>7, <1>8 DEF IInv

LEMMA TimeRunPreserves ==
  ASSUME IInv, TimeRun
  PROVE  IInv'
<1>1. UNCHANGED arguments
  BY DEF TimeRun, ReleaseDevice, Return, GoOn, baseline, deviceVars
<1>2. TypeOK'
  <2>1. stage' \in Stages /\ exit' \in {None, 0, 1, 2}
    BY DEF IInv, TypeOK, Stages,
           TimeRun, ReleaseDevice, Return, GoOn, baseline, deviceVars
  <2>2. mapped' \in BOOLEAN /\ result' \in BOOLEAN /\ captured' \in BOOLEAN
    BY DEF IInv, TypeOK, TimeRun, ReleaseDevice, Return, GoOn, baseline, deviceVars
  <2>3. /\ timed' \in 0 .. options.iterations /\ verdict' \in {"none", "ok", "wrong"}
        /\ reported' \subseteq {"hexir", "cublas"}
    BY DEF IInv, TypeOK, TimeRun, ReleaseDevice, Return, GoOn, baseline, deviceVars
  <2>4. library2' \in BOOLEAN /\ handle' \in BOOLEAN
    BY DEF IInv, TypeOK, TimeRun, ReleaseDevice, Return, GoOn, baseline, deviceVars
  <2>5. DeviceTypeOK({"a", "b", "c"})'
    BY DEF IInv, TypeOK, DeviceTypeOK, TimeRun, ReleaseDevice, Return, GoOn, baseline, deviceVars
  <2>6. QED
    BY <1>1, <2>1, <2>2, <2>3, <2>4, <2>5, ArgumentsKept DEF IInv, TypeOK
<1>3. ReadSoFar'
  BY <1>1, ArgumentsKept
     DEF IInv, ReadSoFar,
         TimeRun, ReleaseDevice, Return, GoOn, baseline, deviceVars
<1>4. UsedWhileOpen' /\ OneDeviceAtATime' /\ DriverStaysLoaded' /\ NothingLeaks'
  BY <1>1, ArgumentsKept
     DEF IInv, TypeOK, UsedWhileOpen, BuffersHaveADevice, OneDeviceAtATime, DriverStaysLoaded, InBaseline, NothingLeaks, Held, InOperands, DeviceOf,
         TimeRun, ReleaseDevice, Return, GoOn, baseline, deviceVars
<1>5. Held'
  BY <1>1, ArgumentsKept
     DEF IInv, TypeOK, Held, InOperands, DeviceOf,
         TimeRun, ReleaseDevice, Return, GoOn, baseline, deviceVars
<1>6. Progress'
  BY <1>1, ArgumentsKept
     DEF IInv, TypeOK, ReadSoFar, Progress, InOperands, InBaseline,
         TimeRun, ReleaseDevice, Return, GoOn, baseline, deviceVars
<1>7. ExitCodes'
  BY <1>1, ArgumentsKept, Understood
     DEF IInv, Progress, ExitCodes, InOperands, InBaseline,
         TimeRun, ReleaseDevice, Return, GoOn, baseline, deviceVars
<1>8. TimesWholeRuns' /\ VerdictIsRight'
  BY <1>1, ArgumentsKept, Understood
     DEF IInv, Progress, TimesWholeRuns, VerdictIsRight, Comparable,
         TimeRun, ReleaseDevice, Return, GoOn, baseline, deviceVars
<1>9. QED
  BY <1>2, <1>3, <1>4, <1>5, <1>6, <1>7, <1>8 DEF IInv

LEMMA TimedPreserves ==
  ASSUME IInv, Timed
  PROVE  IInv'
<1>1. UNCHANGED arguments
  BY DEF Timed, ReleaseDevice, GoOn, baseline
<1>2. TypeOK'
  BY <1>1, ArgumentsKept
     DEF IInv, TypeOK, Stages, DeviceTypeOK,
         Timed, ReleaseDevice, GoOn, baseline
<1>3. ReadSoFar'
  BY <1>1, ArgumentsKept
     DEF IInv, ReadSoFar,
         Timed, ReleaseDevice, GoOn, baseline
<1>4. UsedWhileOpen' /\ OneDeviceAtATime' /\ DriverStaysLoaded' /\ NothingLeaks'
  BY <1>1, ArgumentsKept
     DEF IInv, TypeOK, UsedWhileOpen, BuffersHaveADevice, OneDeviceAtATime, DriverStaysLoaded, InBaseline, NothingLeaks, Held, InOperands, DeviceOf,
         Timed, ReleaseDevice, GoOn, baseline
<1>5. Held'
  BY <1>1, ArgumentsKept
     DEF IInv, TypeOK, Held, InOperands, DeviceOf,
         Timed, ReleaseDevice, GoOn, baseline
<1>6. Progress'
  BY <1>1, ArgumentsKept
     DEF IInv, TypeOK, ReadSoFar, Progress, InOperands, InBaseline,
         Timed, ReleaseDevice, GoOn, baseline
<1>7. ExitCodes'
  BY <1>1, ArgumentsKept, Understood
     DEF IInv, Progress, ExitCodes, InOperands, InBaseline,
         Timed, ReleaseDevice, GoOn, baseline
<1>8. TimesWholeRuns' /\ VerdictIsRight'
  BY <1>1, ArgumentsKept, Understood
     DEF IInv, Progress, TimesWholeRuns, VerdictIsRight, Comparable,
         Timed, ReleaseDevice, GoOn, baseline
<1>9. QED
  BY <1>2, <1>3, <1>4, <1>5, <1>6, <1>7, <1>8 DEF IInv

LEMMA VerifyPreserves ==
  ASSUME IInv, Verify
  PROVE  IInv'
<1>1. UNCHANGED arguments
  BY DEF Verify, baseline, deviceVars
<1>2. TypeOK'
  <2>1. stage' \in Stages /\ exit' \in {None, 0, 1, 2}
    BY DEF IInv, TypeOK, Stages,
           Verify, baseline, deviceVars
  <2>2. mapped' \in BOOLEAN /\ result' \in BOOLEAN /\ captured' \in BOOLEAN
    BY DEF IInv, TypeOK, Verify, baseline, deviceVars
  <2>3. /\ timed' \in 0 .. options.iterations /\ verdict' \in {"none", "ok", "wrong"}
        /\ reported' \subseteq {"hexir", "cublas"}
    BY DEF IInv, TypeOK, Verify, baseline, deviceVars
  <2>4. library2' \in BOOLEAN /\ handle' \in BOOLEAN
    BY DEF IInv, TypeOK, Verify, baseline, deviceVars
  <2>5. DeviceTypeOK({"a", "b", "c"})'
    BY DEF IInv, TypeOK, DeviceTypeOK, Verify, baseline, deviceVars
  <2>6. QED
    BY <1>1, <2>1, <2>2, <2>3, <2>4, <2>5, ArgumentsKept DEF IInv, TypeOK
<1>3. ReadSoFar'
  BY <1>1, ArgumentsKept
     DEF IInv, ReadSoFar,
         Verify, baseline, deviceVars
<1>4. UsedWhileOpen' /\ OneDeviceAtATime' /\ DriverStaysLoaded' /\ NothingLeaks'
  BY <1>1, ArgumentsKept
     DEF IInv, TypeOK, UsedWhileOpen, BuffersHaveADevice, OneDeviceAtATime, DriverStaysLoaded, InBaseline, NothingLeaks, Held, InOperands, DeviceOf,
         Verify, baseline, deviceVars
<1>5. Held'
  BY <1>1, ArgumentsKept
     DEF IInv, TypeOK, Held, InOperands, DeviceOf,
         Verify, baseline, deviceVars
<1>6. Progress'
  BY <1>1, ArgumentsKept
     DEF IInv, TypeOK, ReadSoFar, Progress, InOperands, InBaseline,
         Verify, baseline, deviceVars
<1>7. ExitCodes'
  BY <1>1, ArgumentsKept, Understood
     DEF IInv, Progress, ExitCodes, InOperands, InBaseline,
         Verify, baseline, deviceVars
<1>8. TimesWholeRuns' /\ VerdictIsRight'
  <2>1. /\ options = Asked /\ timed = options.iterations /\ module.device = options.kind
        /\ module.executables # <<>> /\ verdict = "none" /\ module \in ModuleType
    BY Understood, ModulesAssumption DEF IInv, TypeOK, ReadSoFar, Progress, Verify, module
  <2>2. TimesWholeRuns'
    BY <1>1, <2>1, ArgumentsKept DEF TimesWholeRuns, Verify
  <2>3. ASSUME verdict' # "none", Comparable, First.m <= SampleCount
        PROVE  /\ verdict' = "wrong" => module.fault # "none"
               /\ verdict' = "ok" => module.fault # "last_row"
    <3>1. First \in KernelType
      BY <2>1, <2>3 DEF ModuleType, First
    <3>2. First.m \in 1 .. SampleCount /\ First.n \in Nat \ {0}
      BY <2>3, <3>1 DEF KernelType, SampleCount
    <3>3. verdict' = IF \E index \in Samples(First.m, First.n) : Faulty(index) THEN "wrong" ELSE "ok"
      BY <2>1, <2>3 DEF Verify
    <3>4. module.fault = "none" => \A index : ~Faulty(index)
      BY DEF Faulty
    <3>5. module.fault = "last_row" => \E index \in Samples(First.m, First.n) : Faulty(index)
      BY <3>2, LastRowIsSampled DEF Faulty
    <3>6. QED
      BY <3>3, <3>4, <3>5
  <2>4. VerdictIsRight'
    <3>1. (Comparable <=> Comparable') /\ module' = module /\ First' = First
      BY <1>1, ArgumentsKept DEF Verify, Comparable
    <3>2. QED
      BY <2>3, <3>1 DEF VerdictIsRight
  <2>5. QED
    BY <2>2, <2>4
<1>9. QED
  BY <1>2, <1>3, <1>4, <1>5, <1>6, <1>7, <1>8 DEF IInv

LEMMA BaselinePreserves ==
  ASSUME IInv, Baseline
  PROVE  IInv'
<1>1. UNCHANGED arguments
  BY DEF Baseline, Return, GoOn, deviceVars
<1>2. TypeOK'
  <2>1. stage' \in Stages /\ exit' \in {None, 0, 1, 2}
    BY DEF IInv, TypeOK, Stages,
           Baseline, Return, GoOn, deviceVars
  <2>2. mapped' \in BOOLEAN /\ result' \in BOOLEAN /\ captured' \in BOOLEAN
    BY DEF IInv, TypeOK, Baseline, Return, GoOn, deviceVars
  <2>3. /\ timed' \in 0 .. options.iterations /\ verdict' \in {"none", "ok", "wrong"}
        /\ reported' \subseteq {"hexir", "cublas"}
    BY DEF IInv, TypeOK, Baseline, Return, GoOn, deviceVars
  <2>4. library2' \in BOOLEAN /\ handle' \in BOOLEAN
    BY DEF IInv, TypeOK, Baseline, Return, GoOn, deviceVars
  <2>5. DeviceTypeOK({"a", "b", "c"})'
    BY DEF IInv, TypeOK, DeviceTypeOK, Baseline, Return, GoOn, deviceVars
  <2>6. QED
    BY <1>1, <2>1, <2>2, <2>3, <2>4, <2>5, ArgumentsKept DEF IInv, TypeOK
<1>3. ReadSoFar'
  BY <1>1, ArgumentsKept
     DEF IInv, ReadSoFar,
         Baseline, Return, GoOn, deviceVars
<1>4. UsedWhileOpen' /\ OneDeviceAtATime' /\ DriverStaysLoaded' /\ NothingLeaks'
  BY <1>1, ArgumentsKept
     DEF IInv, TypeOK, UsedWhileOpen, BuffersHaveADevice, OneDeviceAtATime, DriverStaysLoaded, InBaseline, NothingLeaks, Held, InOperands, DeviceOf,
         Baseline, Return, GoOn, deviceVars
<1>5. Held'
  BY <1>1, ArgumentsKept
     DEF IInv, TypeOK, Held, InOperands, DeviceOf,
         Baseline, Return, GoOn, deviceVars
<1>6. Progress'
  BY <1>1, ArgumentsKept
     DEF IInv, TypeOK, ReadSoFar, Progress, InOperands, InBaseline,
         Baseline, Return, GoOn, deviceVars
<1>7. ExitCodes'
  BY <1>1, ArgumentsKept, Understood
     DEF IInv, Progress, ExitCodes, InOperands, InBaseline,
         Baseline, Return, GoOn, deviceVars
<1>8. TimesWholeRuns' /\ VerdictIsRight'
  BY <1>1, ArgumentsKept, Understood
     DEF IInv, Progress, TimesWholeRuns, VerdictIsRight, Comparable,
         Baseline, Return, GoOn, deviceVars
<1>9. QED
  BY <1>2, <1>3, <1>4, <1>5, <1>6, <1>7, <1>8 DEF IInv

LEMMA CreateForBaselinePreserves ==
  ASSUME IInv, CreateForBaseline
  PROVE  IInv'
<1>1. UNCHANGED arguments
  BY DEF CreateForBaseline, Create, BeginCreate, GoOn, baseline
<1>2. TypeOK'
  BY <1>1, ArgumentsKept
     DEF IInv, TypeOK, Stages, DeviceTypeOK,
         CreateForBaseline, Create, BeginCreate, GoOn, baseline
<1>3. ReadSoFar'
  BY <1>1, ArgumentsKept
     DEF IInv, ReadSoFar,
         CreateForBaseline, Create, BeginCreate, GoOn, baseline
<1>4. UsedWhileOpen' /\ OneDeviceAtATime' /\ DriverStaysLoaded' /\ NothingLeaks'
  BY <1>1, ArgumentsKept
     DEF IInv, TypeOK, UsedWhileOpen, BuffersHaveADevice, OneDeviceAtATime, DriverStaysLoaded, InBaseline, NothingLeaks, Held, InOperands, DeviceOf,
         CreateForBaseline, Create, BeginCreate, GoOn, baseline
<1>5. Held'
  BY <1>1, ArgumentsKept
     DEF IInv, TypeOK, Held, InOperands, DeviceOf,
         CreateForBaseline, Create, BeginCreate, GoOn, baseline
<1>6. Progress'
  BY <1>1, ArgumentsKept
     DEF IInv, TypeOK, ReadSoFar, Progress, InOperands, InBaseline,
         CreateForBaseline, Create, BeginCreate, GoOn, baseline
<1>7. ExitCodes'
  BY <1>1, ArgumentsKept, Understood
     DEF IInv, Progress, ExitCodes, InOperands, InBaseline,
         CreateForBaseline, Create, BeginCreate, GoOn, baseline
<1>8. TimesWholeRuns' /\ VerdictIsRight'
  BY <1>1, ArgumentsKept, Understood
     DEF IInv, Progress, TimesWholeRuns, VerdictIsRight, Comparable,
         CreateForBaseline, Create, BeginCreate, GoOn, baseline
<1>9. QED
  BY <1>2, <1>3, <1>4, <1>5, <1>6, <1>7, <1>8 DEF IInv

LEMMA AllocateOperandPreserves ==
  ASSUME IInv, NEW buffer \in {"a", "b", "c"}, NEW from \in {"allocate", "allocate_b", "allocate_c"},
         NEW to \in {"allocate_b", "allocate_c", "write_a"}, AllocateOperand(buffer, from, to)
  PROVE  IInv'
<1>1. UNCHANGED arguments
  BY DEF AllocateOperand, Allocate, GoOn, baseline
<1>2. TypeOK'
  <2>1. stage' \in Stages /\ exit' \in {None, 0, 1, 2}
    BY DEF IInv, TypeOK, Stages,
           AllocateOperand, Allocate, GoOn, baseline
  <2>2. mapped' \in BOOLEAN /\ result' \in BOOLEAN /\ captured' \in BOOLEAN
    BY DEF IInv, TypeOK, AllocateOperand, Allocate, GoOn, baseline
  <2>3. /\ timed' \in 0 .. options.iterations /\ verdict' \in {"none", "ok", "wrong"}
        /\ reported' \subseteq {"hexir", "cublas"}
    BY DEF IInv, TypeOK, AllocateOperand, Allocate, GoOn, baseline
  <2>4. library2' \in BOOLEAN /\ handle' \in BOOLEAN
    BY DEF IInv, TypeOK, AllocateOperand, Allocate, GoOn, baseline
  <2>5. DeviceTypeOK({"a", "b", "c"})'
    BY DEF IInv, TypeOK, DeviceTypeOK, AllocateOperand, Allocate, GoOn, baseline
  <2>6. QED
    BY <1>1, <2>1, <2>2, <2>3, <2>4, <2>5, ArgumentsKept DEF IInv, TypeOK
<1>3. ReadSoFar'
  BY <1>1, ArgumentsKept
     DEF IInv, ReadSoFar,
         AllocateOperand, Allocate, GoOn, baseline
<1>4. UsedWhileOpen' /\ OneDeviceAtATime' /\ DriverStaysLoaded' /\ NothingLeaks'
  BY <1>1, ArgumentsKept
     DEF IInv, TypeOK, UsedWhileOpen, BuffersHaveADevice, OneDeviceAtATime, DriverStaysLoaded, InBaseline, NothingLeaks, Held, InOperands, DeviceOf,
         AllocateOperand, Allocate, GoOn, baseline
<1>5. Held'
  BY <1>1, ArgumentsKept
     DEF IInv, TypeOK, Held, InOperands, DeviceOf,
         AllocateOperand, Allocate, GoOn, baseline
<1>6. Progress'
  BY <1>1, ArgumentsKept
     DEF IInv, TypeOK, ReadSoFar, Progress, InOperands, InBaseline,
         AllocateOperand, Allocate, GoOn, baseline
<1>7. ExitCodes'
  BY <1>1, ArgumentsKept, Understood
     DEF IInv, Progress, ExitCodes, InOperands, InBaseline,
         AllocateOperand, Allocate, GoOn, baseline
<1>8. TimesWholeRuns' /\ VerdictIsRight'
  BY <1>1, ArgumentsKept, Understood
     DEF IInv, Progress, TimesWholeRuns, VerdictIsRight, Comparable,
         AllocateOperand, Allocate, GoOn, baseline
<1>9. QED
  BY <1>2, <1>3, <1>4, <1>5, <1>6, <1>7, <1>8 DEF IInv

LEMMA WriteOperandPreserves ==
  ASSUME IInv, NEW buffer, NEW from \in {"write_a", "write_b"}, NEW to \in {"write_b", "handle"},
         WriteOperand(buffer, from, to)
  PROVE  IInv'
<1>1. UNCHANGED arguments
  BY DEF WriteOperand, Transfer, GoOn, deviceVars
<1>2. TypeOK'
  <2>1. stage' \in Stages /\ exit' \in {None, 0, 1, 2}
    BY DEF IInv, TypeOK, Stages,
           WriteOperand, Transfer, GoOn, deviceVars
  <2>2. mapped' \in BOOLEAN /\ result' \in BOOLEAN /\ captured' \in BOOLEAN
    BY DEF IInv, TypeOK, WriteOperand, Transfer, GoOn, deviceVars
  <2>3. /\ timed' \in 0 .. options.iterations /\ verdict' \in {"none", "ok", "wrong"}
        /\ reported' \subseteq {"hexir", "cublas"}
    BY DEF IInv, TypeOK, WriteOperand, Transfer, GoOn, deviceVars
  <2>4. library2' \in BOOLEAN /\ handle' \in BOOLEAN
    BY DEF IInv, TypeOK, WriteOperand, Transfer, GoOn, deviceVars
  <2>5. DeviceTypeOK({"a", "b", "c"})'
    BY DEF IInv, TypeOK, DeviceTypeOK, WriteOperand, Transfer, GoOn, deviceVars
  <2>6. QED
    BY <1>1, <2>1, <2>2, <2>3, <2>4, <2>5, ArgumentsKept DEF IInv, TypeOK
<1>3. ReadSoFar'
  BY <1>1, ArgumentsKept
     DEF IInv, ReadSoFar,
         WriteOperand, Transfer, GoOn, deviceVars
<1>4. UsedWhileOpen' /\ OneDeviceAtATime' /\ DriverStaysLoaded' /\ NothingLeaks'
  BY <1>1, ArgumentsKept
     DEF IInv, TypeOK, UsedWhileOpen, BuffersHaveADevice, OneDeviceAtATime, DriverStaysLoaded, InBaseline, NothingLeaks, Held, InOperands, DeviceOf,
         WriteOperand, Transfer, GoOn, deviceVars
<1>5. Held'
  BY <1>1, ArgumentsKept
     DEF IInv, TypeOK, Held, InOperands, DeviceOf,
         WriteOperand, Transfer, GoOn, deviceVars
<1>6. Progress'
  BY <1>1, ArgumentsKept
     DEF IInv, TypeOK, ReadSoFar, Progress, InOperands, InBaseline,
         WriteOperand, Transfer, GoOn, deviceVars
<1>7. ExitCodes'
  BY <1>1, ArgumentsKept, Understood
     DEF IInv, Progress, ExitCodes, InOperands, InBaseline,
         WriteOperand, Transfer, GoOn, deviceVars
<1>8. TimesWholeRuns' /\ VerdictIsRight'
  BY <1>1, ArgumentsKept, Understood
     DEF IInv, Progress, TimesWholeRuns, VerdictIsRight, Comparable,
         WriteOperand, Transfer, GoOn, deviceVars
<1>9. QED
  BY <1>2, <1>3, <1>4, <1>5, <1>6, <1>7, <1>8 DEF IInv

LEMMA OpenHandlePreserves ==
  ASSUME IInv, OpenHandle
  PROVE  IInv'
<1>1. UNCHANGED arguments
  BY DEF OpenHandle, GoOn, deviceVars
<1>2. TypeOK'
  BY <1>1, ArgumentsKept
     DEF IInv, TypeOK, Stages, DeviceTypeOK,
         OpenHandle, GoOn, deviceVars
<1>3. ReadSoFar'
  BY <1>1, ArgumentsKept
     DEF IInv, ReadSoFar,
         OpenHandle, GoOn, deviceVars
<1>4. UsedWhileOpen' /\ OneDeviceAtATime' /\ DriverStaysLoaded' /\ NothingLeaks'
  BY <1>1, ArgumentsKept
     DEF IInv, TypeOK, UsedWhileOpen, BuffersHaveADevice, OneDeviceAtATime, DriverStaysLoaded, InBaseline, NothingLeaks, Held, InOperands, DeviceOf,
         OpenHandle, GoOn, deviceVars
<1>5. Held'
  BY <1>1, ArgumentsKept
     DEF IInv, TypeOK, Held, InOperands, DeviceOf,
         OpenHandle, GoOn, deviceVars
<1>6. Progress'
  BY <1>1, ArgumentsKept
     DEF IInv, TypeOK, ReadSoFar, Progress, InOperands, InBaseline,
         OpenHandle, GoOn, deviceVars
<1>7. ExitCodes'
  BY <1>1, ArgumentsKept, Understood
     DEF IInv, Progress, ExitCodes, InOperands, InBaseline,
         OpenHandle, GoOn, deviceVars
<1>8. TimesWholeRuns' /\ VerdictIsRight'
  BY <1>1, ArgumentsKept, Understood
     DEF IInv, Progress, TimesWholeRuns, VerdictIsRight, Comparable,
         OpenHandle, GoOn, deviceVars
<1>9. QED
  BY <1>2, <1>3, <1>4, <1>5, <1>6, <1>7, <1>8 DEF IInv

LEMMA DgemmPreserves ==
  ASSUME IInv, Dgemm
  PROVE  IInv'
<1>1. UNCHANGED arguments
  BY DEF Dgemm, GoOn, deviceVars
<1>2. TypeOK'
  BY <1>1, ArgumentsKept
     DEF IInv, TypeOK, Stages, DeviceTypeOK,
         Dgemm, GoOn, deviceVars
<1>3. ReadSoFar'
  BY <1>1, ArgumentsKept
     DEF IInv, ReadSoFar,
         Dgemm, GoOn, deviceVars
<1>4. UsedWhileOpen' /\ OneDeviceAtATime' /\ DriverStaysLoaded' /\ NothingLeaks'
  BY <1>1, ArgumentsKept
     DEF IInv, TypeOK, UsedWhileOpen, BuffersHaveADevice, OneDeviceAtATime, DriverStaysLoaded, InBaseline, NothingLeaks, Held, InOperands, DeviceOf,
         Dgemm, GoOn, deviceVars
<1>5. Held'
  BY <1>1, ArgumentsKept
     DEF IInv, TypeOK, Held, InOperands, DeviceOf,
         Dgemm, GoOn, deviceVars
<1>6. Progress'
  BY <1>1, ArgumentsKept
     DEF IInv, TypeOK, ReadSoFar, Progress, InOperands, InBaseline,
         Dgemm, GoOn, deviceVars
<1>7. ExitCodes'
  BY <1>1, ArgumentsKept, Understood
     DEF IInv, Progress, ExitCodes, InOperands, InBaseline,
         Dgemm, GoOn, deviceVars
<1>8. TimesWholeRuns' /\ VerdictIsRight'
  <2>1. /\ IsGemm /\ options.kind = "cuda" /\ options.baseline /\ "hexir" \in reported
        /\ library2 /\ module.rodata # "short"
    BY DEF IInv, Progress, InBaseline, InOperands, Dgemm
  <2>2. options = Asked
    BY Understood DEF IInv, Dgemm
  <2>3. TimesWholeRuns'
    BY <1>1, <2>1, <2>2, ArgumentsKept DEF IInv, TimesWholeRuns, Dgemm
  <2>4. VerdictIsRight'
    BY <1>1, ArgumentsKept DEF IInv, VerdictIsRight, Comparable, Dgemm
  <2>5. QED
    BY <2>3, <2>4
<1>9. QED
  BY <1>2, <1>3, <1>4, <1>5, <1>6, <1>7, <1>8 DEF IInv

LEMMA DestroyHandlePreserves ==
  ASSUME IInv, DestroyHandle
  PROVE  IInv'
<1>1. UNCHANGED arguments
  BY DEF DestroyHandle, GoOn, deviceVars
<1>2. TypeOK'
  <2>1. stage' \in Stages /\ exit' \in {None, 0, 1, 2}
    BY DEF IInv, TypeOK, Stages,
           DestroyHandle, GoOn, deviceVars
  <2>2. mapped' \in BOOLEAN /\ result' \in BOOLEAN /\ captured' \in BOOLEAN
    BY DEF IInv, TypeOK, DestroyHandle, GoOn, deviceVars
  <2>3. /\ timed' \in 0 .. options.iterations /\ verdict' \in {"none", "ok", "wrong"}
        /\ reported' \subseteq {"hexir", "cublas"}
    BY DEF IInv, TypeOK, DestroyHandle, GoOn, deviceVars
  <2>4. library2' \in BOOLEAN /\ handle' \in BOOLEAN
    BY DEF IInv, TypeOK, DestroyHandle, GoOn, deviceVars
  <2>5. DeviceTypeOK({"a", "b", "c"})'
    BY DEF IInv, TypeOK, DeviceTypeOK, DestroyHandle, GoOn, deviceVars
  <2>6. QED
    BY <1>1, <2>1, <2>2, <2>3, <2>4, <2>5, ArgumentsKept DEF IInv, TypeOK
<1>3. ReadSoFar'
  BY <1>1, ArgumentsKept
     DEF IInv, ReadSoFar,
         DestroyHandle, GoOn, deviceVars
<1>4. UsedWhileOpen' /\ OneDeviceAtATime' /\ DriverStaysLoaded' /\ NothingLeaks'
  BY <1>1, ArgumentsKept
     DEF IInv, TypeOK, UsedWhileOpen, BuffersHaveADevice, OneDeviceAtATime, DriverStaysLoaded, InBaseline, NothingLeaks, Held, InOperands, DeviceOf,
         DestroyHandle, GoOn, deviceVars
<1>5. Held'
  BY <1>1, ArgumentsKept
     DEF IInv, TypeOK, Held, InOperands, DeviceOf,
         DestroyHandle, GoOn, deviceVars
<1>6. Progress'
  BY <1>1, ArgumentsKept
     DEF IInv, TypeOK, ReadSoFar, Progress, InOperands, InBaseline,
         DestroyHandle, GoOn, deviceVars
<1>7. ExitCodes'
  BY <1>1, ArgumentsKept, Understood
     DEF IInv, Progress, ExitCodes, InOperands, InBaseline,
         DestroyHandle, GoOn, deviceVars
<1>8. TimesWholeRuns' /\ VerdictIsRight'
  BY <1>1, ArgumentsKept, Understood
     DEF IInv, Progress, TimesWholeRuns, VerdictIsRight, Comparable,
         DestroyHandle, GoOn, deviceVars
<1>9. QED
  BY <1>2, <1>3, <1>4, <1>5, <1>6, <1>7, <1>8 DEF IInv

LEMMA ReleaseThreeBuffersPreserves ==
  ASSUME IInv, ReleaseThreeBuffers
  PROVE  IInv'
<1>1. UNCHANGED arguments
  BY DEF ReleaseThreeBuffers, ReleaseBuffers, GoOn, baseline
<1>2. TypeOK'
  BY <1>1, ArgumentsKept
     DEF IInv, TypeOK, Stages, DeviceTypeOK,
         ReleaseThreeBuffers, ReleaseBuffers, GoOn, baseline
<1>3. ReadSoFar'
  BY <1>1, ArgumentsKept
     DEF IInv, ReadSoFar,
         ReleaseThreeBuffers, ReleaseBuffers, GoOn, baseline
<1>4. UsedWhileOpen' /\ OneDeviceAtATime' /\ DriverStaysLoaded' /\ NothingLeaks'
  BY <1>1, ArgumentsKept
     DEF IInv, TypeOK, UsedWhileOpen, BuffersHaveADevice, OneDeviceAtATime, DriverStaysLoaded, InBaseline, NothingLeaks, Held, InOperands, DeviceOf,
         ReleaseThreeBuffers, ReleaseBuffers, GoOn, baseline
<1>5. Held'
  <2>1. buffers' = {}
    BY DEF IInv, TypeOK, DeviceTypeOK, ReleaseThreeBuffers, ReleaseBuffers
  <2>2. QED
    BY <1>1, <2>1, ArgumentsKept
       DEF IInv, TypeOK, Held, InOperands, ReleaseThreeBuffers, ReleaseBuffers, GoOn, baseline
<1>6. Progress'
  BY <1>1, ArgumentsKept
     DEF IInv, TypeOK, ReadSoFar, Progress, InOperands, InBaseline,
         ReleaseThreeBuffers, ReleaseBuffers, GoOn, baseline
<1>7. ExitCodes'
  BY <1>1, ArgumentsKept, Understood
     DEF IInv, Progress, ExitCodes, InOperands, InBaseline,
         ReleaseThreeBuffers, ReleaseBuffers, GoOn, baseline
<1>8. TimesWholeRuns' /\ VerdictIsRight'
  BY <1>1, ArgumentsKept, Understood
     DEF IInv, Progress, TimesWholeRuns, VerdictIsRight, Comparable,
         ReleaseThreeBuffers, ReleaseBuffers, GoOn, baseline
<1>9. QED
  BY <1>2, <1>3, <1>4, <1>5, <1>6, <1>7, <1>8 DEF IInv

LEMMA ClosePreserves ==
  ASSUME IInv, Close
  PROVE  IInv'
<1>1. UNCHANGED arguments
  BY DEF Close, ReleaseDevice, Return, baseline
<1>2. TypeOK'
  BY ZenonT(40), <1>1, ArgumentsKept
     DEF IInv, TypeOK, Stages, DeviceTypeOK,
         Close, ReleaseDevice, Return, baseline
<1>3. ReadSoFar'
  BY <1>1, ArgumentsKept
     DEF IInv, ReadSoFar,
         Close, ReleaseDevice, Return, baseline
<1>4. UsedWhileOpen' /\ OneDeviceAtATime' /\ DriverStaysLoaded' /\ NothingLeaks'
  BY <1>1, ArgumentsKept
     DEF IInv, TypeOK, UsedWhileOpen, BuffersHaveADevice, OneDeviceAtATime, DriverStaysLoaded, InBaseline, NothingLeaks, Held, InOperands, DeviceOf,
         Close, ReleaseDevice, Return, baseline
<1>5. Held'
  BY <1>1, ArgumentsKept
     DEF IInv, TypeOK, Held, InOperands, DeviceOf,
         Close, ReleaseDevice, Return, baseline
<1>6. Progress'
  BY <1>1, ArgumentsKept
     DEF IInv, TypeOK, ReadSoFar, Progress, InOperands, InBaseline,
         Close, ReleaseDevice, Return, baseline
<1>7. ExitCodes'
  BY <1>1, ArgumentsKept, Understood
     DEF IInv, Progress, ExitCodes, InOperands, InBaseline,
         Close, ReleaseDevice, Return, baseline
<1>8. TimesWholeRuns' /\ VerdictIsRight'
  BY <1>1, ArgumentsKept, Understood
     DEF IInv, Progress, TimesWholeRuns, VerdictIsRight, Comparable,
         Close, ReleaseDevice, Return, baseline
<1>9. QED
  BY <1>2, <1>3, <1>4, <1>5, <1>6, <1>7, <1>8 DEF IInv

LEMMA ParsePreserves ==
  ASSUME IInv, Parse
  PROVE  IInv'
<1>1. /\ stage = "parse" /\ i \in 1 .. Len(argv) /\ argv' = argv
      /\ argv \in Seq(ArgumentType) /\ Len(argv) \in Nat
      /\ UNCHANGED <<captured, timed, verdict, library2, handle, reported>>
      /\ UNCHANGED <<library, creating, status, device, buffers>>
  BY DEF IInv, TypeOK, Parse, baseline, deviceVars
<1>2. CASE BadArgument(argv[i]) /\ Return(2) /\ UNCHANGED <<i, options>>
  <2>1. UNCHANGED arguments /\ stage' = "exited" /\ exit' = 2 /\ mapped' = FALSE /\ result' = FALSE
    BY <1>1, <1>2 DEF Return, arguments
  <2>2. Malformed'
    BY <1>1, <1>2, <2>1, ArgumentsKept DEF Malformed
  <2>3. TypeOK' /\ ReadSoFar'
    BY ZenonT(40), <1>1, <2>1, ArgumentsKept DEF IInv, TypeOK, Stages, DeviceTypeOK, ReadSoFar
  <2>4. UsedWhileOpen' /\ OneDeviceAtATime' /\ DriverStaysLoaded' /\ NothingLeaks' /\ Held'
    BY <1>1, <2>1, ArgumentsKept
       DEF IInv, UsedWhileOpen, BuffersHaveADevice, OneDeviceAtATime, DriverStaysLoaded, InBaseline, NothingLeaks, Held, InOperands
  <2>5. Progress' /\ ExitCodes' /\ TimesWholeRuns' /\ VerdictIsRight'
    BY <1>1, <2>1, <2>2, ArgumentsKept
       DEF IInv, Held, Progress, InOperands, InBaseline, ExitCodes, TimesWholeRuns, VerdictIsRight, Comparable
  <2>6. QED
    BY <2>3, <2>4, <2>5 DEF IInv
<1>3. CASE /\ ~BadArgument(argv[i])
           /\ options' = Read(argv[i]) /\ i' = i + 1
           /\ GoOn("parse")
  <2>1. /\ i' - 1 = i /\ i' \in 1 .. Len(argv) + 1
        /\ stage' = "parse" /\ exit' = exit /\ mapped' = mapped /\ result' = result
    BY <1>1, <1>3 DEF GoOn
  <2>2. options' = Reading(i)
    BY <1>1, <1>3, ReadingOneMore DEF IInv, ReadSoFar
  <2>3. Reading(i - 1)' = Reading(i)
    BY <1>1, <2>1 DEF Reading, Given, LastGiven
  <2>4. /\ options'.path \in Modules \cup {None} /\ options'.kind \in {"cpu", "cuda"}
        /\ options'.iterations \in Nat \ {0} /\ options'.baseline \in BOOLEAN /\ options'.verify \in BOOLEAN
    BY <1>1, <1>3, ReadingTypes DEF IInv
  <2>5. ReadSoFar'
    <3>1. \A a \in 1 .. i - 1 : ~BadArgument(argv[a])
      BY DEF IInv, ReadSoFar
    <3>2. \A a \in 1 .. i : ~BadArgument(argv[a])
      BY <1>1, <1>3, <3>1
    <3>3. (\A a \in 1 .. i - 1 : ~BadArgument(argv[a]))'
      BY <1>1, <2>1, <3>2 DEF BadArgument
    <3>4. QED
      BY <2>1, <2>2, <2>3, <3>3 DEF ReadSoFar
  <2>6. timed = 0
    BY <1>1 DEF IInv, Progress
  <2>7. TypeOK'
    <3>1. timed' \in 0 .. options'.iterations
      BY <1>1, <2>4, <2>6
    <3>2. QED
      BY <1>1, <2>1, <2>4, <3>1 DEF IInv, TypeOK, DeviceTypeOK
  <2>8. UsedWhileOpen' /\ OneDeviceAtATime' /\ DriverStaysLoaded' /\ NothingLeaks' /\ Held'
    BY <1>1, <2>1
       DEF IInv, UsedWhileOpen, BuffersHaveADevice, OneDeviceAtATime, DriverStaysLoaded, InBaseline, NothingLeaks, Held, InOperands
  <2>9. Progress' /\ ExitCodes' /\ TimesWholeRuns' /\ VerdictIsRight'
    BY <1>1, <2>1
       DEF IInv, Progress, InOperands, InBaseline, ExitCodes, TimesWholeRuns, VerdictIsRight, Comparable
  <2>10. QED
    BY <2>5, <2>7, <2>8, <2>9 DEF IInv
<1>4. QED
  BY <1>2, <1>3 DEF Parse

LEMMA StepCreatePreserves ==
  ASSUME IInv, StepCreate
  PROVE  IInv'
<1>1. /\ UNCHANGED arguments
      /\ UNCHANGED <<stage, mapped, result, captured, timed, verdict, library2, handle, reported, exit>>
      /\ creating # "idle" /\ Creating
      /\ \/ stage = "capture" /\ (creating = "cpu" <=> options.kind = "cpu")
         \/ stage = "allocate" /\ creating # "cpu"
  BY DEF StepCreate, answer, baseline, arguments, Creating, CreateCpu, LoadLibrary, Initialise,
         AllocateObjects, OpenContext, IInv, Held
<1>2. /\ library' \in {"unopened", "open", "failed"} /\ buffers' = buffers
      /\ creating' \in {"idle", "init", "objects", "open"}
      /\ creating' \notin {"idle", "open"} => device' = {}
      /\ creating' # "idle" => creating # "cpu"
      /\ creating' = "open" => device' = {"device", "impl"}
      /\ creating' = "idle" => device' \in {{}, IF creating = "cpu" THEN CpuDevice ELSE CudaDevice}
      /\ library = "open" => library' = "open"
      /\ creating' # "idle" => library' = "open"
      /\ creating' = "idle" /\ creating # "cpu" /\ device' # {} => library' = "open"
  <2>1. CASE CreateCpu
    BY <1>1, <2>1 DEF CreateCpu, Created, Refused, IInv, TypeOK, DeviceTypeOK, Held
  <2>2. CASE LoadLibrary
    BY <1>1, <2>2 DEF LoadLibrary, Refused, IInv, TypeOK, DeviceTypeOK, Held
  <2>3. CASE Initialise
    BY <1>1, <2>3 DEF Initialise, Refused, IInv, TypeOK, DeviceTypeOK, Held
  <2>4. CASE AllocateObjects
    BY <1>1, <2>4 DEF AllocateObjects, Refused, IInv, TypeOK, DeviceTypeOK, Held
  <2>5. CASE OpenContext
    BY <1>1, <2>5 DEF OpenContext, Created, Refused, IInv, TypeOK, DeviceTypeOK, Held
  <2>6. QED
    BY <1>1, <2>1, <2>2, <2>3, <2>4, <2>5 DEF Creating
<1>3. buffers = {} /\ ~handle
  BY <1>1 DEF IInv, Held, InOperands
<1>4. TypeOK' /\ ReadSoFar'
  <2>1. device' \subseteq CudaDevice
    BY <1>2 DEF CpuDevice, CudaDevice
  <2>2. QED
    BY <1>1, <1>2, <2>1, ArgumentsKept DEF IInv, TypeOK, DeviceTypeOK, ReadSoFar
<1>5. UsedWhileOpen' /\ OneDeviceAtATime' /\ DriverStaysLoaded' /\ NothingLeaks'
  BY <1>1, <1>2, <1>3 DEF UsedWhileOpen, BuffersHaveADevice, OneDeviceAtATime, NothingLeaks,
                           IInv, DriverStaysLoaded
<1>6. Held'
  BY <1>1, <1>2, ArgumentsKept DEF IInv, Held, InOperands, DeviceOf
<1>7. Progress' /\ ExitCodes'
  BY <1>1, ArgumentsKept DEF IInv, Progress, ExitCodes
<1>8. TimesWholeRuns' /\ VerdictIsRight'
  BY <1>1, ArgumentsKept DEF IInv, TimesWholeRuns, VerdictIsRight, Comparable
<1>9. QED
  BY <1>4, <1>5, <1>6, <1>7, <1>8 DEF IInv

LEMMA OperandsPreserves ==
  ASSUME IInv, Operands
  PROVE  IInv'
BY AllocateOperandPreserves, WriteOperandPreserves DEF Operands

LEMMA StutterPreserves ==
  ASSUME IInv, UNCHANGED vars
  PROVE  IInv'
<1>1. /\ UNCHANGED arguments
      /\ UNCHANGED <<stage, mapped, result, captured, timed, verdict, library2, handle, reported, exit>>
      /\ UNCHANGED <<library, creating, status, device, buffers>>
  BY DEF vars, arguments, answer, baseline, deviceVars
<1>2. TypeOK' /\ ReadSoFar' /\ Held' /\ Progress'
  BY <1>1, ArgumentsKept DEF IInv, TypeOK, DeviceTypeOK, ReadSoFar, Held, Progress
<1>3. UsedWhileOpen' /\ OneDeviceAtATime' /\ DriverStaysLoaded' /\ NothingLeaks' /\ ExitCodes'
  BY <1>1, ArgumentsKept
     DEF IInv, UsedWhileOpen, BuffersHaveADevice, OneDeviceAtATime, DriverStaysLoaded, InBaseline, NothingLeaks, ExitCodes
<1>4. TimesWholeRuns' /\ VerdictIsRight'
  BY <1>1, ArgumentsKept DEF IInv, TimesWholeRuns, VerdictIsRight, Comparable
<1>5. QED
  BY <1>2, <1>3, <1>4 DEF IInv

-----------------------------------------------------------------------------
(* The invariant holds in every reachable state: each way through main keeps what
   it holds, what it has read and what it has reported. *)
THEOREM Invariance == Spec => []IInv
<1>1. Init => IInv
  BY InitInvariant
<1>2. IInv /\ [Next]_vars => IInv'
  BY ParsePreserves, ParsedPreserves, LoadModulePreserves, InspectPreserves, CreateToRunPreserves,
     StepCreatePreserves, DeviceRefusedPreserves, CapturePreserves, TimeRunPreserves, TimedPreserves,
     VerifyPreserves, BaselinePreserves, CreateForBaselinePreserves, OperandsPreserves,
     OpenHandlePreserves, DgemmPreserves, DestroyHandlePreserves, ReleaseThreeBuffersPreserves,
     ClosePreserves, StutterPreserves DEF Next
<1>3. QED
  BY <1>1, <1>2, PTL DEF Spec

(* Whatever fails, and whatever failure main does not look at, the module, the
   result, the buffers, the handle and both devices are given back. *)
THEOREM Cleanliness == Spec => []NothingLeaks
<1>1. IInv => NothingLeaks
  BY DEF IInv
<1>2. QED
  BY <1>1, Invariance, PTL

(* No line, however long, makes a time come out for anything but what its last
   arguments ask for. *)
THEOREM Measured == Spec => []TimesWholeRuns
<1>1. IInv => TimesWholeRuns
  BY DEF IInv
<1>2. QED
  BY <1>1, Invariance, PTL

(* verify_sampled, for every shape of up to 512 rows: a stride that is no longer
   than a row cannot step over the last one. *)
THEOREM SampledVerdict == Spec => []VerdictIsRight
<1>1. IInv => VerdictIsRight
  BY DEF IInv
<1>2. QED
  BY <1>1, Invariance, PTL
=============================================================================
