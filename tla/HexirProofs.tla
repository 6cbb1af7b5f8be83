---------------------------- MODULE HexirProofs ----------------------------
(***************************************************************************)
(* Proofs about hexir, for every command line and input: what main does    *)
(* around the passes, what each pass makes of the ops, and, from both,     *)
(* that no pass changes what the program computes or where, and what the   *)
(* exit status says.                                                       *)
(***************************************************************************)
EXTENDS Hexir, ListLemmas, FiniteSetTheorems, FunctionTheorems, TLAPS

-----------------------------------------------------------------------------
(* The command line.                                                         *)

(* What a command line is made of. *)
LEMMA LineType ==
  ASSUME job \in JobType
  PROVE  /\ Options.targets \in Seq(TargetType)
         /\ Options.placements \in Seq(PlacementType)
  BY DEF JobType, Options, OptionsType

(* One more -target entry: its architecture is the one to use, if it has one. *)
LEMMA ChipOfNext ==
  ASSUME NEW n \in Nat
  PROVE  ChipAfter(n + 1) = IF Options.targets[n + 1].arch = "" THEN ChipAfter(n)
                            ELSE Options.targets[n + 1].arch
<1> DEFINE Given_(k) == {i \in 1 .. k : Options.targets[i].arch # ""}
<1>0. 1 .. n + 1 = (1 .. n) \cup {n + 1}
  OBVIOUS
<1>1. CASE Options.targets[n + 1].arch = ""
  <2>1. Given_(n + 1) = Given_(n)
    BY <1>0, <1>1, Zenon
  <2>2. QED
    BY <1>1, <2>1 DEF ChipAfter
<1>2. CASE Options.targets[n + 1].arch # ""
  <2>1. Given_(n + 1) = Given_(n) \cup {n + 1} /\ Given_(n) \in SUBSET (1 .. n)
    BY <1>0, <1>2, Zenon
  <2>2. Max(Given_(n + 1)) = n + 1 /\ Given_(n + 1) # {}
    BY <2>1, MaxOfNext
  <2>3. QED
    BY <1>2, <2>2 DEF ChipAfter
<1>3. QED
  BY <1>1, <1>2

(* One more -placement entry: it is the last word on its op, and no other's. *)
LEMMA PreferredOfNext ==
  ASSUME NEW n \in Nat, NEW op
  PROVE  PreferredAfter(op, n + 1) =
           IF Options.placements[n + 1].op = op THEN Alias(Options.placements[n + 1].device)
           ELSE PreferredAfter(op, n)
<1> DEFINE Given_(k) == {i \in 1 .. k : Options.placements[i].op = op}
<1>0. 1 .. n + 1 = (1 .. n) \cup {n + 1}
  OBVIOUS
<1>1. CASE Options.placements[n + 1].op # op
  <2>1. Given_(n + 1) = Given_(n)
    BY <1>0, <1>1, Zenon
  <2>2. QED
    BY <1>1, <2>1 DEF PreferredAfter
<1>2. CASE Options.placements[n + 1].op = op
  <2>1. Given_(n + 1) = Given_(n) \cup {n + 1} /\ Given_(n) \in SUBSET (1 .. n)
    BY <1>0, <1>2, Zenon
  <2>2. Max(Given_(n + 1)) = n + 1 /\ Given_(n + 1) # {}
    BY <2>1, MaxOfNext
  <2>3. QED
    BY <1>2, <2>2 DEF PreferredAfter
<1>3. QED
  BY <1>1, <1>2

(* An entry main goes past is a good one, and one it stops at is not. *)
LEMMA TargetChecked ==
  ASSUME job \in JobType, at \in DOMAIN Options.targets
  PROVE  TargetAccepted <=> Targeted(Options.targets[at])
<1>1. Options.targets[at] \in TargetType
  BY LineType
<1>2. QED
  BY <1>1 DEF TargetType, TargetAccepted, Target, Targeted, Devices

(* A -placement entry is accepted when it names an op of the registry and a device. *)
LEMMA PlacementChecked ==
  ASSUME job \in JobType, at \in DOMAIN Options.placements
  PROVE  PlacementAccepted <=> Placeable(Options.placements[at])
<1>1. Options.placements[at] \in PlacementType
  BY LineType
<1>2. QED
  BY <1>1 DEF PlacementType, PlacementAccepted, Entry, Placeable, Supports, Alias, Devices

(* At the end of the lists nothing of the command line is left to say. *)
LEMMA WholeLine ==
  ASSUME job \in JobType, job.emit # "none", LineAt(Len(Options.targets), Len(Options.placements))
  PROVE  /\ GoodLine /\ chip = Chip(Options)
         /\ \A v \in Compute(Graph) :
              OpAt(Graph, v).device = "none" =>
                preferred[OpAt(Graph, v).op] = Placement(Options, OpAt(Graph, v))
<1>1. /\ DOMAIN Options.targets = 1 .. Len(Options.targets)
      /\ DOMAIN Options.placements = 1 .. Len(Options.placements)
  BY LineType
<1>2. GoodLine
  BY <1>1 DEF LineAt, GoodLine
<1>3. chip = Chip(Options)
  BY <1>1 DEF LineAt, ChipAfter, Chip
<1>4. ASSUME NEW v \in Compute(Graph), OpAt(Graph, v).device = "none"
      PROVE  preferred[OpAt(Graph, v).op] = Placement(Options, OpAt(Graph, v))
  <2> DEFINE operation == OpAt(Graph, v)
  <2>1. operation.op \in RegisteredOps
    BY DEF Compute, RegisteredOps
  <2> HIDE DEF operation
  <2>2. preferred[operation.op] = PreferredAfter(operation.op, Len(Options.placements))
    BY <2>1 DEF LineAt
  <2>3. PreferredAfter(operation.op, Len(Options.placements)) = Placement(Options, operation)
    BY <1>1, <1>4 DEF PreferredAfter, Placement, operation
  <2>4. QED
    BY <2>2, <2>3 DEF operation
<1>5. QED
  BY <1>2, <1>3, <1>4

-----------------------------------------------------------------------------
(* main, step by step.                                                       *)

(* What main has come to know stays true while it does nothing to it. *)
LEMMA LineKept ==
  ASSUME NEW t, NEW p, LineAt(t, p), UNCHANGED <<job, chip, preferred>>
  PROVE  LineAt(t, p)'
  BY DEF LineAt, ChipAfter, PreferredAfter, Options, Targeted, Placeable

(* Past the command line main goes on without it ... *)
LEMMA GoesOn ==
  ASSUME DriverInv, pc \in PastTheLine, pc' \in PastTheLine,
         UNCHANGED <<job, command, exit>>, FileFollows'
  PROVE  DriverInv'
<1>1. UNCHANGED <<job, chip, preferred, at, exit>>
  BY DEF command
<1>2. job' \in JobType /\ at' \in Nat /\ pc' \in PastTheLine /\ job.emit # "none"
  BY <1>1 DEF DriverInv, LineSoFar, PastTheLine
<1>3. LineAt(Len(Options.targets), Len(Options.placements))
  BY DEF DriverInv, LineSoFar
<1>4. LineAt(Len(Options.targets), Len(Options.placements))'
  <2>1. Options' = Options
    BY <1>1 DEF Options
  <2>2. QED
    BY <1>1, <1>3, <2>1 DEF LineAt, ChipAfter, PreferredAfter, Targeted, Placeable
<1>5. LineSoFar'
  BY <1>1, <1>2, <1>4 DEF LineSoFar, PastTheLine
<1>6. Resolved'
  <2>1. Options' = Options /\ Graph' = Graph
    BY <1>1 DEF Options, Graph
  <2>2. GoodLine'
    BY <1>1, <2>1 DEF DriverInv, Resolved, GoodLine
  <2>3. (chip = Chip(Options))'
    BY <1>1, <2>1 DEF DriverInv, Resolved
  <2>4. QED
    BY <1>1, <2>1, <2>2, <2>3 DEF DriverInv, Resolved
<1>7. QED
  BY <1>1, <1>2, <1>5, <1>6 DEF DriverInv, UsageOnly, ExitTellsTheFile, PastTheLine

(* ... or ends, and says what it has left in the file ... *)
LEMMA Ends ==
  ASSUME DriverInv, pc \in PastTheLine, UNCHANGED <<job, command>>,
         pc' = "exited", exit' \notin {"running", "usage"}, ExitTellsTheFile'
  PROVE  DriverInv'
<1>1. job' \in JobType /\ at' \in Nat /\ job' = job /\ Options' = Options
  BY DEF DriverInv, command, Options
<1>2. GoodLine'
  BY <1>1 DEF DriverInv, Resolved, GoodLine
<1>3. QED
  BY <1>1, <1>2 DEF DriverInv, LineSoFar, Resolved, UsageOnly, FileFollows, PastTheLine

(* ... where a bad entry ends it at once. *)
LEMMA EndsWithUsage ==
  ASSUME DriverInv, pc \in {"begin", "targets", "placements"}, ~GoodLine,
         UNCHANGED <<job, at, file>>, Exit("usage")
  PROVE  DriverInv'
<1>1. job' \in JobType /\ at' \in Nat /\ pc' = "exited" /\ exit' = "usage"
  BY DEF DriverInv, Exit
<1>2. ~GoodLine'
  BY DEF GoodLine, Options
<1>3. file' = "previous"
  BY DEF DriverInv, FileFollows
<1>4. QED
  BY <1>1, <1>2, <1>3
     DEF DriverInv, LineSoFar, Resolved, UsageOnly, FileFollows, ExitTellsTheFile, PastTheLine

(* While the lists are gone through there is nothing more to say of the state. *)
LEMMA GoesThrough ==
  ASSUME DriverInv, pc \in {"begin", "targets", "placements"}, pc' \in {"targets", "placements"},
         UNCHANGED <<job, exit, file>>, job.emit # "none", at' \in Nat, LineSoFar'
  PROVE  DriverInv'
  BY DEF DriverInv, Resolved, UsageOnly, FileFollows, ExitTellsTheFile, PastTheLine

(* Without -emit the command line is refused; with it the targets are next. *)
LEMMA BeginsChecked ==
  ASSUME DriverInv, CheckEmit
  PROVE  DriverInv'
<1>1. pc = "begin" /\ UNCHANGED <<job, at, chip, preferred, file>>
  BY DEF CheckEmit, command
<1>2. CASE job.emit = "none"
  BY <1>1, <1>2, EndsWithUsage DEF CheckEmit, GoodLine
<1>3. CASE job.emit # "none"
  <2>1. pc' = "targets" /\ UNCHANGED exit
    BY <1>3 DEF CheckEmit, Goto
  <2>2. at = 1 /\ LineAt(0, 0)
    BY <1>1 DEF DriverInv, LineSoFar
  <2>3. LineAt(0, 0)'
    BY <1>1, <2>2 DEF LineAt, ChipAfter, PreferredAfter, Options, Targeted, Placeable
  <2>4. QED
    BY <1>1, <1>3, <2>1, <2>2, <2>3, GoesThrough DEF DriverInv, LineSoFar, PastTheLine
<1>4. QED
  BY <1>2, <1>3

(* One more -target entry, or the last of them. *)
LEMMA TargetsGoneThrough ==
  ASSUME DriverInv, ApplyTarget \/ TargetsApplied
  PROVE  DriverInv'
<1>1. /\ pc = "targets" /\ UNCHANGED <<job, preferred, file>> /\ job.emit # "none" /\ job \in JobType
      /\ \E n \in 0 .. Len(Options.targets) : at = n + 1 /\ LineAt(n, 0)
  BY DEF ApplyTarget, TargetsApplied, DriverInv, LineSoFar
<1>2. /\ DOMAIN Options.targets = 1 .. Len(Options.targets) /\ Len(Options.targets) \in Nat
      /\ Len(Options.placements) \in Nat
  BY <1>1, LineType
<1>3. PICK n \in 0 .. Len(Options.targets) : at = n + 1 /\ LineAt(n, 0)
  BY <1>1
<1>4. n \in Nat /\ Options' = Options
  BY <1>1, <1>2, <1>3 DEF Options
<1>5. CASE ApplyTarget
  <2>1. n + 1 \in 1 .. Len(Options.targets) /\ at \in DOMAIN Options.targets
    BY <1>2, <1>3, <1>5 DEF ApplyTarget
  <2>2. CASE ~TargetAccepted
    <3>1. ~GoodLine
      BY <1>1, <2>1, <2>2, TargetChecked DEF GoodLine
    <3>2. QED
      BY <1>1, <1>5, <2>2, <3>1, EndsWithUsage DEF ApplyTarget
  <2>3. CASE TargetAccepted
    <3>1. /\ at' = at + 1 /\ UNCHANGED <<pc, exit>>
          /\ chip' = IF Options.targets[n + 1].arch = "" THEN chip ELSE Options.targets[n + 1].arch
      <4>1. /\ at' = at + 1 /\ pc' = pc /\ exit' = exit
            /\ chip' = IF Target.arch = "" THEN chip ELSE Target.arch
        BY <1>5, <2>3, Zenon DEF ApplyTarget
      <4>2. QED
        BY <1>3, <4>1 DEF Target
    <3>0. at' = (n + 1) + 1 /\ at' \in Nat
      <4>1. at = n + 1 /\ n \in Nat
        BY <1>3, <1>4
      <4>2. at' = at + 1
        BY <3>1
      <4>3. QED
        BY <4>1, <4>2
    <3>2. Targeted(Options.targets[n + 1])
      BY <1>1, <1>3, <2>1, <2>3, TargetChecked
    <3>3. chip' = ChipAfter(n + 1)
      BY <1>3, <1>4, <3>1, ChipOfNext DEF LineAt
    <3>4. \A i \in 1 .. n + 1 : Targeted(Options.targets[i])
      <4>1. \A i \in 1 .. n + 1 : i = n + 1 \/ i \in 1 .. n
        BY <1>4
      <4>2. QED
        BY <1>3, <3>2, <4>1 DEF LineAt
    <3>5. LineAt(n + 1, 0)'
      <4>1. n + 1 \in 0 .. Len(Options.targets) /\ 0 \in 0 .. Len(Options.placements)
        BY <1>2, <1>4, <2>1
      <4>2. chip' = ChipAfter(n + 1)'
        BY <1>4, <3>3 DEF ChipAfter
      <4>3. preferred' = [op \in RegisteredOps |-> PreferredAfter(op, 0)]'
        BY <1>1, <1>3, <1>4 DEF LineAt, PreferredAfter
      <4>4. (\A i \in 1 .. n + 1 : Targeted(Options.targets[i]))'
        BY <1>4, <3>4
      <4>5. (\A i \in 1 .. 0 : Placeable(Options.placements[i]))'
        OBVIOUS
      <4>6. QED
        BY <1>4, <4>1, <4>2, <4>3, <4>4, <4>5 DEF LineAt
    <3>6. LineSoFar'
      <4>1. n + 1 \in 0 .. Len(Options.targets) /\ at' = (n + 1) + 1
        BY <1>2, <1>4, <2>1, <3>0
      <4>2. QED
        BY <1>1, <1>4, <3>1, <3>5, <4>1 DEF LineSoFar, PastTheLine
    <3>7. QED
      <4>1. at' \in Nat /\ pc' = "targets"
        BY <1>1, <3>0, <3>1
      <4>2. QED
        BY <1>1, <3>1, <3>6, <4>1, GoesThrough
  <2>4. QED
    BY <2>2, <2>3
<1>6. CASE TargetsApplied
  <2>1. pc' = "placements" /\ at' = 1 /\ UNCHANGED <<exit, chip>>
    BY <1>6 DEF TargetsApplied, Goto
  <2>2. n = Len(Options.targets)
    BY <1>2, <1>3, <1>6 DEF TargetsApplied
  <2>3. LineAt(Len(Options.targets), 0)'
    BY <1>1, <1>3, <1>4, <2>1, <2>2 DEF LineAt, ChipAfter, PreferredAfter
  <2>4. LineSoFar'
    BY <1>1, <1>2, <1>4, <2>1, <2>3 DEF LineSoFar, PastTheLine
  <2>5. QED
    BY <1>1, <2>1, <2>4, GoesThrough
<1>7. QED
  BY <1>5, <1>6

(* One more -placement entry, or the last of them. *)
LEMMA PlacementsGoneThrough ==
  ASSUME DriverInv, ApplyPlacement \/ PlacementsApplied
  PROVE  DriverInv'
<1>1. /\ pc = "placements" /\ UNCHANGED <<job, chip, file>> /\ job.emit # "none" /\ job \in JobType
      /\ \E n \in 0 .. Len(Options.placements) : at = n + 1 /\ LineAt(Len(Options.targets), n)
  BY DEF ApplyPlacement, PlacementsApplied, DriverInv, LineSoFar
<1>2. /\ DOMAIN Options.placements = 1 .. Len(Options.placements) /\ Len(Options.placements) \in Nat
      /\ Len(Options.targets) \in Nat
  BY <1>1, LineType
<1>3. PICK n \in 0 .. Len(Options.placements) : at = n + 1 /\ LineAt(Len(Options.targets), n)
  BY <1>1
<1>4. n \in Nat /\ Options' = Options
  BY <1>1, <1>2, <1>3 DEF Options
<1>5. CASE ApplyPlacement
  <2>1. n + 1 \in 1 .. Len(Options.placements) /\ at \in DOMAIN Options.placements
    BY <1>2, <1>3, <1>5 DEF ApplyPlacement
  <2>2. CASE ~PlacementAccepted
    <3>1. ~GoodLine
      BY <1>1, <2>1, <2>2, PlacementChecked DEF GoodLine
    <3>2. QED
      BY <1>1, <1>5, <2>2, <3>1, EndsWithUsage DEF ApplyPlacement
  <2>3. CASE PlacementAccepted
    <3>1. /\ at' = at + 1 /\ UNCHANGED <<pc, exit>>
          /\ SetPreferred(Options.placements[n + 1].op, Options.placements[n + 1].device)
      <4>1. /\ at' = at + 1 /\ pc' = pc /\ exit' = exit
            /\ SetPreferred(Entry.op, Entry.device)
        BY <1>5, <2>3, Zenon DEF ApplyPlacement
      <4>2. QED
        BY <1>3, <4>1 DEF Entry
    <3>0. at' = (n + 1) + 1 /\ at' \in Nat
      <4>1. at = n + 1 /\ n \in Nat
        BY <1>3, <1>4
      <4>2. at' = at + 1
        BY <3>1
      <4>3. QED
        BY <4>1, <4>2
    <3>2. Placeable(Options.placements[n + 1])
      BY <1>1, <1>3, <2>1, <2>3, PlacementChecked
    <3>3. preferred' = [op \in RegisteredOps |-> PreferredAfter(op, n + 1)]
      <4>1. preferred = [op \in RegisteredOps |-> PreferredAfter(op, n)]
        BY <1>3 DEF LineAt
      <4>2. \A op \in RegisteredOps :
              PreferredAfter(op, n + 1) =
                IF Options.placements[n + 1].op = op THEN Alias(Options.placements[n + 1].device)
                ELSE PreferredAfter(op, n)
        BY <1>4, PreferredOfNext
      <4>3. QED
        BY <3>1, <4>1, <4>2 DEF SetPreferred
    <3>4. \A i \in 1 .. n + 1 : Placeable(Options.placements[i])
      <4>1. \A i \in 1 .. n + 1 : i = n + 1 \/ i \in 1 .. n
        BY <1>4
      <4>2. QED
        BY <1>3, <3>2, <4>1 DEF LineAt
    <3>5. LineAt(Len(Options.targets), n + 1)'
      <4>1. n + 1 \in 0 .. Len(Options.placements) /\ Len(Options.targets) \in 0 .. Len(Options.targets)
        BY <1>2, <1>4, <2>1
      <4>2. (chip = ChipAfter(Len(Options.targets)))'
        BY <1>1, <1>3, <1>4 DEF LineAt, ChipAfter
      <4>3. preferred' = [op \in RegisteredOps |-> PreferredAfter(op, n + 1)]'
        BY <1>4, <3>3 DEF PreferredAfter
      <4>4. (\A i \in 1 .. n + 1 : Placeable(Options.placements[i]))'
        BY <1>4, <3>4
      <4>5. (\A i \in 1 .. Len(Options.targets) : Targeted(Options.targets[i]))'
        BY <1>3, <1>4 DEF LineAt
      <4>6. QED
        BY <1>4, <4>1, <4>2, <4>3, <4>4, <4>5 DEF LineAt
    <3>6. LineSoFar'
      <4>1. n + 1 \in 0 .. Len(Options.placements) /\ at' = (n + 1) + 1
        BY <1>2, <1>4, <2>1, <3>0
      <4>2. QED
        BY <1>1, <1>4, <3>1, <3>5, <4>1 DEF LineSoFar, PastTheLine
    <3>7. QED
      BY <1>1, <3>0, <3>1, <3>6, GoesThrough
  <2>4. QED
    BY <2>2, <2>3
<1>6. CASE PlacementsApplied
  <2>1. pc' = "load" /\ at' = 1 /\ UNCHANGED <<exit, preferred>>
    BY <1>6 DEF PlacementsApplied, Goto
  <2>2. n = Len(Options.placements)
    BY <1>2, <1>3, <1>6 DEF PlacementsApplied
  <2>3. LineAt(Len(Options.targets), Len(Options.placements))
    BY <1>3, <2>2
  <2>4. LineAt(Len(Options.targets), Len(Options.placements))'
    BY ZenonT(40), <1>1, <1>4, <2>1, <2>3 DEF LineAt, ChipAfter, PreferredAfter, Targeted, Placeable
  <2>5. LineSoFar'
    BY <1>1, <2>1, <2>4 DEF LineSoFar, PastTheLine
  <2>6. Resolved'
    <3>1. Graph' = Graph
      BY <1>1 DEF Graph
    <3>2. GoodLine'
      BY <1>1, <1>4, <2>3, WholeLine DEF GoodLine
    <3>3. QED
      BY <1>1, <1>4, <2>1, <2>3, <3>1, <3>2, WholeLine DEF Resolved
  <2>7. QED
    BY <1>1, <2>1, <2>5, <2>6 DEF DriverInv, UsageOnly, FileFollows, ExitTellsTheFile, PastTheLine
<1>7. QED
  BY <1>5, <1>6

-----------------------------------------------------------------------------
(* The input and the passes.                                                 *)

(* A pass changes the module, and may end the process with its failure. *)
Passing ==
  /\ pc = "passes" /\ UNCHANGED <<job, command, file>>
  /\ \/ UNCHANGED <<pc, exit>>
     \/ pc' = "exited" /\ exit' \in {"pass_failed", "undefined"}

(* A pass goes on, or ends the process. *)
LEMMA PassesPass ==
  ASSUME ShapeInference \/ Partition \/ LowerOne \/ LoweringDone \/ LinalgNext
  PROVE  Passing
<1>1. CASE ShapeInference
  BY <1>1 DEF ShapeInference, Running, Becomes, Fail, Exit, Passing
<1>2. CASE Partition
  BY <1>2 DEF Partition, Running, Becomes, Passing
<1>3. CASE LowerOne
  BY <1>3 DEF LowerOne, Running, Fail, Exit, Passing
<1>4. CASE LoweringDone
  BY <1>4 DEF LoweringDone, Running, Becomes, Fail, Exit, Passing
<1>5. CASE ToLinalg \/ Bufferize
  BY <1>5 DEF ToLinalg, Bufferize, Running, Becomes, Fail, Exit, Passing
<1>6. CASE CudaToGpu \/ ToLoops
  BY <1>6 DEF CudaToGpu, ToLoops, Running, Becomes, Fail, Exit, Passing
<1>7. CASE Outline \/ ToLLVM \/ ToBinary
  BY <1>7 DEF Outline, ToLLVM, ToBinary, Running, Becomes, Fail, Exit, Passing
<1>8. QED
  BY <1>1, <1>2, <1>3, <1>4, <1>5, <1>6, <1>7 DEF LinalgNext

(* Whatever a pass does to the module, what main knows stays true. *)
LEMMA PassingKeeps ==
  ASSUME DriverInv, Passing
  PROVE  DriverInv'
<1>1. pc \in PastTheLine /\ file = "previous" /\ exit = "running"
  BY DEF Passing, PastTheLine, DriverInv, FileFollows
<1>2. CASE UNCHANGED <<pc, exit>>
  BY <1>1, <1>2, GoesOn DEF Passing, DriverInv, FileFollows
<1>3. CASE pc' = "exited" /\ exit' \in {"pass_failed", "undefined"}
  BY <1>1, <1>3, Ends DEF Passing, ExitTellsTheFile
<1>4. QED
  BY <1>2, <1>3 DEF Passing

(* The input is loaded, or the process ends. *)
LEMMA LoadKeeps ==
  ASSUME DriverInv, Load
  PROVE  DriverInv'
<1>1. /\ pc \in PastTheLine /\ file = "previous" /\ exit = "running" /\ pc = "load"
      /\ UNCHANGED <<job, command, file>>
  BY DEF Load, PastTheLine, DriverInv, FileFollows
<1>2. CASE Exit("load_failed")
  BY <1>1, <1>2, Ends DEF Exit, ExitTellsTheFile
<1>3. CASE Goto("passes")
  BY <1>1, <1>3, GoesOn DEF Goto, PastTheLine, DriverInv, FileFollows
<1>4. QED
  BY <1>2, <1>3 DEF Load

(* After the last pass the output is next. *)
LEMMA PassesDoneKeeps ==
  ASSUME DriverInv, PassesDone
  PROVE  DriverInv'
<1>1. /\ pc \in PastTheLine /\ file = "previous" /\ exit = "running"
      /\ UNCHANGED <<job, command, file, exit>>
      /\ pc' = IF job.emit = "hxb" THEN "open" ELSE "emit"
  BY DEF PassesDone, PastTheLine, DriverInv, FileFollows, Goto
<1>2. QED
  BY <1>1, GoesOn DEF PastTheLine, DriverInv, FileFollows

-----------------------------------------------------------------------------
(* The output.                                                               *)

(* The output is written, and the exit status tells of the file. *)
LEMMA OutputKeeps ==
  ASSUME DriverInv, Open \/ Serialize \/ Emit
  PROVE  DriverInv'
<1>1. CASE Open
  <2>1. /\ pc \in PastTheLine /\ file = "previous" /\ exit = "running" /\ job.emit = "hxb"
        /\ UNCHANGED <<job, command>>
    BY <1>1 DEF Open, PastTheLine, DriverInv, FileFollows
  <2>2. CASE Exit("failed") /\ UNCHANGED file
    BY <2>1, <2>2, Ends DEF Exit, ExitTellsTheFile
  <2>3. CASE Goto("serialize") /\ file' = "empty"
    BY <2>1, <2>3, GoesOn DEF Goto, PastTheLine, FileFollows
  <2>4. QED
    BY <1>1, <2>2, <2>3 DEF Open
<1>2. CASE Serialize
  <2>1. /\ pc \in PastTheLine /\ file = "empty" /\ job.emit = "hxb" /\ UNCHANGED <<job, command>>
    BY <1>2 DEF Serialize, PastTheLine, DriverInv, FileFollows
  <2>2. \/ Exit("failed") /\ UNCHANGED file
        \/ Exit("ok") /\ file' = "module"
        \/ Exit("aborted") /\ file' = "partial"
    BY <1>2 DEF Serialize
  <2>3. QED
    BY <2>1, <2>2, Ends DEF Exit, ExitTellsTheFile
<1>3. CASE Emit
  <2>1. /\ pc \in PastTheLine /\ file = "previous" /\ job.emit # "hxb"
        /\ UNCHANGED <<job, command, file>>
    BY <1>3 DEF Emit, PastTheLine, DriverInv, FileFollows
  <2>2. Exit("ok") \/ Exit("translation_failed")
    BY <1>3 DEF Emit
  <2>3. QED
    BY <2>1, <2>2, Ends DEF Exit, ExitTellsTheFile
<1>4. QED
  BY <1>1, <1>2, <1>3

-----------------------------------------------------------------------------
(* The whole run.                                                            *)

(* It holds at the start. *)
LEMMA StartsKnowingNothing ==
  ASSUME Init
  PROVE  DriverInv
<1>1. /\ pc = "begin" /\ at = 1 /\ chip = Options.gpuChip /\ exit = "running" /\ file = "previous"
      /\ preferred = [op \in RegisteredOps |-> "cpu"] /\ job \in JobType
  BY JobsAssumption DEF Init
<1>2. ChipAfter(0) = Options.gpuChip /\ \A op : PreferredAfter(op, 0) = "cpu"
  BY DEF ChipAfter, PreferredAfter
<1>3. LineAt(0, 0)
  BY <1>1, <1>2, LineType DEF LineAt
<1>4. QED
  BY <1>1, <1>3
     DEF DriverInv, LineSoFar, Resolved, UsageOnly, FileFollows, ExitTellsTheFile, PastTheLine

(* Every step keeps it. *)
LEMMA StepKeeps ==
  ASSUME DriverInv, [Next]_vars
  PROVE  DriverInv'
<1>1. CASE DriverNext
  <2>1. CASE CheckEmit
    BY <2>1, BeginsChecked
  <2>2. CASE ApplyTarget \/ TargetsApplied
    BY <2>2, TargetsGoneThrough
  <2>3. CASE ApplyPlacement \/ PlacementsApplied
    BY <2>3, PlacementsGoneThrough
  <2>4. CASE Load
    BY <2>4, LoadKeeps
  <2>5. CASE PassesDone
    BY <2>5, PassesDoneKeeps
  <2>6. CASE ShapeInference \/ Partition
    BY <2>6, PassesPass, PassingKeeps
  <2>7. CASE Emit
    BY <2>7, OutputKeeps
  <2>8. QED
    BY <1>1, <2>1, <2>2, <2>3, <2>4, <2>5, <2>6, <2>7 DEF DriverNext
<1>2. CASE KernelNext
  BY <1>2, PassesPass, PassingKeeps, OutputKeeps DEF KernelNext
<1>3. CASE LinalgNext
  BY <1>3, PassesPass, PassingKeeps
<1>4. CASE UNCHANGED vars
  <2>1. UNCHANGED <<job, pc, at, chip, preferred, exit, file>> /\ Options' = Options /\ Graph' = Graph
    BY <1>4 DEF vars, command, Options, Graph
  <2>2. LineSoFar'
    <3>1. CASE pc = "begin"
      <4>1. LineAt(0, 0)'
        BY <2>1, <3>1, LineKept DEF DriverInv, LineSoFar
      <4>2. QED
        BY <2>1, <3>1, <4>1 DEF DriverInv, LineSoFar, PastTheLine
    <3>2. CASE pc = "targets"
      <4>1. PICK n \in 0 .. Len(Options.targets) : at = n + 1 /\ LineAt(n, 0)
        BY <3>2 DEF DriverInv, LineSoFar
      <4>2. LineAt(n, 0)'
        BY <2>1, <4>1, LineKept
      <4>3. QED
        BY <2>1, <3>2, <4>1, <4>2 DEF DriverInv, LineSoFar, PastTheLine
    <3>3. CASE pc = "placements"
      <4>1. PICK n \in 0 .. Len(Options.placements) : at = n + 1 /\ LineAt(Len(Options.targets), n)
        BY <3>3 DEF DriverInv, LineSoFar
      <4>2. LineAt(Len(Options.targets), n)'
        BY <2>1, <4>1 DEF LineAt, ChipAfter, PreferredAfter, Targeted, Placeable
      <4>3. QED
        BY <2>1, <3>3, <4>1, <4>2 DEF DriverInv, LineSoFar, PastTheLine
    <3>4. CASE pc \in PastTheLine
      <4>1. LineAt(Len(Options.targets), Len(Options.placements))
        BY <3>4 DEF DriverInv, LineSoFar
      <4>2. LineAt(Len(Options.targets), Len(Options.placements))'
        BY <2>1, <4>1 DEF LineAt, ChipAfter, PreferredAfter, Targeted, Placeable
      <4>3. QED
        BY <2>1, <3>4, <4>2 DEF DriverInv, LineSoFar, PastTheLine
    <3>5. CASE pc = "exited"
      BY <2>1, <3>5 DEF LineSoFar, PastTheLine
    <3>6. QED
      BY <3>1, <3>2, <3>3, <3>4, <3>5 DEF DriverInv
  <2>3. Resolved' /\ UsageOnly'
    BY <2>1 DEF DriverInv, Resolved, UsageOnly, GoodLine
  <2>4. QED
    BY <2>1, <2>2, <2>3 DEF DriverInv, FileFollows, ExitTellsTheFile
<1>5. QED
  BY <1>1, <1>2, <1>3, <1>4 DEF Next

(* What main knows of the command line, the file and the status, for every command
   line and graph: past the lists every entry was good, the architecture is the last
   one given and each op is preferred where the last -placement entry for it says. *)
THEOREM Driving == Spec => []DriverInv
<1>1. Init => DriverInv
  BY StartsKnowingNothing
<1>2. DriverInv /\ [Next]_vars => DriverInv'
  BY StepKeeps
<1>3. QED
  BY <1>1, <1>2, PTL DEF Spec

(* Status 0 and a module in the output file go together, and no other stage than
   hxb touches the file. *)
THEOREM FileStatus == Spec => []ExitTellsTheFile
<1>1. DriverInv => ExitTellsTheFile
  BY DEF DriverInv
<1>2. QED
  BY <1>1, Driving, PTL

(* hexir ends with its usage exactly when -emit is missing or an entry is bad:
   whatever the input, and before the input is looked at. *)
THEOREM UsageStatus == Spec => []UsageOnly
<1>1. DriverInv => UsageOnly
  BY DEF DriverInv
<1>2. QED
  BY <1>1, Driving, PTL

(* An op without a device is going to be placed where the declarative reading of the
   command line places it, and device code built for the architecture it names. *)
THEOREM LineIsResolved == Spec => []Resolved
<1>1. DriverInv => Resolved
  BY DEF DriverInv
<1>2. QED
  BY <1>1, Driving, PTL

-----------------------------------------------------------------------------
(* The stages, and the passes listed for each of them.                      *)

(* The stages a command line may ask for. *)
StageNames == {"none", "hexir", "tir", "hxb", "affine", "linalg", "hetero", "gpu", "llvm_dialect", "llvm_ir"}

(* The order of the stages, spelt out. *)
LEMMA StagesInOrder ==
  /\ DOMAIN Stages = 1 .. 11 /\ Len(Stages) = 11
  /\ Stages[1] = "none" /\ Stages[2] = "ast" /\ Stages[3] = "hexir" /\ Stages[4] = "tir"
  /\ Stages[5] = "hxb" /\ Stages[6] = "affine" /\ Stages[7] = "linalg" /\ Stages[8] = "hetero"
  /\ Stages[9] = "gpu" /\ Stages[10] = "llvm_dialect" /\ Stages[11] = "llvm_ir"
  BY DEF Stages

(* The stage of a command line is one of them. *)
LEMMA StageOf ==
  ASSUME job \in JobType
  PROVE  job.emit \in StageNames
<1>1. job.emit \in ToSet(Stages) \ {"ast"}
  BY DEF JobType
<1>2. \A i \in 1 .. 11 : i \in {1,2,3,4,5,6,7,8,9,10,11}
  OBVIOUS
<1>3. QED
  BY <1>1, <1>2, StagesInOrder DEF ToSet, StageNames

(* Which stages include which. *)
LEMMA Reaches ==
  ASSUME NEW s \in StageNames
  PROVE  /\ AtLeast(s, "linalg") <=> s \in {"linalg", "hetero", "gpu", "llvm_dialect", "llvm_ir"}
         /\ AtLeast(s, "hetero") <=> s \in {"hetero", "gpu", "llvm_dialect", "llvm_ir"}
         /\ AtLeast(s, "gpu") <=> s \in {"gpu", "llvm_dialect", "llvm_ir"}
         /\ AtLeast(s, "llvm_dialect") <=> s \in {"llvm_dialect", "llvm_ir"}
<1>1. \A i \in 1 .. 11 : i \in {1,2,3,4,5,6,7,8,9,10,11}
  OBVIOUS
<1>2. \A i \in 7 .. 11 : i \in {7,8,9,10,11}
  OBVIOUS
<1>3. AtLeast(s, "linalg") <=> \E i \in 7 .. 11 : Stages[i] = s
  BY <1>1, StagesInOrder DEF AtLeast
<1>4. AtLeast(s, "hetero") <=> \E i \in 8 .. 11 : Stages[i] = s
  BY <1>1, StagesInOrder DEF AtLeast
<1>5. AtLeast(s, "gpu") <=> \E i \in 9 .. 11 : Stages[i] = s
  BY <1>1, StagesInOrder DEF AtLeast
<1>6. AtLeast(s, "llvm_dialect") <=> \E i \in 10 .. 11 : Stages[i] = s
  BY <1>1, StagesInOrder DEF AtLeast
<1>7. QED
  BY <1>2, <1>3, <1>4, <1>5, <1>6, StagesInOrder DEF StageNames

(* The passes there are. *)
PassNames ==
  {"shape_inference", "partition", "to_tir", "to_linalg", "bufferize", "cuda_to_gpu", "to_loops", "outline",
   "to_llvm", "to_binary"}

(* The stages whose ops are placed, and those in the LLVM dialect. *)
Heterogeneous == {"hetero", "gpu", "llvm_dialect", "llvm_ir"}
(* The stages in the LLVM dialect. *)
LLVMStages == {"llvm_dialect", "llvm_ir"}

(* buildHexirPipeline, spelt out. *)
PassesSpelt ==
  /\ Passes \in Seq(PassNames)
  /\ job.emit \in {"none", "hexir", "affine"} => Len(Passes) <= 1
  /\ job.emit \in {"tir", "hxb"} => Len(Passes) = 3 /\ Passes[2] = "partition" /\ Passes[3] = "to_tir"
  /\ job.emit = "linalg" => Len(Passes) = 2 /\ Passes[2] = "to_linalg"
  /\ job.emit = "hetero" => Len(Passes) = 4
  /\ job.emit = "gpu" => Len(Passes) = 6
  /\ job.emit \in LLVMStages =>
       Len(Passes) = 10 /\ Passes[7] = "to_loops" /\ Passes[8] = "outline" /\ Passes[9] = "to_llvm"
       /\ Passes[10] = "to_binary"
  /\ job.emit \in Heterogeneous => Passes[2] = "partition" /\ Passes[3] = "to_linalg" /\ Passes[4] = "partition"
  /\ job.emit \in {"gpu"} \cup LLVMStages => Passes[5] = "bufferize" /\ Passes[6] = "cuda_to_gpu"
  /\ Len(Passes) >= 1 => Passes[1] = "shape_inference"

(* What buildHexirPipeline lists for each stage. *)
LEMMA PassList ==
  ASSUME job \in JobType
  PROVE  PassesSpelt
<1> DEFINE S == <<"shape_inference">>
           P == <<"partition">>
           T == <<"to_linalg">>
           B == <<"bufferize", "cuda_to_gpu">>
           L == <<"to_loops", "outline", "to_llvm", "to_binary">>
           K == <<"partition", "to_tir">>
<1>1. job.emit \in StageNames /\ job.opt \in BOOLEAN
  BY StageOf DEF JobType
<1>2. /\ S \in Seq(PassNames) /\ P \in Seq(PassNames) /\ T \in Seq(PassNames) /\ B \in Seq(PassNames)
      /\ L \in Seq(PassNames) /\ K \in Seq(PassNames) /\ <<>> \in Seq(PassNames)
  BY DEF PassNames
<1>3. /\ (Len(S) >= 1 /\ Len(S) <= 1) /\ S[1] = "shape_inference" /\ (Len(P) >= 1 /\ Len(P) <= 1) /\ P[1] = "partition"
      /\ (Len(T) >= 1 /\ Len(T) <= 1) /\ T[1] = "to_linalg"
      /\ (Len(B) >= 2 /\ Len(B) <= 2) /\ B[1] = "bufferize" /\ B[2] = "cuda_to_gpu"
      /\ (Len(L) >= 4 /\ Len(L) <= 4) /\ L[1] = "to_loops" /\ L[2] = "outline" /\ L[3] = "to_llvm" /\ L[4] = "to_binary"
      /\ (Len(K) >= 2 /\ Len(K) <= 2) /\ K[1] = "partition" /\ K[2] = "to_tir" /\ (Len(<<>>) >= 0 /\ Len(<<>>) <= 0)
  OBVIOUS
<1>4. \A s \in Seq(PassNames) : s \o <<>> = s /\ <<>> \o s = s
  OBVIOUS
<1>5. CASE job.emit \in {"none", "hexir", "affine"}
  <2>1. LinalgPasses = <<>>
    <3>1. LinalgPasses = (((<<>> \o <<>>) \o <<>>) \o <<>>) \o <<>>
      BY <1>1, <1>5, Reaches DEF LinalgPasses, If
    <3>2. QED
      BY <1>2, <1>4, <3>1
  <2>2. Passes = S \o <<>> \/ Passes = <<>> \o <<>>
    BY <1>1, <1>5, <2>1, Reaches DEF Passes, If, KernelLevel
  <2>3. Passes = S \/ Passes = <<>>
    BY <1>2, <1>4, <2>2
  <2>4. /\ Passes \in Seq(PassNames) /\ Len(Passes) <= 1
        /\ Len(Passes) >= 1 => Passes[1] = "shape_inference"
    <3>1. CASE Passes = S
      <4> HIDE DEF S
      <4>1. QED
        BY <1>2, <1>3, <3>1
    <3>2. CASE Passes = <<>>
      BY <1>2, <1>3, <3>2
    <3>3. QED
      BY <2>3, <3>1, <3>2
  <2>5. QED
    BY <1>5, <2>4 DEF PassesSpelt, Heterogeneous, LLVMStages
<1>6. CASE job.emit \in {"tir", "hxb"}
  <2>1. Passes = S \o K
    BY <1>6 DEF Passes, If, KernelLevel
  <2> HIDE DEF S, K
  <2>2. /\ S \o K \in Seq(PassNames) /\ (Len(S \o K) >= 3 /\ Len(S \o K) <= 3)
        /\ (S \o K)[1] = "shape_inference" /\ (S \o K)[2] = "partition" /\ (S \o K)[3] = "to_tir"
    BY <1>2, <1>3
  <2>3. QED
    BY <1>6, <2>1, <2>2 DEF PassesSpelt, Heterogeneous, LLVMStages
<1>7. CASE job.emit = "linalg"
  <2>1. LinalgPasses = (((<<>> \o T) \o <<>>) \o <<>>) \o <<>>
    BY <1>1, <1>7, Reaches DEF LinalgPasses, If
  <2>2. Passes = S \o LinalgPasses
    BY <1>1, <1>7, Reaches DEF Passes, If, KernelLevel
  <2> HIDE DEF S, T
  <2>3. LinalgPasses = T
    BY <1>2, <1>4, <2>1
  <2>4. /\ S \o T \in Seq(PassNames) /\ (Len(S \o T) >= 2 /\ Len(S \o T) <= 2)
        /\ (S \o T)[1] = "shape_inference" /\ (S \o T)[2] = "to_linalg"
    BY <1>2, <1>3
  <2>5. QED
    BY <1>7, <2>2, <2>3, <2>4 DEF PassesSpelt, Heterogeneous, LLVMStages
<1>8. CASE job.emit \in Heterogeneous
  <2> DEFINE A1 == P \o T
             A2 == A1 \o P
             A3 == A2 \o B
             A4 == A3 \o L
  <2>1. LinalgPasses = (A2 \o If(AtLeast(job.emit, "gpu"), B)) \o If(AtLeast(job.emit, "llvm_dialect"), L)
    BY <1>1, <1>8, Reaches DEF LinalgPasses, If, Heterogeneous
  <2>2. Passes = S \o LinalgPasses
    BY <1>1, <1>8, Reaches DEF Passes, If, KernelLevel, Heterogeneous
  <2> HIDE DEF S, P, T, B, L
  <2>3. A1 \in Seq(PassNames) /\ (Len(A1) >= 2 /\ Len(A1) <= 2) /\ A1[1] = "partition" /\ A1[2] = "to_linalg"
    BY <1>2, <1>3
  <2> HIDE DEF A1
  <2>4. /\ A2 \in Seq(PassNames) /\ (Len(A2) >= 3 /\ Len(A2) <= 3)
        /\ A2[1] = "partition" /\ A2[2] = "to_linalg" /\ A2[3] = "partition"
    BY <1>2, <1>3, <2>3
  <2> HIDE DEF A2
  <2>5. /\ A3 \in Seq(PassNames) /\ (Len(A3) >= 5 /\ Len(A3) <= 5)
        /\ A3[1] = "partition" /\ A3[2] = "to_linalg" /\ A3[3] = "partition"
        /\ A3[4] = "bufferize" /\ A3[5] = "cuda_to_gpu"
    BY <1>2, <1>3, <2>4
  <2> HIDE DEF A3
  <2>6. /\ A4 \in Seq(PassNames) /\ (Len(A4) >= 9 /\ Len(A4) <= 9)
        /\ A4[1] = "partition" /\ A4[2] = "to_linalg" /\ A4[3] = "partition"
        /\ A4[4] = "bufferize" /\ A4[5] = "cuda_to_gpu" /\ A4[6] = "to_loops" /\ A4[7] = "outline"
        /\ A4[8] = "to_llvm" /\ A4[9] = "to_binary"
    BY SMTT(30), <1>2, <1>3, <2>5
  <2> HIDE DEF A4
  <2>7. CASE job.emit = "hetero"
    <3>1. LinalgPasses = (A2 \o <<>>) \o <<>>
      BY <1>1, <2>1, <2>7, Reaches DEF If
    <3>2. Passes = S \o A2
      BY <1>4, <2>2, <2>4, <3>1
    <3>3. /\ S \o A2 \in Seq(PassNames) /\ (Len(S \o A2) >= 4 /\ Len(S \o A2) <= 4)
          /\ (S \o A2)[1] = "shape_inference" /\ (S \o A2)[2] = "partition" /\ (S \o A2)[3] = "to_linalg"
          /\ (S \o A2)[4] = "partition"
      BY <1>2, <1>3, <2>4
    <3>4. QED
      BY <2>7, <3>2, <3>3 DEF PassesSpelt, Heterogeneous, LLVMStages
  <2>8. CASE job.emit = "gpu"
    <3>1. LinalgPasses = A3 \o <<>>
      BY <1>1, <2>1, <2>8, Reaches DEF If, A3
    <3>2. Passes = S \o A3
      BY <1>4, <2>2, <2>5, <3>1
    <3>3. /\ S \o A3 \in Seq(PassNames) /\ (Len(S \o A3) >= 6 /\ Len(S \o A3) <= 6)
          /\ (S \o A3)[1] = "shape_inference" /\ (S \o A3)[2] = "partition" /\ (S \o A3)[3] = "to_linalg"
          /\ (S \o A3)[4] = "partition" /\ (S \o A3)[5] = "bufferize" /\ (S \o A3)[6] = "cuda_to_gpu"
      BY <1>2, <1>3, <2>5
    <3>4. QED
      BY <2>8, <3>2, <3>3 DEF PassesSpelt, Heterogeneous, LLVMStages
  <2>9. CASE job.emit \in LLVMStages
    <3>1. LinalgPasses = A4
      BY <1>1, <2>1, <2>9, Reaches DEF If, A3, A4, LLVMStages
    <3>2. Passes = S \o A4
      BY <2>2, <3>1
    <3>3. /\ S \o A4 \in Seq(PassNames) /\ (Len(S \o A4) >= 10 /\ Len(S \o A4) <= 10)
          /\ (S \o A4)[1] = "shape_inference" /\ (S \o A4)[2] = "partition" /\ (S \o A4)[3] = "to_linalg"
      BY <1>2, <1>3, <2>6
    <3>4. \A i \in 2 .. 10 : Passes[i] = A4[i - 1]
      BY SMTT(30), <1>2, <1>3, <2>6, <3>2
    <3>5. /\ Passes[4] = A4[3] /\ Passes[5] = A4[4] /\ Passes[6] = A4[5] /\ Passes[7] = A4[6]
          /\ Passes[8] = A4[7] /\ Passes[9] = A4[8] /\ Passes[10] = A4[9]
      BY <3>4
    <3>6. QED
      BY <2>6, <2>9, <3>2, <3>3, <3>5 DEF PassesSpelt, Heterogeneous, LLVMStages
  <2>10. QED
    BY <1>8, <2>7, <2>8, <2>9 DEF Heterogeneous, LLVMStages
<1>9. QED
  BY <1>1, <1>5, <1>6, <1>7, <1>8 DEF StageNames, Heterogeneous

-----------------------------------------------------------------------------
(* The graph of the input and the ops that are read of it.                  *)

(* The input is a graph, whichever it is. *)
LEMMA GraphTyped ==
  ASSUME job \in JobType
  PROVE  /\ Len(Graph) \in Nat /\ DOMAIN Graph = 1 .. Len(Graph)
         /\ \A f \in DOMAIN Graph : Graph[f].body \in Seq(GraphOpType)
<1>1. CASE job.input = "built"
  <2> DEFINE ops == << BuiltOp("constant", <<>>, 1, 2), BuiltOp("constant", <<>>, 2, 2),
                       BuiltOp("constant", <<>>, 2, 2), BuiltOp("linear", <<2, 3>>, 2, 2),
                       BuiltOp("print", <<4>>, 2, 2), BuiltOp("return", <<>>, 0, 0) >>
  <2>1. \A op \in {"constant", "linear", "print", "return"}, args \in Seq(Nat), rows, cols \in Nat :
          BuiltOp(op, args, rows, cols) \in GraphOpType
    BY DEF BuiltOp, GraphOpType, ComputeOps
  <2>2. <<>> \in Seq(Nat) /\ <<2, 3>> \in Seq(Nat) /\ <<4>> \in Seq(Nat) /\ 0 \in Nat /\ 1 \in Nat /\ 2 \in Nat
    OBVIOUS
  <2>3. /\ BuiltOp("constant", <<>>, 1, 2) \in GraphOpType /\ BuiltOp("constant", <<>>, 2, 2) \in GraphOpType
        /\ BuiltOp("linear", <<2, 3>>, 2, 2) \in GraphOpType /\ BuiltOp("print", <<4>>, 2, 2) \in GraphOpType
        /\ BuiltOp("return", <<>>, 0, 0) \in GraphOpType
    BY <2>1, <2>2
  <2>4. ops \in Seq(GraphOpType)
    BY <2>3
  <2>5. Graph = <<[kind |-> "func.func", name |-> "main", body |-> ops]>>
    BY <1>1 DEF Graph, BuiltProgram
  <2> HIDE DEF ops
  <2>6. Len(Graph) \in Nat /\ DOMAIN Graph = 1 .. Len(Graph) /\ Graph[1].body = ops /\ \A f \in DOMAIN Graph : f = 1
    BY <2>5
  <2>7. QED
    BY <2>4, <2>6
<1>2. CASE job.input # "built"
  <2>1. Graph \in GraphType
    BY <1>2 DEF Graph, JobType
  <2> DEFINE R == [kind : {"func.func", "hexir.func"}, name : STRING, body : Seq(GraphOpType)]
  <2>2. \A r \in R : r.body \in Seq(GraphOpType)
    OBVIOUS
  <2>3. Graph \in Seq(R)
    BY <2>1 DEF GraphType
  <2> HIDE DEF R
  <2>4. Len(Graph) \in Nat /\ DOMAIN Graph = 1 .. Len(Graph) /\ \A f \in DOMAIN Graph : Graph[f] \in R
    BY <2>3
  <2>5. QED
    BY <2>2, <2>4
<1>3. QED
  BY <1>1, <1>2

(* The positions of its ops. *)
LEMMA InPositions ==
  ASSUME job \in JobType, NEW v
  PROVE  v \in Positions(Graph) <=>
           \E f \in 1 .. Len(Graph) : \E i \in 1 .. Len(Graph[f].body) : v = <<f, i>>
  BY GraphTyped DEF Positions

(* An op of a well-formed graph has the operands of its kind. *)
LEMMA Arity ==
  ASSUME WellFormedGraph(Graph), NEW v \in Positions(Graph), NEW o, o = OpAt(Graph, v)
  PROVE  /\ o.op \in {"linear", "add"} => Len(o.args) = 2
         /\ o.op \in {"relu", "print"} => Len(o.args) = 1
         /\ \A a \in DOMAIN o.args : Graph[v[1]].body[o.args[a]].op \notin {"print", "return"}
<1>1. Len(o.args) = CASE o.op \in {"linear", "add"} -> 2
                      [] o.op \in {"relu", "print"} -> 1
                      [] o.op = "constant" -> 0
                      [] OTHER -> Len(o.args)
  BY DEF WellFormedGraph
<1>2. \A a \in DOMAIN o.args : Graph[v[1]].body[o.args[a]].op \notin {"print", "return"}
  BY DEF WellFormedGraph
<1>3. o.op \in {"linear", "add"} => Len(o.args) = 2
  BY ONLY <1>1
<1>4. o.op \in {"relu", "print"} => Len(o.args) = 1
  BY ONLY <1>1
<1>5. QED
  BY ONLY <1>2, <1>3, <1>4

(* A value of the input. *)
LEMMA PositionTyped ==
  ASSUME job \in JobType, NEW v \in Positions(Graph)
  PROVE  /\ v = <<v[1], v[2]>> /\ v[1] \in 1 .. Len(Graph) /\ v[2] \in 1 .. Len(Graph[v[1]].body)
         /\ v[1] \in Nat /\ v[2] \in Nat
         /\ OpAt(Graph, v) \in GraphOpType
<1>0. PICK f \in 1 .. Len(Graph) : \E i \in 1 .. Len(Graph[f].body) : v = <<f, i>>
  BY InPositions
<1>1. PICK i \in 1 .. Len(Graph[f].body) : v = <<f, i>>
  BY <1>0
<1>2. Graph[f].body \in Seq(GraphOpType) /\ Len(Graph) \in Nat
  BY GraphTyped
<1>3. v[1] = f /\ v[2] = i
  BY <1>1
<1>4. QED
  BY <1>1, <1>2, <1>3 DEF OpAt

(* What is read of each function. *)
ReadOf(g) == [f \in DOMAIN g |-> [i \in DOMAIN g[f].body |-> Parsed(<<f, i>>)]]

(* The operands of an op are earlier ops of its function. *)
LEMMA OperandsAreEarlier ==
  ASSUME job \in JobType, WellFormedGraph(Graph), NEW v \in Positions(Graph),
         NEW a \in DOMAIN OpAt(Graph, v).args
  PROVE  <<v[1], OpAt(Graph, v).args[a]>> \in Positions(Graph)
         /\ OpAt(Graph, v).args[a] \in Nat /\ OpAt(Graph, v).args[a] < v[2]
<1>1. OpAt(Graph, v).args[a] \in 1 .. v[2] - 1
  BY DEF WellFormedGraph
<1>2. v[1] \in 1 .. Len(Graph) /\ v[2] \in 1 .. Len(Graph[v[1]].body) /\ v[2] \in Nat
  BY PositionTyped
<1>4. Len(Graph[v[1]].body) \in Nat
  BY <1>2, GraphTyped
<1>5. OpAt(Graph, v).args[a] \in 1 .. Len(Graph[v[1]].body)
  BY <1>1, <1>2, <1>4
<1>6. QED
  BY <1>1, <1>2, <1>5, InPositions

(* What is read of an op is an op. *)
LEMMA ParsedTyped ==
  ASSUME job \in JobType, WellFormedGraph(Graph), NEW v \in Positions(Graph)
  PROVE  Parsed(v) \in OpType
<1> DEFINE operation == OpAt(Graph, v)
           args == [a \in DOMAIN operation.args |-> <<v[1], operation.args[a]>>]
<1>1. operation \in GraphOpType
  BY PositionTyped
<1>2. args \in Seq(Values(Graph))
  <2>1. operation.args \in Seq(Nat)
    BY <1>1 DEF GraphOpType
  <2>2. ASSUME NEW a \in 1 .. Len(operation.args)
        PROVE  <<v[1], operation.args[a]>> \in Values(Graph)
    <3>1. a \in DOMAIN operation.args
      BY <2>1
    <3>2. <<v[1], operation.args[a]>> \in Positions(Graph)
      BY <3>1, OperandsAreEarlier
    <3>3. QED
      BY <3>2 DEF Values
  <2>3. PICK n \in Nat : n = Len(operation.args) /\ DOMAIN operation.args = 1 .. n
    BY <2>1
  <2>4. PICK T : T = Values(Graph)
    OBVIOUS
  <2>5. PICK g : g = args
    OBVIOUS
  <2>6. g = [a \in 1 .. n |-> g[a]] /\ \A a \in 1 .. n : g[a] = <<v[1], operation.args[a]>>
    BY <2>3, <2>5
  <2>7. \A a \in 1 .. n : g[a] \in T
    BY <2>2, <2>3, <2>4, <2>6
  <2>8. g \in Seq(T)
    BY ONLY <2>6, <2>7
  <2>9. QED
    BY <2>4, <2>5, <2>8
<1>3. Parsed(v).args = args
  BY DEF Parsed
<1>4. /\ operation.op \in ComputeOps \cup {"constant", "print", "return", "other", "fill", "matmul", "zeros", "copied_zeros"}
      /\ operation.device \in Devices \cup {"gpu", "none"}
  BY <1>1 DEF GraphOpType
<1>5. v \in Values(Graph)
  BY DEF Values
<1> HIDE DEF args
<1>6. QED
  BY <1>2, <1>3, <1>4, <1>5 DEF Parsed, OpType, Forms

(* What loading the input makes of it. *)
LEMMA LoadedOps ==
  ASSUME job \in JobType, WellFormedGraph(Graph), NEW ops, ops = FlattenSeq(ReadOf(Graph))
  PROVE  /\ ops \in Seq(OpType)
         /\ \A k \in DOMAIN ops : ops[k].of \in Positions(Graph) /\ ops[k] = Parsed(ops[k].of)
         /\ \A k, l \in DOMAIN ops : k < l => Before(ops[k].of, ops[l].of)
         /\ \A v \in Positions(Graph) : \E k \in DOMAIN ops : ops[k].of = v
         /\ \A k \in DOMAIN ops : \A value \in ToSet(ops[k].args) :
              \E l \in 1 .. k - 1 : ops[l].result = value
<1> DEFINE parts == ReadOf(Graph)
           n == Len(Graph)
           m(f) == Len(Graph[f].body)
<1>1. /\ n \in Nat /\ DOMAIN Graph = 1 .. n
      /\ \A f \in 1 .. n : m(f) \in Nat /\ DOMAIN Graph[f].body = 1 .. m(f)
  BY GraphTyped
<1>2. \A f \in 1 .. n : \A i \in 1 .. m(f) :
        /\ <<f, i>> \in Positions(Graph) /\ Parsed(<<f, i>>) \in OpType
        /\ Parsed(<<f, i>>).of = <<f, i>> /\ Parsed(<<f, i>>).result = <<f, i>>
  <2> SUFFICES ASSUME NEW f \in 1 .. n, NEW i \in 1 .. m(f)
               PROVE  /\ <<f, i>> \in Positions(Graph) /\ Parsed(<<f, i>>) \in OpType
                      /\ Parsed(<<f, i>>).of = <<f, i>> /\ Parsed(<<f, i>>).result = <<f, i>>
    OBVIOUS
  <2>1. <<f, i>> \in Positions(Graph)
    BY InPositions
  <2>2. QED
    BY <2>1, ParsedTyped DEF Parsed
<1>3. ASSUME NEW f \in 1 .. n
      PROVE  parts[f] = [i \in 1 .. m(f) |-> Parsed(<<f, i>>)] /\ parts[f] \in Seq(OpType)
  <2>1. parts[f] = [i \in 1 .. m(f) |-> Parsed(<<f, i>>)]
    BY <1>1 DEF ReadOf
  <2>2. m(f) \in Nat /\ \A i \in 1 .. m(f) : Parsed(<<f, i>>) \in OpType
    BY <1>1, <1>2
  <2> HIDE DEF parts, m
  <2> DEFINE p(i) == Parsed(<<f, i>>)
  <2>a. \A i \in 1 .. m(f) : p(i) \in OpType
    BY <2>2
  <2> HIDE DEF p
  <2>b. [i \in 1 .. m(f) |-> p(i)] \in Seq(OpType)
    BY <2>2, <2>a
  <2>3. [i \in 1 .. m(f) |-> Parsed(<<f, i>>)] \in Seq(OpType)
    BY <2>b DEF p
  <2>4. QED
    BY <2>1, <2>3
<1>4. parts \in Seq(Seq(OpType)) /\ Len(parts) = n
  <2>1. parts = [f \in 1 .. n |-> parts[f]]
    BY <1>1 DEF ReadOf
  <2> HIDE DEF parts
  <2>2. QED
    BY <1>1, <1>3, <2>1
<1>5. ASSUME NEW f \in 1 .. n
      PROVE  Len(parts[f]) = m(f) /\ \A i \in 1 .. m(f) : parts[f][i] = Parsed(<<f, i>>)
  <2>1. parts[f] = [i \in 1 .. m(f) |-> Parsed(<<f, i>>)] /\ parts[f] \in Seq(OpType) /\ m(f) \in Nat
    BY <1>1, <1>3
  <2> HIDE DEF parts, m
  <2>2. DOMAIN parts[f] = 1 .. m(f) /\ DOMAIN parts[f] = 1 .. Len(parts[f]) /\ Len(parts[f]) \in Nat
    BY <2>1
  <2>3. Len(parts[f]) = m(f)
    BY <2>1, <2>2
  <2>4. QED
    BY <2>1, <2>3
<1>6. ops \in Seq(OpType) /\ \E start : Laid(start, ops, parts, n)
  BY <1>4, FlattenPlaces
<1>7. PICK start : Laid(start, ops, parts, n)
  BY <1>6
<1> HIDE DEF parts, n, m
<1>8. \A f \in 1 .. n : start[f] \in Nat /\ m(f) \in Nat
  BY <1>1, <1>7 DEF Laid
<1>9. ASSUME NEW f \in 1 .. n, NEW i \in 1 .. m(f)
      PROVE  start[f] + i \in DOMAIN ops /\ ops[start[f] + i] = Parsed(<<f, i>>)
  <2>1. i \in Nat \ {0} /\ i <= Len(parts[f])
    BY <1>5, <1>8
  <2>2. start[f] + i \in 1 .. Len(ops) /\ ops[start[f] + i] = parts[f][i]
    BY <1>7, <2>1 DEF Laid
  <2>3. QED
    BY <1>5, <1>6, <2>2
<1>10. ASSUME NEW k \in DOMAIN ops
       PROVE  \E f \in 1 .. n : \E i \in 1 .. m(f) : k = start[f] + i
  <2>1. k \in 1 .. Len(ops)
    BY <1>6
  <2>2. PICK f \in 1 .. n, i \in Nat \ {0} : i <= Len(parts[f]) /\ k = start[f] + i
    BY <1>7, <2>1 DEF Laid
  <2>3. i \in 1 .. m(f)
    BY <1>5, <1>8, <2>2
  <2>4. QED
    BY <2>2, <2>3
<1>11. \A f, h \in 1 .. n : f < h => start[f] + m(f) <= start[h]
  BY <1>5, <1>7 DEF Laid
<1>12. ASSUME NEW k \in DOMAIN ops
       PROVE  ops[k].of \in Positions(Graph) /\ ops[k] = Parsed(ops[k].of)
  <2>1. PICK f \in 1 .. n : \E i \in 1 .. m(f) : k = start[f] + i
    BY <1>10
  <2>2. PICK i \in 1 .. m(f) : k = start[f] + i
    BY <2>1
  <2>3. ops[k] = Parsed(<<f, i>>) /\ ops[k].of = <<f, i>> /\ <<f, i>> \in Positions(Graph)
    BY <1>2, <1>9, <2>2
  <2>4. QED
    BY <2>3
<1>13. ASSUME NEW k \in DOMAIN ops, NEW l \in DOMAIN ops, k < l
       PROVE  Before(ops[k].of, ops[l].of)
  <2>a. PICK f \in 1 .. n : \E i \in 1 .. m(f) : k = start[f] + i
    BY <1>10
  <2>1. PICK i \in 1 .. m(f) : k = start[f] + i
    BY <2>a
  <2>b. PICK h \in 1 .. n : \E j \in 1 .. m(h) : l = start[h] + j
    BY <1>10
  <2>2. PICK j \in 1 .. m(h) : l = start[h] + j
    BY <2>b
  <2>3. ops[k].of = <<f, i>> /\ ops[l].of = <<h, j>>
    BY <1>2, <1>9, <2>1, <2>2
  <2>4. start[f] \in Nat /\ start[h] \in Nat /\ m(f) \in Nat /\ m(h) \in Nat /\ f \in Nat /\ h \in Nat
    BY <1>1, <1>8
  <2>5. ~(h < f)
    <3> SUFFICES ASSUME h < f PROVE FALSE
      OBVIOUS
    <3>1. start[h] + m(h) <= start[f]
      BY <1>11
    <3>2. QED
      BY <1>13, <2>1, <2>2, <2>4, <3>1
  <2>6. f < h \/ (f = h /\ i < j)
    BY <1>13, <2>1, <2>2, <2>4, <2>5
  <2>7. QED
    BY <2>3, <2>6 DEF Before
<1>14. ASSUME NEW v \in Positions(Graph)
       PROVE  \E k \in DOMAIN ops : ops[k].of = v
  <2>a. PICK f \in 1 .. n : \E i \in 1 .. m(f) : v = <<f, i>>
    BY InPositions DEF n, m
  <2>1. PICK i \in 1 .. m(f) : v = <<f, i>>
    BY <2>a
  <2>2. QED
    BY <1>2, <1>9, <2>1
<1>15. ASSUME NEW k \in DOMAIN ops, NEW value \in ToSet(ops[k].args)
       PROVE  \E l \in 1 .. k - 1 : ops[l].result = value
  <2>a. PICK f \in 1 .. n : \E i \in 1 .. m(f) : k = start[f] + i
    BY <1>10
  <2>1. PICK i \in 1 .. m(f) : k = start[f] + i
    BY <2>a
  <2>2. ops[k] = Parsed(<<f, i>>) /\ <<f, i>> \in Positions(Graph)
    BY <1>2, <1>9, <2>1
  <2>3. PICK a \in DOMAIN ops[k].args : value = ops[k].args[a]
    BY <1>15 DEF ToSet
  <2> DEFINE operation == OpAt(Graph, <<f, i>>)
             j == operation.args[a]
  <2>4. a \in DOMAIN operation.args /\ value = <<f, j>>
    BY <2>2, <2>3 DEF Parsed
  <2>5. j \in Nat /\ j < i /\ <<f, j>> \in Positions(Graph)
    BY <2>2, <2>4, OperandsAreEarlier
  <2> HIDE DEF j, operation
  <2>6. j \in 1 .. m(f)
    <3>1. PICK h \in 1 .. n : \E x \in 1 .. m(h) : <<f, j>> = <<h, x>>
      BY <2>5, InPositions DEF n, m
    <3>2. PICK x \in 1 .. m(h) : <<f, j>> = <<h, x>>
      BY <3>1
    <3>3. f = h /\ j = x
      BY <3>2
    <3>4. QED
      BY <3>3
  <2>7. ops[start[f] + j].result = value /\ start[f] + j \in DOMAIN ops
    BY <1>2, <1>9, <2>4, <2>6
  <2>8. start[f] + j \in 1 .. k - 1
    BY <1>8, <2>1, <2>5, <2>6
  <2>9. QED
    BY <2>7, <2>8
<1>16. QED
  BY <1>6, <1>12, <1>13, <1>14, <1>15

-----------------------------------------------------------------------------
(* How far the passes have got to, and which pass may run there.            *)

(* How far the passes are, stage by stage. *)
LEMMA Flags ==
  ASSUME job \in JobType
  PROVE  /\ KernelLevel <=> job.emit \in {"tir", "hxb"}
         /\ Placed <=> job.emit \in {"tir", "hxb"} \cup Heterogeneous /\ Ran >= 2
         /\ Linalged <=> \/ job.emit = "linalg" /\ Ran >= 2
                         \/ job.emit \in Heterogeneous /\ Ran >= 3
         /\ Buffered <=> job.emit \in {"gpu"} \cup LLVMStages /\ Ran >= 5
         /\ OnKernels <=> job.emit \in {"gpu"} \cup LLVMStages /\ Ran >= 6
         /\ Looped <=> job.emit \in LLVMStages /\ Ran >= 7
         /\ HasOutlines <=> job.emit \in LLVMStages /\ Ran >= 8
         /\ InLLVM <=> job.emit \in LLVMStages /\ Ran >= 9
<1>1. job.emit \in StageNames
  BY StageOf
<1>2. QED
  BY <1>1, Reaches DEF KernelLevel, Placed, Linalged, Buffered, OnKernels, Looped, HasOutlines, InLLVM,
     Heterogeneous, LLVMStages

(* When a pass runs, the module is loaded, and the pass is the next of the list. *)
LEMMA PassRuns ==
  ASSUME job \in JobType, passes \in Seq(ToSet(Passes)), PassesFollow, FileFollows, NEW p, Running(p)
  PROVE  /\ Loaded /\ ~Finished /\ pc = "passes" /\ exit = "running"
         /\ Len(passes) \in Nat \ {0} /\ Len(Passes) \in Nat /\ Ran \in Nat
         /\ Ran + 1 <= Len(Passes) /\ Passes[Ran + 1] = p
<1>1. pc = "passes" /\ passes # <<>> /\ Head(passes) = p
  BY DEF Running
<1>2. exit = "running" /\ Loaded /\ ~Finished
  BY <1>1 DEF FileFollows, Loaded, Finished
<1>3. Len(passes) \in Nat \ {0} /\ 1 \in DOMAIN passes /\ Head(passes) = passes[1]
  BY <1>1
<1>4. Passes \in Seq(PassNames)
  BY PassList DEF PassesSpelt
<1>5. Len(Passes) \in Nat
  BY <1>4
<1>6. Len(passes) <= Len(Passes) /\ passes[1] = Passes[Ran + 1]
  BY <1>2, <1>3 DEF PassesFollow
<1>7. Ran \in Nat /\ Ran + 1 <= Len(Passes)
  BY <1>3, <1>5, <1>6 DEF Ran
<1>8. QED
  BY <1>1, <1>2, <1>3, <1>5, <1>6, <1>7

(* Each pass has its places in the list. *)
LEMMA PassPlace ==
  ASSUME job \in JobType, passes \in Seq(ToSet(Passes)), PassesFollow, FileFollows, NEW p, Running(p)
  PROVE  /\ p = "shape_inference" => Ran = 0
         /\ p = "partition" => \/ job.emit \in {"tir", "hxb"} /\ Ran = 1
                               \/ job.emit \in Heterogeneous /\ Ran \in {1, 3}
         /\ p = "to_tir" => job.emit \in {"tir", "hxb"} /\ Ran = 2
         /\ p = "to_linalg" => \/ job.emit = "linalg" /\ Ran = 1
                               \/ job.emit \in Heterogeneous /\ Ran = 2
         /\ p = "bufferize" => job.emit \in {"gpu"} \cup LLVMStages /\ Ran = 4
         /\ p = "cuda_to_gpu" => job.emit \in {"gpu"} \cup LLVMStages /\ Ran = 5
         /\ p = "to_loops" => job.emit \in LLVMStages /\ Ran = 6
         /\ p = "outline" => job.emit \in LLVMStages /\ Ran = 7
         /\ p = "to_llvm" => job.emit \in LLVMStages /\ Ran = 8
         /\ p = "to_binary" => job.emit \in LLVMStages /\ Ran = 9
<1>1. Ran \in Nat /\ Ran + 1 <= Len(Passes) /\ Passes[Ran + 1] = p /\ Len(Passes) \in Nat
  BY PassRuns
<1>2. job.emit \in StageNames /\ PassesSpelt
  BY StageOf, PassList
<1> DEFINE r == Ran
<1>3. \A x \in Nat : /\ x + 1 <= 1 => x = 0
                     /\ x + 1 <= 2 => x \in {0, 1}
                     /\ x + 1 <= 3 => x \in {0, 1, 2}
                     /\ x + 1 <= 4 => x \in {0, 1, 2, 3}
                     /\ x + 1 <= 6 => x \in {0, 1, 2, 3, 4, 5}
                     /\ x + 1 <= 10 => x \in {0, 1, 2, 3, 4, 5, 6, 7, 8, 9}
  OBVIOUS
<1>a. /\ r = 0 => p = Passes[1]
      /\ r = 1 => p = Passes[2]
      /\ r = 2 => p = Passes[3]
      /\ r = 3 => p = Passes[4]
      /\ r = 4 => p = Passes[5]
      /\ r = 5 => p = Passes[6]
      /\ r = 6 => p = Passes[7]
      /\ r = 7 => p = Passes[8]
      /\ r = 8 => p = Passes[9]
      /\ r = 9 => p = Passes[10]
  BY <1>1
<1>b. Passes[1] = "shape_inference"
  <2>1. Len(Passes) >= 1
    BY <1>1
  <2>2. QED
    BY <1>2, <2>1 DEF PassesSpelt
<1> HIDE DEF r
<1>4. CASE job.emit \in {"none", "hexir", "affine"}
  <2>1. r = 0
    BY <1>1, <1>2, <1>3, <1>4 DEF PassesSpelt, r
  <2>2. p = "shape_inference"
    BY <1>a, <1>b, <2>1
  <2>3. QED
    BY <2>1, <2>2 DEF r
<1>5. CASE job.emit \in {"tir", "hxb"}
  <2>1. r \in {0, 1, 2}
    BY <1>1, <1>2, <1>3, <1>5 DEF PassesSpelt, r
  <2>2. QED
    BY <1>2, <1>5, <1>a, <1>b, <2>1 DEF r, PassesSpelt
<1>6. CASE job.emit = "linalg"
  <2>1. r \in {0, 1}
    BY <1>1, <1>2, <1>3, <1>6 DEF PassesSpelt, r
  <2>2. QED
    BY <1>2, <1>6, <1>a, <1>b, <2>1 DEF r, PassesSpelt
<1>7. CASE job.emit = "hetero"
  <2>1. r \in {0, 1, 2, 3}
    BY <1>1, <1>2, <1>3, <1>7 DEF PassesSpelt, r
  <2>2. QED
    BY <1>2, <1>7, <1>a, <1>b, <2>1 DEF r, PassesSpelt, Heterogeneous
<1>8. CASE job.emit = "gpu"
  <2>1. r \in {0, 1, 2, 3, 4, 5}
    BY <1>1, <1>2, <1>3, <1>8 DEF PassesSpelt, r
  <2>2. QED
    BY <1>2, <1>8, <1>a, <1>b, <2>1 DEF r, PassesSpelt, Heterogeneous
<1>9. CASE job.emit \in LLVMStages
  <2>1. r \in {0, 1, 2, 3, 4, 5, 6, 7, 8, 9}
    BY <1>1, <1>2, <1>3, <1>9 DEF PassesSpelt, r
  <2>2. job.emit \in Heterogeneous
    BY <1>9 DEF Heterogeneous, LLVMStages
  <2>3. QED
    BY <1>2, <1>9, <1>a, <1>b, <2>1, <2>2 DEF r, PassesSpelt
<1>10. QED
  BY <1>2, <1>4, <1>5, <1>6, <1>7, <1>8, <1>9 DEF StageNames, LLVMStages

(* One more pass is behind the module. *)
LEMMA OnePassMore ==
  ASSUME job \in JobType, passes \in Seq(ToSet(Passes)), PassesFollow, FileFollows, NEW p, Running(p),
         UNCHANGED <<job, pc, exit>>, passes' = Tail(passes)
  PROVE  /\ Ran' = Ran + 1 /\ Passes' = Passes /\ Graph' = Graph /\ Options' = Options
         /\ Loaded' /\ ~Finished' /\ WellFormedGraph(Graph)
         /\ passes' \in Seq(ToSet(Passes))
         /\ Len(passes') <= Len(Passes) /\ \A i \in DOMAIN passes' : passes'[i] = Passes[(Ran + 1) + i]
<1>1. Passes' = Passes /\ Graph' = Graph /\ Options' = Options
  BY DEF Passes, LinalgPasses, KernelLevel, Graph, Options
<1>2. /\ Loaded /\ ~Finished /\ pc = "passes" /\ exit = "running"
      /\ Len(passes) \in Nat \ {0} /\ Len(Passes) \in Nat
  BY PassRuns
<1>3. Loaded' /\ ~Finished' /\ WellFormedGraph(Graph)
  BY <1>2 DEF Loaded, Finished, PassesFollow
<1>4. /\ passes' \in Seq(ToSet(Passes)) /\ Len(passes') = Len(passes) - 1
      /\ \A i \in DOMAIN passes' : i + 1 \in DOMAIN passes /\ passes'[i] = passes[i + 1] /\ i \in Nat
  BY <1>2
<1>5. Ran' = Ran + 1
  BY <1>1, <1>2, <1>4 DEF Ran
<1>6. Len(passes) <= Len(Passes) /\ \A i \in DOMAIN passes : passes[i] = Passes[Ran + i]
  BY <1>2 DEF PassesFollow
<1>7. \A i \in DOMAIN passes' : passes'[i] = Passes[(Ran + 1) + i]
  <2>1. SUFFICES ASSUME NEW i \in DOMAIN passes' PROVE passes'[i] = Passes[(Ran + 1) + i]
    OBVIOUS
  <2>2. passes'[i] = Passes[Ran + (i + 1)] /\ i \in Nat
    BY <1>4, <1>6
  <2>3. Ran + (i + 1) = (Ran + 1) + i
    BY <1>2, <2>2 DEF Ran
  <2>4. QED
    BY <2>2, <2>3
<1>8. Len(passes') <= Len(Passes)
  BY <1>2, <1>4, <1>6
<1>9. QED
  BY <1>1, <1>3, <1>4, <1>5, <1>7, <1>8

-----------------------------------------------------------------------------
(* The invariant of the module of ops: what leaves it alone keeps it.       *)

(* What is said of the module, and of the ops in it. *)
ModuleInv ==
  /\ passes \in Seq(ToSet(Passes)) /\ prims \in Seq(PrimType)
  /\ \A i \in DOMAIN body : MadeBefore(i)
  /\ PassesFollow /\ OpsFollow /\ DevicesFollow /\ KernelsFollow

(* The same after a step that leaves the command line alone. *)
LEMMA FlagsThen ==
  ASSUME job \in JobType, job' = job, NEW r, Ran' = r
  PROVE  /\ KernelLevel' <=> job.emit \in {"tir", "hxb"}
         /\ Placed' <=> job.emit \in {"tir", "hxb"} \cup Heterogeneous /\ r >= 2
         /\ Linalged' <=> \/ job.emit = "linalg" /\ r >= 2
                          \/ job.emit \in Heterogeneous /\ r >= 3
         /\ Buffered' <=> job.emit \in {"gpu"} \cup LLVMStages /\ r >= 5
         /\ OnKernels' <=> job.emit \in {"gpu"} \cup LLVMStages /\ r >= 6
         /\ Looped' <=> job.emit \in LLVMStages /\ r >= 7
         /\ HasOutlines' <=> job.emit \in LLVMStages /\ r >= 8
         /\ InLLVM' <=> job.emit \in LLVMStages /\ r >= 9
<1>1. job.emit \in StageNames
  BY StageOf
<1>2. QED
  BY <1>1, Reaches DEF KernelLevel, Placed, Linalged, Buffered, OnKernels, Looped, HasOutlines, InLLVM,
     Heterogeneous, LLVMStages

(* ... and between it and the bufferization. *)
LEMMA OperandsStay ==
  ASSUME NEW o, NEW q, q.of = o.of, Graph' = Graph, Buffered' <=> Buffered
  PROVE  Operands(q)' = Operands(o)
<1>1. PICK g : g = Graph
  OBVIOUS
<1>2. Graph = g /\ Graph' = g
  BY <1>1
<1>3. Input(q)' = Input(o)
  BY DEF Input
<1>4. CASE Buffered
  BY <1>2, <1>3, <1>4 DEF Operands
<1>5. CASE ~Buffered
  BY <1>2, <1>3, <1>5 DEF Operands
<1>6. QED
  BY <1>4, <1>5

(* What the ops are depends on them, the input and the stage only. *)
LEMMA OpsKept ==
  ASSUME OpsFollow, UNCHANGED <<job, body>>,
         Linalged' <=> Linalged, Buffered' <=> Buffered, Loaded' <=> Loaded
  PROVE  OpsFollow'
<1>1. Graph' = Graph
  BY DEF Graph
<1>2. OpType' = OpType
  BY <1>1 DEF OpType, Values, Positions
<1>3. \A i \in DOMAIN body : AsRead(body[i]) => AsRead(body[i])'
  BY <1>1 DEF AsRead, Parsed
<1>4. \A i \in DOMAIN body : AsLowered(body[i]) => AsLowered(body[i])'
  <2>1. ASSUME NEW i \in DOMAIN body, AsLowered(body[i]) PROVE AsLowered(body[i])'
    <3>1. PICK o : o = body[i]
      OBVIOUS
    <3>2. Operands(o)' = Operands(o)
      BY <1>1, OperandsStay
    <3>3. AsLowered(o)'
      BY <1>1, <2>1, <3>1, <3>2 DEF AsLowered, AsDestination, AsKernel, Input
    <3>4. body'[i] = o
      BY <3>1
    <3>5. QED
      BY <3>3, <3>4
  <2>2. QED
    BY <2>1
<1>5. QED
  BY <1>1, <1>2, <1>3, <1>4 DEF OpsFollow

(* So do their devices. *)
LEMMA DevicesKept ==
  ASSUME DevicesFollow, UNCHANGED <<job, body>>,
         Placed' <=> Placed, Linalged' <=> Linalged, OnKernels' <=> OnKernels,
         Looped' <=> Looped, HasOutlines' <=> HasOutlines, InLLVM' <=> InLLVM
  PROVE  DevicesFollow'
<1>1. Graph' = Graph /\ Options' = Options
  BY DEF Graph, Options
<1>2. QED
  BY <1>1 DEF DevicesFollow, DeviceFollows, Input, Computes, OnGpu

(* So do the calls and the prim funcs. *)
LEMMA KernelsKept ==
  ASSUME KernelsFollow, UNCHANGED <<job, body, prims>>, Placed' <=> Placed
  PROVE  KernelsFollow'
<1>1. Graph' = Graph /\ Options' = Options /\ Calls' = Calls /\ Work' = Work /\ (KernelLevel' <=> KernelLevel)
  BY DEF Graph, Options, Calls, Work, KernelLevel
<1>2. QED
  BY <1>1 DEF KernelsFollow, Input

(* A step that leaves the module alone keeps its invariant. *)
LEMMA ModuleKept ==
  ASSUME ModuleInv, UNCHANGED <<job, module>>, Loaded' <=> Loaded, Finished' => passes = <<>>
  PROVE  ModuleInv'
<1>1. Graph' = Graph /\ Options' = Options /\ Passes' = Passes /\ (KernelLevel' <=> KernelLevel)
      /\ UNCHANGED <<passes, body, prims>>
  BY DEF Graph, Options, Passes, LinalgPasses, KernelLevel, module
<1>2. Ran' = Ran
  BY <1>1 DEF Ran
<1>3. /\ Placed' <=> Placed
      /\ Linalged' <=> Linalged
      /\ Buffered' <=> Buffered
      /\ OnKernels' <=> OnKernels
      /\ Looped' <=> Looped
      /\ HasOutlines' <=> HasOutlines
      /\ InLLVM' <=> InLLVM
  BY <1>1, <1>2 DEF Placed, Linalged, Buffered, OnKernels, Looped, HasOutlines, InLLVM
<1>4. PassesFollow'
  BY <1>1, <1>2 DEF ModuleInv, PassesFollow, Work, GeneratedNames
<1>5. (\A i \in DOMAIN body : MadeBefore(i))'
  <2>1. \A i : MadeBefore(i) => MadeBefore(i)'
    BY <1>1, Zenon DEF MadeBefore
  <2>2. \A i \in DOMAIN body : MadeBefore(i)
    BY DEF ModuleInv
  <2>3. QED
    BY <1>1, <2>1, <2>2
<1>6. OpsFollow' /\ DevicesFollow' /\ KernelsFollow'
  BY <1>1, <1>3, OpsKept, DevicesKept, KernelsKept DEF ModuleInv
<1>7. QED
  BY <1>1, <1>4, <1>5, <1>6 DEF ModuleInv

-----------------------------------------------------------------------------
(* Loading, and the passes that change no op.                               *)

(* A pass that leaves the ops alone. *)
LEMMA OpsLeftAlone ==
  ASSUME job \in JobType, FileFollows, ModuleInv, Becomes(body),
         NEW p \in {"shape_inference", "to_tir", "to_binary"}, Running(p),
         p = "to_tir" => Work = {} /\ \A f \in DOMAIN Graph : Graph[f].name \notin GeneratedNames
  PROVE  ModuleInv'
<1>1. /\ UNCHANGED <<job, pc, exit, body, prims>> /\ passes' = Tail(passes)
      /\ passes \in Seq(ToSet(Passes)) /\ PassesFollow
  BY DEF Becomes, ModuleInv
<1>2. /\ Ran' = Ran + 1 /\ Passes' = Passes /\ Graph' = Graph /\ Options' = Options
      /\ Loaded' /\ ~Finished' /\ WellFormedGraph(Graph)
      /\ passes' \in Seq(ToSet(Passes))
      /\ Len(passes') <= Len(Passes) /\ \A i \in DOMAIN passes' : passes'[i] = Passes[(Ran + 1) + i]
  BY <1>1, OnePassMore
<1>3. /\ p = "shape_inference" => Ran = 0
      /\ p = "to_tir" => job.emit \in {"tir", "hxb"} /\ Ran = 2
      /\ p = "to_binary" => job.emit \in LLVMStages /\ Ran = 9
  BY <1>1, PassPlace
<1>4. Loaded /\ Len(passes) \in Nat \ {0} /\ Len(Passes) \in Nat
  BY <1>1, PassRuns
<1>5. /\ Placed' <=> Placed
      /\ Linalged' <=> Linalged
      /\ Buffered' <=> Buffered
      /\ OnKernels' <=> OnKernels
      /\ Looped' <=> Looped
      /\ HasOutlines' <=> HasOutlines
      /\ InLLVM' <=> InLLVM
  <2> DEFINE r == Ran
  <2>1. r = 0 \/ (r = 2 /\ job.emit \in {"tir", "hxb"}) \/ r = 9
    BY <1>3
  <2>2. /\ Placed <=> job.emit \in {"tir", "hxb"} \cup Heterogeneous /\ r >= 2
        /\ Linalged <=> (job.emit = "linalg" /\ r >= 2) \/ (job.emit \in Heterogeneous /\ r >= 3)
        /\ Buffered <=> job.emit \in {"gpu"} \cup LLVMStages /\ r >= 5
        /\ OnKernels <=> job.emit \in {"gpu"} \cup LLVMStages /\ r >= 6
        /\ Looped <=> job.emit \in LLVMStages /\ r >= 7
        /\ HasOutlines <=> job.emit \in LLVMStages /\ r >= 8
        /\ InLLVM <=> job.emit \in LLVMStages /\ r >= 9
    BY Flags
  <2>3. /\ Placed' <=> job.emit \in {"tir", "hxb"} \cup Heterogeneous /\ r + 1 >= 2
        /\ Linalged' <=> (job.emit = "linalg" /\ r + 1 >= 2) \/ (job.emit \in Heterogeneous /\ r + 1 >= 3)
        /\ Buffered' <=> job.emit \in {"gpu"} \cup LLVMStages /\ r + 1 >= 5
        /\ OnKernels' <=> job.emit \in {"gpu"} \cup LLVMStages /\ r + 1 >= 6
        /\ Looped' <=> job.emit \in LLVMStages /\ r + 1 >= 7
        /\ HasOutlines' <=> job.emit \in LLVMStages /\ r + 1 >= 8
        /\ InLLVM' <=> job.emit \in LLVMStages /\ r + 1 >= 9
    BY <1>1, <1>2, FlagsThen
  <2> HIDE DEF r
  <2>4. QED
    BY <2>1, <2>2, <2>3 DEF Heterogeneous, LLVMStages
<1>6. PassesFollow'
  <2>1. (passes' = <<>> /\ KernelLevel') => p = "to_tir"
    <3>1. SUFFICES ASSUME passes' = <<>>, KernelLevel', p # "to_tir" PROVE FALSE
      OBVIOUS
    <3>2. job.emit \in {"tir", "hxb"} /\ p = "shape_inference" /\ Ran = 0
      BY <1>1, <1>3, <3>1 DEF KernelLevel, LLVMStages
    <3>3. Len(Passes) = 3
      BY <3>2, PassList DEF PassesSpelt
    <3>4. Len(passes') = 0
      BY <3>1
    <3>5. Len(passes') = Len(passes) - 1 
      BY <1>1, <1>4
    <3>6. QED
      BY SMTT(30), <1>4, <3>2, <3>3, <3>4, <3>5 DEF Ran
  <2>2. Work' = Work /\ GeneratedNames' = GeneratedNames
    BY <1>1 DEF Work, GeneratedNames
  <2>3. QED
    BY <1>2, <2>1, <2>2 DEF PassesFollow
<1>7. (\A i \in DOMAIN body : MadeBefore(i))'
  <2>1. \A i : MadeBefore(i) => MadeBefore(i)'
    BY <1>1, Zenon DEF MadeBefore
  <2>2. \A i \in DOMAIN body : MadeBefore(i)
    BY DEF ModuleInv
  <2>3. QED
    BY <1>1, <2>1, <2>2
<1>8. OpsFollow' /\ DevicesFollow' /\ KernelsFollow'
  BY <1>1, <1>2, <1>4, <1>5, OpsKept, DevicesKept, KernelsKept DEF ModuleInv
<1>9. QED
  BY <1>1, <1>2, <1>6, <1>7, <1>8 DEF ModuleInv

(* An op that is what was read of it. *)
LEMMA ParsedFields ==
  ASSUME NEW o, o = Parsed(o.of)
  PROVE  /\ o.op = OpAt(Graph, o.of).op /\ o.result = o.of
         /\ o.dest = <<>> /\ o.device = OpAt(Graph, o.of).device
         /\ o.form \in {"hexir", "std", "linalg"}
         /\ o.form = "linalg" => o.op = "fill"
         /\ o.op \in ComputeOps \cup {"print"} => o.form = "hexir"
         /\ o.form = "hexir" => o.op \notin {"return", "fill"}
         /\ o.args = [a \in DOMAIN OpAt(Graph, o.of).args |-> <<o.of[1], OpAt(Graph, o.of).args[a]>>]
         /\ o.callee = 0
<1>1. PICK v : v = o.of
  OBVIOUS
<1>2. o = Parsed(v)
  BY <1>1
<1>3. QED
  BY <1>1, <1>2 DEF Parsed, ComputeOps

(* The input has been read: no pass has run, and the ops are what was read. *)
LEMMA ModuleLoaded ==
  ASSUME job \in JobType, FileFollows, ModuleInv, Load, Goto("passes"), WellFormedGraph(Graph),
         body' = FlattenSeq([f \in DOMAIN Graph |-> [i \in DOMAIN Graph[f].body |-> Parsed(<<f, i>>)]]),
         passes' = Passes
  PROVE  ModuleInv'
<1>1. UNCHANGED <<job, prims, exit>> /\ pc = "load" /\ pc' = "passes" /\ exit = "running"
  BY DEF Load, Goto, FileFollows
<1>2. Graph' = Graph /\ Options' = Options /\ Passes' = Passes /\ (KernelLevel' <=> KernelLevel)
  BY <1>1 DEF Graph, Options, Passes, LinalgPasses, KernelLevel
<1>3. ~Loaded /\ Loaded' /\ ~Finished' /\ prims = <<>>
  BY <1>1 DEF Loaded, Finished, ModuleInv, PassesFollow
<1>4. Passes \in Seq(PassNames)
  BY PassList DEF PassesSpelt
<1>5. passes' \in Seq(ToSet(Passes')) /\ Len(Passes) \in Nat /\ Ran' = 0
  <2>1. \A s \in Seq(PassNames) : s \in Seq(ToSet(s)) /\ Len(s) \in Nat
    BY DEF ToSet
  <2>2. QED
    BY <1>2, <1>4, <2>1 DEF Ran
<1>6. /\ body' \in Seq(OpType)
      /\ \A k \in DOMAIN body' : body'[k].of \in Positions(Graph) /\ body'[k] = Parsed(body'[k].of)
      /\ \A k, l \in DOMAIN body' : k < l => Before(body'[k].of, body'[l].of)
      /\ \A v \in Positions(Graph) : \E k \in DOMAIN body' : body'[k].of = v
      /\ \A k \in DOMAIN body' : \A value \in ToSet(body'[k].args) :
           \E l \in 1 .. k - 1 : body'[l].result = value
  <2>1. PICK ops : ops = body'
    OBVIOUS
  <2>2. ops = FlattenSeq(ReadOf(Graph))
    BY <2>1 DEF ReadOf
  <2>3. /\ ops \in Seq(OpType)
        /\ \A k \in DOMAIN ops : ops[k].of \in Positions(Graph) /\ ops[k] = Parsed(ops[k].of)
        /\ \A k, l \in DOMAIN ops : k < l => Before(ops[k].of, ops[l].of)
        /\ \A v \in Positions(Graph) : \E k \in DOMAIN ops : ops[k].of = v
        /\ \A k \in DOMAIN ops : \A value \in ToSet(ops[k].args) :
             \E l \in 1 .. k - 1 : ops[l].result = value
    <3>1. job \in JobType /\ WellFormedGraph(Graph)
      OBVIOUS
    <3>2. QED
      BY ONLY <2>2, <3>1, LoadedOps
  <2>4. body' \in Seq(OpType)
    BY <2>1, <2>3
  <2>5. \A k \in DOMAIN body' : body'[k].of \in Positions(Graph) /\ body'[k] = Parsed(body'[k].of)
    BY <2>1, <2>3
  <2>6. \A k, l \in DOMAIN body' : k < l => Before(body'[k].of, body'[l].of)
    BY <2>1, <2>3
  <2>7. \A v \in Positions(Graph) : \E k \in DOMAIN body' : body'[k].of = v
    BY <2>1, <2>3
  <2>8. ASSUME NEW k \in DOMAIN body', NEW value \in ToSet(body'[k].args)
        PROVE  \E l \in 1 .. k - 1 : body'[l].result = value
    <3>1. k \in DOMAIN ops /\ value \in ToSet(ops[k].args)
      BY <2>1
    <3>2. PICK l \in 1 .. k - 1 : ops[l].result = value
      BY <2>3, <3>1
    <3>3. QED
      BY <2>1, <3>2
  <2>9. QED
    BY <2>4, <2>5, <2>6, <2>7, <2>8
<1>7. ~Placed' /\ ~Linalged' /\ ~Buffered' /\ ~OnKernels' /\ ~Looped' /\ ~HasOutlines' /\ ~InLLVM'
  BY <1>1, <1>5, FlagsThen
<1>8. PassesFollow'
  <2>1. passes' = <<>> => ~KernelLevel'
    <3>1. SUFFICES ASSUME passes' = <<>>, KernelLevel PROVE FALSE
      BY <1>2
    <3>2. Len(Passes) = 3
      BY <3>1, PassList DEF PassesSpelt, KernelLevel
    <3>3. Len(Passes) = 0
      BY <3>1
    <3>4. QED
      BY <3>2, <3>3
  <2>2. \A i \in DOMAIN passes' : passes'[i] = Passes'[Ran' + i]
    <3>1. \A i \in DOMAIN Passes : i \in Nat
      BY <1>4
    <3>2. \A i \in DOMAIN Passes : Ran' + i = i
      BY <1>5, <3>1
    <3>3. QED
      BY <1>2, <3>2
  <2>3. Len(passes') <= Len(Passes')
    BY <1>2, <1>5
  <2>4. QED
    BY <1>2, <1>3, <2>1, <2>2, <2>3 DEF PassesFollow
<1>9. (\A i \in DOMAIN body : MadeBefore(i))'
  <2>1. \A k \in DOMAIN body' : body'[k].dest = <<>>
    <3>1. ASSUME NEW k \in DOMAIN body' PROVE body'[k].dest = <<>>
      <4>1. body'[k] = Parsed(body'[k].of)
        BY <1>6
      <4>2. QED
        BY <4>1, ParsedFields
    <3>2. QED
      BY <3>1
  <2>2. QED
    BY <1>6, <2>1 DEF MadeBefore
<1>10. OpsFollow'
  <2>1. OpType' = OpType
    BY <1>2 DEF OpType, Values, Positions
  <2>2. ASSUME NEW i \in DOMAIN body'
        PROVE  AsRead(body[i])'
    <3>1. body'[i] = Parsed(body'[i].of)
      BY <1>6
    <3>2. \A v : Parsed(v)' = Parsed(v)
      BY <1>2 DEF Parsed
    <3>3. PICK o : o = body'[i]
      OBVIOUS
    <3>4. o = Parsed(o.of) /\ o.dest = <<>> /\ o.result = o.of
      BY <3>1, <3>3, ParsedFields
    <3>5. AsRead(o)'
      BY <1>2, <3>2, <3>4 DEF AsRead
    <3>6. QED
      BY <3>3, <3>5
  <2>3. ASSUME NEW v \in Positions(Graph)
        PROVE  \E i \in DOMAIN body' : body'[i].of = v /\ body'[i].op = OpAt(Graph, v).op
    <3>1. PICK i \in DOMAIN body' : body'[i].of = v
      BY <1>6
    <3>2. body'[i] = Parsed(body'[i].of)
      BY <1>6
    <3>3. QED
      BY <3>1, <3>2, ParsedFields
  <2>4. QED
    BY <1>2, <1>3, <1>6, <1>7, <2>1, <2>2, <2>3 DEF OpsFollow
<1>11. ASSUME NEW i \in DOMAIN body'
       PROVE  /\ body'[i].device = OpAt(Graph, body'[i].of).device
              /\ body'[i].form \in {"hexir", "std", "linalg"}
  <2>1. body'[i] = Parsed(body'[i].of)
    BY <1>6
  <2>2. QED
    BY <2>1, ParsedFields
<1>12. DevicesFollow'
  BY <1>2, <1>7, <1>11 DEF DevicesFollow, DeviceFollows, Input, OnGpu
<1>13. KernelsFollow'
  <2>1. Calls' = {} /\ {body[i].of : i \in Calls}' = {}
    BY <1>11 DEF Calls
  <2>2. Len(prims') = 0
    BY <1>1, <1>3
  <2>3. DOMAIN prims' = {}
    BY <1>1, <1>3
  <2>4. QED
    BY <2>1, <2>2, <2>3, FS_EmptySet DEF KernelsFollow
<1>14. QED
  BY <1>1, <1>5, <1>8, <1>9, <1>10, <1>12, <1>13 DEF ModuleInv

-----------------------------------------------------------------------------
(* The passes that put one op in the place of each.                         *)

(* A pass that makes one op of each. *)
LEMMA OneByOne ==
  ASSUME body \in Seq(OpType), NEW R, DOMAIN R = DOMAIN body, \A i \in DOMAIN body : R[i] \in OpType,
         NEW ops, ops = FlattenSeq([i \in DOMAIN body |-> <<R[i]>>])
  PROVE  /\ ops \in Seq(OpType) /\ DOMAIN ops = DOMAIN body
         /\ \A i \in DOMAIN body : ops[i] = R[i]
<1> DEFINE n == Len(body)
           seqs == [i \in 1 .. n |-> <<R[i]>>]
           T == OpType
<1>1. n \in Nat /\ DOMAIN body = 1 .. n
  OBVIOUS
<1>2. \A i \in 1 .. n : <<R[i]>> \in Seq(T) /\ Len(<<R[i]>>) = 1 /\ <<R[i]>>[1] = R[i]
  BY <1>1
<1> HIDE DEF n, T
<1>3. seqs \in Seq(Seq(T)) /\ Len(seqs) = n /\ \A i \in 1 .. n : seqs[i] = <<R[i]>>
  BY <1>1, <1>2
<1>4. ops = FlattenSeq(seqs)
  BY <1>1
<1> HIDE DEF seqs
<1>5. \A i \in 1 .. Len(seqs) : Len(seqs[i]) = 1
  BY <1>2, <1>3
<1>6. /\ ops \in Seq(T) /\ Len(ops) = n
      /\ \A i \in 1 .. n : ops[i] = seqs[i][1]
  <2>1. /\ FlattenSeq(seqs) \in Seq(T) /\ Len(FlattenSeq(seqs)) = Len(seqs)
        /\ \A i \in 1 .. Len(seqs) : FlattenSeq(seqs)[i] = seqs[i][1]
    BY ONLY <1>3, <1>5, FlattenSingles
  <2>2. QED
    BY <1>3, <1>4, <2>1
<1>7. DOMAIN ops = 1 .. n
  BY <1>1, <1>6
<1>8. QED
  BY <1>1, <1>2, <1>3, <1>6, <1>7 DEF T

(* They replace each op by one op. *)
OneByOnePasses == {"partition", "bufferize", "cuda_to_gpu", "to_loops", "outline", "to_llvm"}

(* No kernel is called yet, or none ever will be. *)
LEMMA NoCallsYet ==
  ASSUME job \in JobType, FileFollows, ModuleInv, NEW p \in OneByOnePasses \cup {"to_linalg"}, Running(p)
  PROVE  Calls = {} /\ Len(prims) = 0
<1>1. passes \in Seq(ToSet(Passes)) /\ PassesFollow /\ KernelsFollow
  BY DEF ModuleInv
<1>2. job.emit \in {"tir", "hxb"} => Ran = 1
  BY <1>1, PassPlace DEF OneByOnePasses, Heterogeneous, LLVMStages
<1>3. ~(KernelLevel /\ Placed)
  BY <1>2, Flags
<1>4. Calls = {}
  BY <1>1, <1>3 DEF KernelsFollow
<1>5. {body[i].of : i \in Calls} = {}
  BY <1>4
<1>6. Len(prims) = 0
  BY <1>1, <1>5, FS_EmptySet DEF KernelsFollow
<1>7. QED
  BY <1>4, <1>6

(* What such a pass does not touch. *)
LEMMA PassOneByOne ==
  ASSUME job \in JobType, FileFollows, ModuleInv, NEW p \in OneByOnePasses, Running(p),
         UNCHANGED <<job, pc, exit, prims>>, passes' = Tail(passes), DOMAIN body' = DOMAIN body,
         \A i \in DOMAIN body : body'[i].form = "call" => body[i].form = "call"
  PROVE  /\ (passes \in Seq(ToSet(Passes)) /\ prims \in Seq(PrimType) /\ PassesFollow /\ KernelsFollow)'
         /\ Ran' = Ran + 1 /\ Graph' = Graph /\ Options' = Options /\ Loaded /\ Loaded'
<1>1. /\ passes \in Seq(ToSet(Passes)) /\ prims \in Seq(PrimType) /\ PassesFollow /\ KernelsFollow
  BY DEF ModuleInv
<1>2. /\ Ran' = Ran + 1 /\ Passes' = Passes /\ Graph' = Graph /\ Options' = Options
      /\ Loaded' /\ ~Finished' /\ WellFormedGraph(Graph)
      /\ passes' \in Seq(ToSet(Passes))
      /\ Len(passes') <= Len(Passes) /\ \A i \in DOMAIN passes' : passes'[i] = Passes[(Ran + 1) + i]
  BY <1>1, OnePassMore
<1>3. Loaded /\ Len(passes) \in Nat \ {0} /\ Len(Passes) \in Nat
  BY <1>1, PassRuns
<1>4. PassesFollow'
  <2>1. (passes' = <<>> /\ KernelLevel') => FALSE
    <3>1. SUFFICES ASSUME passes' = <<>>, KernelLevel' PROVE FALSE
      OBVIOUS
    <3>2. job.emit \in {"tir", "hxb"} /\ Ran = 1
      BY <1>1, <3>1, PassPlace DEF KernelLevel, LLVMStages, OneByOnePasses, Heterogeneous
    <3>3. Len(Passes) >= 3
      BY <3>2, PassList DEF PassesSpelt
    <3>4. Len(passes') <= 0
      BY ONLY <3>1
    <3>5. Len(passes') = Len(passes) - 1
      BY <1>1, <1>3
    <3>6. Len(Passes) - Len(passes) = 1
      BY <3>2 DEF Ran
    <3>7. QED
      BY <1>3, <3>3, <3>4, <3>5, <3>6
  <2>2. QED
    BY <1>2, <2>1 DEF PassesFollow
<1>5. KernelsFollow'
  <2>1. Calls = {} /\ Len(prims) = 0
    BY NoCallsYet
  <2>2. Calls' = {}
    BY <2>1 DEF Calls
  <2>3. {body[i].of : i \in Calls}' = {}
    BY <2>2
  <2>4. DOMAIN prims' = {}
    <3>1. PICK made \in Seq(PrimType) : made = prims
      BY <1>1
    <3>2. DOMAIN made = {}
      BY <2>1, <3>1
    <3>3. QED
      BY <3>1, <3>2
  <2>5. QED
    BY <2>1, <2>2, <2>3, <2>4, FS_EmptySet DEF KernelsFollow
<1>6. QED
  BY <1>1, <1>2, <1>3, <1>4, <1>5

(* An op that keeps its values still finds them made before it. *)
LEMMA ValuesKept ==
  ASSUME \A i \in DOMAIN body : MadeBefore(i), body \in Seq(OpType), DOMAIN body' = DOMAIN body,
         \A i \in DOMAIN body : /\ body'[i].result = body[i].result /\ body'[i].args = body[i].args
                                /\ body'[i].dest = body[i].dest
  PROVE  (\A i \in DOMAIN body : MadeBefore(i))'
<1>1. DOMAIN body = 1 .. Len(body) /\ Len(body) \in Nat
  OBVIOUS
<1>2. SUFFICES ASSUME NEW i \in DOMAIN body,
                      NEW value \in ToSet(body'[i].args) \cup ({body'[i].dest} \ {<<>>})
               PROVE  \E j \in 1 .. i - 1 : body'[j].result = value
  BY DEF MadeBefore
<1>3. value \in ToSet(body[i].args) \cup ({body[i].dest} \ {<<>>})
  OBVIOUS
<1>4. PICK j \in 1 .. i - 1 : body[j].result = value
  BY <1>3 DEF MadeBefore
<1>5. j \in DOMAIN body
  BY <1>1, <1>4
<1>6. QED
  BY <1>4, <1>5

-----------------------------------------------------------------------------
(* Partition.                                                               *)

(* The placement of an op is the device it has, or the preferred one. *)
LEMMA PlacedSomewhere ==
  ASSUME job \in JobType, Resolved, pc \in PastTheLine, preferred \in [RegisteredOps -> Devices],
         NEW v \in Positions(Graph), OpAt(Graph, v).op \in ComputeOps \cup {"print"}
  PROVE  LET operation == OpAt(Graph, v)
             placed == Placement(Options, operation)
         IN /\ placed \in Devices \cup {"gpu"}
            /\ operation.device # "none" => placed = operation.device
            /\ operation.device = "none" =>
                 placed = IF operation.op = "print" THEN "cpu" ELSE preferred[operation.op]
<1> DEFINE operation == OpAt(Graph, v)
<1>1. operation \in GraphOpType
  BY PositionTyped
<1>2. operation.device \in Devices \cup {"gpu", "none"}
  BY <1>1 DEF GraphOpType
<1>3. CASE operation.device # "none"
  BY <1>2, <1>3 DEF Placement
<1>4. CASE operation.device = "none" /\ operation.op \in ComputeOps
  <2>1. v \in Compute(Graph) /\ operation.op # "print" /\ operation.op \in RegisteredOps
    BY <1>4 DEF Compute, ComputeOps, RegisteredOps
  <2>2. preferred[operation.op] = Placement(Options, operation)
    BY <1>4, <2>1 DEF Resolved
  <2> HIDE DEF operation
  <2>3. preferred[operation.op] \in Devices
    BY <2>1
  <2>4. QED
    BY <1>4, <2>1, <2>2, <2>3 DEF operation
<1>5. CASE operation.device = "none" /\ operation.op = "print"
  <2>1. Options.placements \in Seq(PlacementType)
    BY LineType
  <2>2. {i \in DOMAIN Options.placements : Options.placements[i].op = "print"} = {}
    <3>1. \A e \in PlacementType : e.op # "print"
      BY DEF PlacementType, ComputeOps, LinalgOps
    <3>2. \A i \in DOMAIN Options.placements : Options.placements[i] \in PlacementType
      BY <2>1
    <3>3. QED
      BY <3>1, <3>2
  <2>3. Placement(Options, operation) = "cpu"
    BY <1>5, <2>2 DEF Placement
  <2>4. QED
    BY <1>5, <2>3 DEF Devices
<1>6. QED
  BY <1>3, <1>4, <1>5 DEF operation

(* The device Partition assigns. *)
LEMMA Assigned ==
  ASSUME preferred \in [RegisteredOps -> Devices], NEW o
  PROVE  /\ AssignDevice(o) \in Devices
         /\ o.form = "hexir" /\ o.op = "print" => AssignDevice(o) = "cpu"
         /\ o.form = "linalg" /\ o.op = "fill" => AssignDevice(o) = "cpu"
         /\ o.form = "hexir" /\ o.op \in ComputeOps => AssignDevice(o) = preferred[o.op]
<1>1. PICK name : name = IF o.form = "linalg" THEN LinalgName[o.op] ELSE o.op
  OBVIOUS
<1>2. AssignDevice(o) =
        IF name \in RegisteredOps /\ preferred[name] \in Supports[name] THEN preferred[name] ELSE "cpu"
  BY <1>1 DEF AssignDevice
<1>3. Devices = {"cpu", "cuda"}
  BY DEF Devices
<1>4. name \in RegisteredOps => Supports[name] = {"cpu", "cuda"} /\ preferred[name] \in {"cpu", "cuda"}
  BY <1>3 DEF Supports
<1>5. "print" \notin RegisteredOps /\ "linalg.fill" \notin RegisteredOps
  BY DEF RegisteredOps, ComputeOps, LinalgOps
<1>6. o.form = "linalg" /\ o.op = "fill" => name = "linalg.fill"
  BY <1>1 DEF LinalgName
<1>7. o.form = "hexir" => name = o.op
  BY <1>1
<1>8. ComputeOps \subseteq RegisteredOps
  BY DEF RegisteredOps
<1>9. QED
  BY <1>2, <1>3, <1>4, <1>5, <1>6, <1>7, <1>8

(* What Partition makes of an op. *)
PlacedOp(o) ==
  IF o.form \in {"hexir", "linalg"} /\ o.device = "none" THEN [o EXCEPT !.device = AssignDevice(o)] ELSE o

(* Partition changes the device of an op only. *)
LEMMA PlacedFields ==
  ASSUME preferred \in [RegisteredOps -> Devices], NEW o \in OpType
  PROVE  LET q == PlacedOp(o)
         IN /\ q \in OpType /\ q.op = o.op /\ q.form = o.form /\ q.of = o.of /\ q.result = o.result
            /\ q.args = o.args /\ q.dest = o.dest /\ q.callee = o.callee
            /\ q.device = IF o.form \in {"hexir", "linalg"} /\ o.device = "none" THEN AssignDevice(o) ELSE o.device
<1>1. PICK d : d = AssignDevice(o)
  OBVIOUS
<1>2. d \in Devices
  BY <1>1, Assigned
<1>3. PlacedOp(o) = IF o.form \in {"hexir", "linalg"} /\ o.device = "none" THEN [o EXCEPT !.device = d] ELSE o
  BY <1>1 DEF PlacedOp
<1>4. QED
  BY <1>1, <1>2, <1>3 DEF OpType

(* What AsRead says of each field. *)
LEMMA ReadFields ==
  ASSUME NEW o, AsRead(o)
  PROVE  /\ o.op = Input(o).op /\ o.result = o.of /\ o.dest = <<>>
         /\ o.form \in {"hexir", "std", "linalg", "call"}
         /\ o.form = "linalg" => o.op = "fill"
         /\ o.form = "call" => o.op \in ComputeOps
         /\ o.op \in ComputeOps \cup {"print"} => o.form \in {"hexir", "call"}
         /\ o.op = "print" => o.form = "hexir"
         /\ o.form = "hexir" => o.op \notin {"return", "fill"}
         /\ o.args = [a \in DOMAIN Input(o).args |-> <<o.of[1], Input(o).args[a]>>]
<1>1. PICK r : r = Parsed(o.of)
  OBVIOUS
<1>2. r.of = o.of
  BY <1>1 DEF Parsed
<1>3. r = Parsed(r.of)
  BY <1>1, <1>2
<1>4. /\ r.op = OpAt(Graph, r.of).op /\ r.result = r.of
      /\ r.form \in {"hexir", "std", "linalg"}
      /\ r.form = "linalg" => r.op = "fill"
      /\ r.op \in ComputeOps \cup {"print"} => r.form = "hexir"
      /\ r.form = "hexir" => r.op \notin {"return", "fill"}
      /\ r.args = [a \in DOMAIN OpAt(Graph, r.of).args |-> <<r.of[1], OpAt(Graph, r.of).args[a]>>]
  BY <1>3, ParsedFields
<1>5. /\ o.op = r.op /\ o.args = r.args /\ o.result = o.of /\ o.dest = <<>>
      /\ o.form = r.form \/ (o.form = "call" /\ r.op \in ComputeOps)
  BY <1>1 DEF AsRead
<1>6. Input(o) = OpAt(Graph, o.of)
  BY DEF Input
<1>7. "print" \notin ComputeOps /\ "return" \notin ComputeOps /\ "fill" \notin ComputeOps
  BY DEF ComputeOps
<1>8. QED
  BY <1>2, <1>4, <1>5, <1>6, <1>7

(* Reading is a matter of the form and the device. *)
LEMMA ReadStays ==
  ASSUME NEW o, AsRead(o), NEW q, q.op = o.op, q.of = o.of, q.result = o.result, q.args = o.args,
         q.dest = o.dest, q.form = o.form, Graph' = Graph
  PROVE  AsRead(q)'
<1>1. PICK v : v = q.of
  OBVIOUS
<1>2. Parsed(v)' = Parsed(v)
  BY DEF Parsed
<1>3. QED
  BY <1>1, <1>2 DEF AsRead

(* Before the lowering to linalg ... *)
LEMMA PlacedBefore ==
  ASSUME job \in JobType, Resolved, pc \in PastTheLine, preferred \in [RegisteredOps -> Devices],
         NEW o \in OpType, AsRead(o), o.form # "call", DeviceFollows(o), ~Placed, ~Linalged,
         Graph' = Graph, Options' = Options,
         Placed', ~Linalged', ~OnKernels', ~HasOutlines', ~InLLVM',
         NEW q, q = PlacedOp(o)
  PROVE  AsRead(q)' /\ DeviceFollows(q)'
<1>1. /\ q.op = o.op /\ q.form = o.form /\ q.of = o.of /\ q.result = o.result
      /\ q.args = o.args /\ q.dest = o.dest
      /\ q.device = IF o.form \in {"hexir", "linalg"} /\ o.device = "none" THEN AssignDevice(o) ELSE o.device
  BY PlacedFields
<1>2. AsRead(q)'
  BY <1>1, ReadStays
<1>3. /\ o.op = Input(o).op
      /\ o.form \in {"hexir", "std", "linalg", "call"}
      /\ o.op \in ComputeOps \cup {"print"} => o.form \in {"hexir", "call"}
  BY ReadFields
<1>4. o.device = Input(o).device
  BY DEF DeviceFollows
<1>5. o.of \in Positions(Graph) /\ Input(o) = OpAt(Graph, o.of)
  BY DEF OpType, Input
<1>6. ASSUME o.op \in ComputeOps \cup {"print"}
      PROVE  q.device = Placement(Options, Input(o))
  <2>1. o.form = "hexir"
    BY <1>3, <1>6
  <2>2. /\ Input(o).device # "none" => Placement(Options, Input(o)) = Input(o).device
        /\ Input(o).device = "none" =>
             Placement(Options, Input(o)) = IF o.op = "print" THEN "cpu" ELSE preferred[o.op]
    BY <1>3, <1>5, <1>6, PlacedSomewhere
  <2>3. /\ o.op = "print" => AssignDevice(o) = "cpu"
        /\ o.op \in ComputeOps => AssignDevice(o) = preferred[o.op]
    BY <2>1, Assigned
  <2>4. QED
    BY <1>1, <1>4, <1>6, <2>1, <2>2, <2>3 DEF ComputeOps
<1>7. Input(q)' = Input(o) /\ (Computes(q)' => o.op \in ComputeOps)
  <2>1. Input(q)' = Input(o)
    BY <1>1 DEF Input
  <2>2. Computes(q)' => Input(o).op \in ComputeOps
    BY <2>1 DEF Computes
  <2>3. QED
    BY <1>3, <2>1, <2>2
<1>8. ~OnGpu(q) /\ q.form \notin {"llvm", "kernel", "launch"}
  BY <1>1, <1>3 DEF OnGpu
<1>9. Placement(Options, Input(q))' = Placement(Options, Input(o))
  BY <1>7
<1>10. OnGpu(q)' <=> OnGpu(q)
  BY DEF OnGpu
<1>11. QED
  BY <1>1, <1>2, <1>6, <1>7, <1>8, <1>9, <1>10 DEF DeviceFollows

(* An op that is as lowered stays so when only its form and its device change. *)
LEMMA LoweredStays ==
  ASSUME NEW o, AsLowered(o), NEW q, q.op = o.op, q.of = o.of, q.result = o.result, q.args = o.args,
         q.dest = o.dest, q.form \in {"hexir", "linalg"} => q.form = o.form, Graph' = Graph,
         AsDestination(o) => q.device \in {"none", "cpu"}, Buffered' <=> Buffered
  PROVE  AsLowered(q)'
<1>1. Input(q)' = Input(o)
  BY DEF Input
<1>2. AsDestination(o) => AsDestination(q)'
  BY <1>1 DEF AsDestination
<1>0. Operands(q)' = Operands(o)
  BY OperandsStay
<1>3. AsKernel(o) => AsKernel(q)'
  BY <1>0, <1>1 DEF AsKernel
<1>4. QED
  BY <1>0, <1>1, <1>2, <1>3 DEF AsLowered

(* An op that computes works into its destination by then. *)
LEMMA LoweredComputes ==
  ASSUME NEW o, AsLowered(o), Computes(o)
  PROVE  AsKernel(o) /\ o.op \in {"matmul", "add", "relu"}
<1>1. \A op \in ComputeOps : {op, KernelOf(op)} \subseteq {"linear", "matmul", "add", "relu"}
      /\ KernelOf(op) \in {"matmul", "add", "relu"}
  BY DEF ComputeOps, KernelOf
<1>2. Input(o).op \in ComputeOps /\ o.op \in {"linear", "matmul", "add", "relu"}
  BY <1>1 DEF Computes
<1>3. ~AsDestination(o)
  BY <1>2 DEF AsDestination
<1>4. "constant" \notin ComputeOps /\ "print" \notin ComputeOps /\ "return" \notin ComputeOps /\ "fill" \notin ComputeOps
  BY DEF ComputeOps
<1>5. AsKernel(o)
  BY <1>2, <1>3, <1>4 DEF AsLowered
<1>6. QED
  BY <1>1, <1>2, <1>5 DEF AsKernel

(* The second partition, between the lowering to linalg and the GPU. *)
LEMMA PlacedBetween ==
  ASSUME job \in JobType, Resolved, pc \in PastTheLine, preferred \in [RegisteredOps -> Devices],
         NEW o \in OpType, AsLowered(o), DeviceFollows(o), Placed, Linalged, ~OnKernels, ~Looped,
         Graph' = Graph, Options' = Options, Buffered' <=> Buffered, InLLVM' <=> InLLVM,
         Linalged', ~OnKernels', ~HasOutlines',
         NEW q, q = PlacedOp(o)
  PROVE  AsLowered(q)' /\ DeviceFollows(q)'
<1>1. /\ q.op = o.op /\ q.form = o.form /\ q.of = o.of /\ q.result = o.result
      /\ q.args = o.args /\ q.dest = o.dest
      /\ q.device = IF o.form \in {"hexir", "linalg"} /\ o.device = "none" THEN AssignDevice(o) ELSE o.device
  BY PlacedFields
<1>2. o.of \in Positions(Graph) /\ Input(o) = OpAt(Graph, o.of)
  BY DEF OpType, Input
<1>3. AsDestination(o) => q.device \in {"none", "cpu"}
  <2>1. SUFFICES ASSUME AsDestination(o) PROVE q.device \in {"none", "cpu"}
    OBVIOUS
  <2>2. o.device \in {"none", "cpu"} /\ o.op # "print" /\ (o.form = "linalg" => o.op = "fill")
    BY <2>1 DEF AsDestination
  <2>3. o.form # "hexir"
    BY <2>2 DEF AsLowered
  <2>4. o.form = "linalg" => AssignDevice(o) = "cpu"
    BY <2>2, Assigned
  <2>5. QED
    BY <1>1, <2>2, <2>3, <2>4
<1>4. AsLowered(q)'
  BY <1>1, <1>3, LoweredStays
<1>5. Input(q)' = Input(o) /\ (Computes(q)' <=> Computes(o)) /\ (OnGpu(q)' <=> OnGpu(o))
      /\ Placement(Options, Input(q))' = Placement(Options, Input(o))
  <2>1. Input(q)' = Input(o)
    BY <1>1 DEF Input
  <2>2. QED
    BY <1>1, <2>1 DEF Computes, OnGpu
<1>6. Computes(o) \/ o.op = "print" => Input(o).op \in ComputeOps \cup {"print"}
  <2>1. Computes(o) => Input(o).op \in ComputeOps
    BY DEF Computes
  <2>2. o.op = "print" => ~AsDestination(o)
    BY DEF AsDestination
  <2>3. o.op = "print" => ~(AsKernel(o) /\ Input(o).op \in ComputeOps)
    BY DEF AsKernel, ComputeOps, KernelOf
  <2>4. QED
    BY <2>1, <2>2, <2>3 DEF AsLowered
<1>7. Computes(o) \/ o.op = "print" => q.device = Placement(Options, Input(o))
  <2>1. SUFFICES ASSUME Computes(o) \/ o.op = "print" PROVE q.device = Placement(Options, Input(o))
    OBVIOUS
  <2>2. Placement(Options, Input(o)) \in Devices \cup {"gpu"}
    BY <1>2, <1>6, <2>1, PlacedSomewhere
  <2>3. o.device = Placement(Options, Input(o))
    BY <2>1 DEF DeviceFollows
  <2>4. QED
    BY <1>1, <2>2, <2>3 DEF Devices
<1>8. DeviceFollows(q)'
  BY <1>1, <1>5, <1>7 DEF DeviceFollows
<1>9. QED
  BY <1>4, <1>8

(* The ops of the lowered module are the ones of the input as long as no pass
   loses one. *)
LEMMA LoweredModule ==
  ASSUME OpsFollow, Loaded, Loaded', Linalged, Linalged', Graph' = Graph,
         body' \in Seq(OpType), DOMAIN body' = DOMAIN body,
         \A i \in DOMAIN body : /\ body'[i].of = body[i].of /\ body'[i].dest = body[i].dest
                                /\ body[i].op # "zeros" => body'[i].op = body[i].op
                                /\ AsLowered(body[i])'
  PROVE  OpsFollow'
<1>1. OpType' = OpType
  BY DEF OpType, Values, Positions
<1>2. \A v \in Positions(Graph) : \E i \in DOMAIN body :
         body[i].of = v /\ body[i].op = KernelOf(OpAt(Graph, v).op)
  BY DEF OpsFollow
<1>3. ASSUME NEW v \in Positions(Graph)
      PROVE  \E i \in DOMAIN body' : body'[i].of = v /\ body'[i].op = KernelOf(OpAt(Graph, v).op)
  <2>1. PICK i \in DOMAIN body : body[i].of = v /\ body[i].op = KernelOf(OpAt(Graph, v).op)
    BY <1>2
  <2>2. CASE body[i].op # "zeros"
    BY <2>1, <2>2
  <2>3. CASE body[i].op = "zeros"
    <3>1. AsLowered(body[i])
      BY DEF OpsFollow
    <3>2. AsDestination(body[i]) \/ AsKernel(body[i]) \/ body[i].op # "zeros"
      BY <3>1 DEF AsLowered
    <3>3. Input(body[i]).op = OpAt(Graph, v).op
      BY <2>1 DEF Input
    <3>4. QED
      BY <2>1, <2>3, <3>1, <3>2, <3>3 DEF AsLowered, ComputeOps, KernelOf
  <2>4. QED
    BY <2>2, <2>3
<1>4. \A i, j \in DOMAIN body' : i < j =>
        \/ Before(body'[i].of, body'[j].of)
        \/ body'[i].of = body'[j].of /\ body'[i].dest = <<>> /\ body'[j].dest # <<>>
  BY DEF OpsFollow
<1>5. QED
  BY <1>1, <1>3, <1>4 DEF OpsFollow

(* Partition keeps the invariant of the module. *)
LEMMA PartitionKeeps ==
  ASSUME job \in JobType, FileFollows, Resolved, preferred \in [RegisteredOps -> Devices], ModuleInv, Partition
  PROVE  ModuleInv'
<1>1. /\ Running("partition") /\ UNCHANGED <<job, pc, exit, prims>> /\ passes' = Tail(passes)
      /\ body' = FlattenSeq([i \in DOMAIN body |-> Place(body[i])])
  BY DEF Partition, Becomes, Rewritten
<1>2. OpsFollow /\ DevicesFollow /\ body \in Seq(OpType) /\ \A i \in DOMAIN body : MadeBefore(i)
  BY DEF ModuleInv, OpsFollow
<1>3. \A i \in DOMAIN body : body[i] \in OpType
  BY <1>2
<1> DEFINE R == [i \in DOMAIN body |-> PlacedOp(body[i])]
<1>4. DOMAIN R = DOMAIN body /\ \A i \in DOMAIN body : R[i] \in OpType
  BY <1>3, PlacedFields
<1>5. [i \in DOMAIN body |-> Place(body[i])] = [i \in DOMAIN body |-> <<R[i]>>]
  <2>1. \A i \in DOMAIN body : Place(body[i]) = <<R[i]>>
    BY DEF Place, PlacedOp
  <2> HIDE DEF R
  <2>2. QED
    BY <2>1
<1>6. body' = FlattenSeq([i \in DOMAIN body |-> <<R[i]>>])
  BY <1>1, <1>5
<1>7. /\ body' \in Seq(OpType) /\ DOMAIN body' = DOMAIN body
      /\ \A i \in DOMAIN body : body'[i] = PlacedOp(body[i])
  <2>1. PICK ops : ops = body'
    OBVIOUS
  <2> HIDE DEF R
  <2>2. ops = FlattenSeq([i \in DOMAIN body |-> <<R[i]>>])
    BY <1>6, <2>1
  <2>3. ops \in Seq(OpType) /\ DOMAIN ops = DOMAIN body /\ \A i \in DOMAIN body : ops[i] = R[i]
    BY ONLY <1>2, <1>4, <2>2, OneByOne
  <2>4. QED
    BY <2>1, <2>3 DEF R
<1> HIDE DEF R
<1>8. ASSUME NEW i \in DOMAIN body
      PROVE  /\ body'[i].op = body[i].op /\ body'[i].form = body[i].form /\ body'[i].of = body[i].of
             /\ body'[i].result = body[i].result /\ body'[i].args = body[i].args /\ body'[i].dest = body[i].dest
  BY <1>3, <1>7, PlacedFields
<1>9. /\ (passes \in Seq(ToSet(Passes)) /\ prims \in Seq(PrimType) /\ PassesFollow /\ KernelsFollow)'
      /\ Ran' = Ran + 1 /\ Graph' = Graph /\ Options' = Options /\ Loaded /\ Loaded'
  BY <1>1, <1>7, <1>8, PassOneByOne DEF OneByOnePasses
<1>10. (\A i \in DOMAIN body : MadeBefore(i))'
  BY <1>2, <1>7, <1>8, ValuesKept
<1>11. pc \in PastTheLine /\ Calls = {}
  BY <1>1, NoCallsYet DEF Running, PastTheLine, OneByOnePasses
<1>12. \/ job.emit \in {"tir", "hxb"} /\ Ran = 1
       \/ job.emit \in Heterogeneous /\ Ran \in {1, 3}
  BY <1>1, PassPlace DEF ModuleInv
<1>13. CASE Ran = 1
  <2>1. ~Placed /\ ~Linalged /\ Placed' /\ ~Linalged' /\ ~OnKernels' /\ ~HasOutlines' /\ ~InLLVM'
    <3>1. ~Placed /\ ~Linalged
      BY <1>12, <1>13, Flags DEF Heterogeneous
    <3>2. Ran' = 2
      BY <1>9, <1>13
    <3>3. QED
      BY <1>1, <1>12, <3>1, <3>2, FlagsThen DEF Heterogeneous
  <2>2. ASSUME NEW i \in DOMAIN body
        PROVE  AsRead(body[i])' /\ DeviceFollows(body[i])'
    <3>1. PICK o : o = body[i]
      OBVIOUS
    <3>2. PICK q : q = body'[i]
      OBVIOUS
    <3>3. o \in OpType /\ AsRead(o) /\ DeviceFollows(o) /\ q = PlacedOp(o)
      BY <1>2, <1>3, <1>7, <2>1, <3>1, <3>2 DEF OpsFollow, DevicesFollow
    <3>4. o.form # "call"
      BY <1>11, <3>1 DEF Calls
    <3>5. AsRead(q)' /\ DeviceFollows(q)'
      BY <1>9, <1>11, <2>1, <3>3, <3>4, PlacedBefore
    <3>6. QED
      BY <3>2, <3>5
  <2>3. OpType' = OpType
    BY <1>9 DEF OpType, Values, Positions
  <2>4. OpsFollow'
    <3>1. \A i, j \in DOMAIN body' : i < j => Before(body'[i].of, body'[j].of)
      BY <1>2, <1>7, <1>8, <2>1 DEF OpsFollow
    <3>2. ASSUME NEW v \in Positions(Graph)
          PROVE  \E i \in DOMAIN body' : body'[i].of = v /\ body'[i].op = OpAt(Graph, v).op
      <4>1. PICK i \in DOMAIN body : body[i].of = v /\ body[i].op = OpAt(Graph, v).op
        BY <1>2, <1>9, <2>1 DEF OpsFollow
      <4>2. QED
        BY <1>7, <1>8, <4>1
    <3>3. QED
      BY <1>7, <1>9, <2>1, <2>2, <2>3, <3>1, <3>2 DEF OpsFollow
  <2>5. DevicesFollow'
    BY <1>7, <2>2 DEF DevicesFollow
  <2>6. QED
    BY <1>9, <1>10, <2>4, <2>5 DEF ModuleInv
<1>14. CASE Ran = 3 /\ job.emit \in Heterogeneous
  <2>1. /\ Placed /\ Linalged /\ ~OnKernels /\ ~Looped /\ ~Buffered /\ ~InLLVM
        /\ Linalged' /\ ~OnKernels' /\ ~HasOutlines' /\ ~Buffered' /\ ~InLLVM'
    <3>1. Placed /\ Linalged /\ ~OnKernels /\ ~Looped /\ ~Buffered /\ ~InLLVM
      BY <1>14, Flags
    <3>2. Ran' = 4
      BY <1>9, <1>14
    <3>3. QED
      BY <1>1, <1>14, <3>1, <3>2, FlagsThen
  <2>2. ASSUME NEW i \in DOMAIN body
        PROVE  AsLowered(body[i])' /\ DeviceFollows(body[i])'
    <3>1. PICK o : o = body[i]
      OBVIOUS
    <3>2. PICK q : q = body'[i]
      OBVIOUS
    <3>3. o \in OpType /\ AsLowered(o) /\ DeviceFollows(o) /\ q = PlacedOp(o)
      BY <1>2, <1>3, <1>7, <2>1, <3>1, <3>2 DEF OpsFollow, DevicesFollow
    <3>5. AsLowered(q)' /\ DeviceFollows(q)'
      BY <1>9, <1>11, <2>1, <3>3, PlacedBetween
    <3>6. QED
      BY <3>2, <3>5
  <2>3. OpsFollow'
    BY <1>2, <1>7, <1>8, <1>9, <2>1, <2>2, LoweredModule
  <2>4. DevicesFollow'
    BY <1>7, <2>2 DEF DevicesFollow
  <2>5. QED
    BY <1>9, <1>10, <2>3, <2>4 DEF ModuleInv
<1>15. QED
  BY <1>12, <1>13, <1>14

-----------------------------------------------------------------------------
(* Bufferize.                                                               *)

(* The name of a destination is not that of an op. *)
LEMMA NotAPosition ==
  ASSUME job \in JobType, NEW v \in Positions(Graph)
  PROVE  Append(v, "init") \notin Positions(Graph) /\ Append(v, "init") # <<>>
<1>1. v = <<v[1], v[2]>>
  BY PositionTyped
<1>2. PICK a, b : v = <<a, b>>
  BY <1>1
<1> DEFINE T == {a, b, "init"}
<1>3. v \in Seq(T) /\ Len(v) >= 2 /\ "init" \in T
  BY <1>2
<1> HIDE DEF T
<1>4. Len(Append(v, "init")) >= 3
  BY <1>3
<1>5. ASSUME Append(v, "init") \in Positions(Graph) PROVE FALSE
  <2>1. PICK w \in Positions(Graph) : w = Append(v, "init")
    BY <1>5
  <2>2. w = <<w[1], w[2]>>
    BY PositionTyped
  <2>3. PICK c, d : w = <<c, d>>
    BY <2>2
  <2>4. Len(w) <= 2
    BY <2>3
  <2>5. QED
    BY <1>4, <2>1, <2>4
<1>6. Append(v, "init") # <<>>
  <2>1. PICK w : w = Append(v, "init")
    OBVIOUS
  <2>2. Len(w) >= 3
    BY <1>4, <2>1
  <2>3. w # <<>>
    BY <2>2
  <2>4. QED
    BY <2>1, <2>3
<1>7. QED
  BY <1>5, <1>6

(* The ops that work into a buffer before the bufferization are the kernels. *)
LEMMA Makers ==
  ASSUME job \in JobType, OpsFollow, Linalged, ~Buffered, NEW i \in DOMAIN body, body[i].dest # <<>>
  PROVE  /\ AsKernel(body[i]) /\ Input(body[i]).op \in ComputeOps
         /\ body[i].result = body[i].of /\ body[i].dest = Append(body[i].of, "init")
         /\ body[i].of \in Positions(Graph)
<1>1. AsLowered(body[i]) /\ body[i] \in OpType
  BY DEF OpsFollow
<1>2. ~AsDestination(body[i])
  BY DEF AsDestination
<1>3. AsKernel(body[i]) /\ Input(body[i]).op \in ComputeOps
  BY <1>1, <1>2 DEF AsLowered
<1>4. QED
  BY <1>1, <1>3 DEF AsKernel, OpType

(* The buffer of a value is the destination of the op that makes it, if it has one. *)
LEMMA BufferIs ==
  ASSUME job \in JobType, OpsFollow, Linalged, ~Buffered, NEW value
  PROVE  LET made == \E i \in DOMAIN body : body[i].result = value /\ body[i].dest # <<>>
         IN /\ made => BufferOf(value) = Append(value, "init") /\ value \in Positions(Graph)
            /\ ~made => BufferOf(value) = value
<1> DEFINE makers == {i \in DOMAIN body : body[i].result = value /\ body[i].dest # <<>>}
<1>1. BufferOf(value) = IF makers = {} THEN value ELSE body[CHOOSE i \in makers : TRUE].dest
  BY DEF BufferOf
<1>2. CASE makers = {}
  <2>1. ~\E i \in DOMAIN body : body[i].result = value /\ body[i].dest # <<>>
    BY <1>2
  <2>2. QED
    BY <1>1, <1>2, <2>1
<1>3. CASE makers # {}
  <2>1. PICK i \in makers : i = CHOOSE k \in makers : TRUE
    BY <1>3
  <2>2. i \in DOMAIN body /\ body[i].result = value /\ body[i].dest # <<>>
    OBVIOUS
  <2>3. BufferOf(value) = body[i].dest
    BY <1>1, <1>3, <2>1
  <2>4. body[i].result = body[i].of /\ body[i].dest = Append(body[i].of, "init") /\ body[i].of \in Positions(Graph)
    BY <2>2, Makers
  <2>5. QED
    BY <2>2, <2>3, <2>4
<1>4. QED
  BY <1>2, <1>3

(* A destination is a buffer already. *)
LEMMA InitBuffer ==
  ASSUME job \in JobType, OpsFollow, Linalged, ~Buffered, NEW v \in Positions(Graph)
  PROVE  BufferOf(Append(v, "init")) = Append(v, "init")
<1>1. PICK w : w = Append(v, "init")
  OBVIOUS
<1>2. w \notin Positions(Graph)
  BY <1>1, NotAPosition
<1>3. BufferOf(w) = w
  BY <1>2, BufferIs
<1>4. QED
  BY <1>1, <1>3

(* What Bufferize makes of an op. *)
BufferedOp(o) == IF o.op = "zeros" THEN [o EXCEPT !.op = "copied_zeros"] ELSE OnBuffers(o)

(* Bufferize changes the result and the operands of an op, and nothing else but the
   name of zeros. *)
LEMMA BufferedFields ==
  ASSUME job \in JobType, OpsFollow, Linalged, ~Buffered, NEW o \in OpType, NEW q, q = BufferedOp(o)
  PROVE  /\ q \in OpType /\ q.form = o.form /\ q.of = o.of /\ q.dest = o.dest /\ q.device = o.device
         /\ q.op = IF o.op = "zeros" THEN "copied_zeros" ELSE o.op
         /\ o.op # "zeros" => /\ q.result = BufferOf(o.result)
                              /\ q.args = [a \in DOMAIN o.args |-> BufferOf(o.args[a])]
         /\ o.op = "zeros" => q.result = o.result /\ q.args = o.args
<1>1. ASSUME NEW value \in Values(Graph)
      PROVE  BufferOf(value) \in Values(Graph)
  BY <1>1, BufferIs DEF Values
<1>2. PICK r : r = BufferOf(o.result)
  OBVIOUS
<1>3. PICK s : s = [a \in DOMAIN o.args |-> BufferOf(o.args[a])]
  OBVIOUS
<1>4. r \in Values(Graph)
  BY <1>1, <1>2 DEF OpType
<1>5. s \in Seq(Values(Graph))
  <2>1. o.args \in Seq(Values(Graph))
    BY DEF OpType
  <2>2. PICK n \in Nat : DOMAIN o.args = 1 .. n
    BY <2>1
  <2>3. \A a \in 1 .. n : BufferOf(o.args[a]) \in Values(Graph)
    BY <1>1, <2>1, <2>2
  <2>4. s = [a \in 1 .. n |-> BufferOf(o.args[a])]
    BY <1>3, <2>2
  <2>5. QED
    BY <2>3, <2>4
<1>6. OnBuffers(o) = [o EXCEPT !.result = r, !.args = s]
  BY <1>2, <1>3 DEF OnBuffers, OpType
<1>7. q = IF o.op = "zeros" THEN [o EXCEPT !.op = "copied_zeros"] ELSE [o EXCEPT !.result = r, !.args = s]
  BY <1>6 DEF BufferedOp
<1>8. QED
  BY ZenonT(40), <1>2, <1>3, <1>4, <1>5, <1>7 DEF OpType

(* The kinds of ops are different. *)
LEMMA KindsApart ==
  /\ \A op \in {"fill", "zeros", "copied_zeros", "constant", "print", "return"} : op \notin ComputeOps
  /\ \A op \in ComputeOps : op # "zeros" /\ KernelOf(op) \in {"matmul", "add", "relu"}
  /\ \A op : KernelOf(op) = "zeros" <=> op = "zeros"
  BY DEF ComputeOps, KernelOf

(* Zeros are a destination. *)
LEMMA ZerosAreInit ==
  ASSUME NEW o, AsLowered(o), o.op = "zeros"
  PROVE  AsDestination(o) /\ ~Computes(o)
<1>1. AsDestination(o)
  BY KindsApart DEF AsLowered, AsKernel
<1>2. QED
  BY <1>1, KindsApart DEF Computes

(* The result of every op becomes its buffer. *)
LEMMA ResultsOnBuffers ==
  ASSUME job \in JobType, OpsFollow, Linalged, ~Buffered, NEW o \in OpType, AsLowered(o),
         NEW q, q = BufferedOp(o)
  PROVE  q.result = BufferOf(o.result)
<1>1. CASE o.op = "zeros"
  <2>1. q.result = o.result
    BY <1>1, BufferedFields
  <2>2. o.result = Append(o.of, "init") /\ o.of \in Positions(Graph)
    BY <1>1, ZerosAreInit DEF AsDestination, OpType
  <2>3. QED
    BY <2>1, <2>2, InitBuffer
<1>2. CASE o.op # "zeros"
  BY <1>2, BufferedFields
<1>3. QED
  BY <1>1, <1>2

(* The buffer of a value of the input. *)
LEMMA PositionBuffer ==
  ASSUME job \in JobType, OpsFollow, Loaded, Linalged, ~Buffered, NEW v \in Positions(Graph)
  PROVE  BufferOf(v) = IF OpAt(Graph, v).op \in ComputeOps THEN Append(v, "init") ELSE v
<1>1. CASE OpAt(Graph, v).op \in ComputeOps
  <2>1. PICK i \in DOMAIN body : body[i].of = v /\ body[i].op = KernelOf(OpAt(Graph, v).op)
    BY DEF OpsFollow
  <2>2. PICK o : o = body[i]
    OBVIOUS
  <2>3. AsLowered(o) /\ Input(o) = OpAt(Graph, v) /\ o.of = v /\ o.op \in {"matmul", "add", "relu"}
    BY <1>1, <2>1, <2>2, KindsApart DEF OpsFollow, Input
  <2>4. AsKernel(o)
    BY <1>1, <2>3, KindsApart DEF AsLowered, AsDestination
  <2>5. o.result = v /\ o.dest = Append(v, "init")
    BY <2>3, <2>4 DEF AsKernel
  <2>6. o.dest # <<>>
    BY <2>5, NotAPosition
  <2>7. BufferOf(v) = Append(v, "init")
    BY <2>2, <2>5, <2>6, BufferIs
  <2>8. QED
    BY <1>1, <2>7
<1>2. CASE OpAt(Graph, v).op \notin ComputeOps
  <2>1. SUFFICES ASSUME NEW i \in DOMAIN body, body[i].result = v, body[i].dest # <<>> PROVE FALSE
    BY <1>2, BufferIs
  <2>2. Input(body[i]).op \in ComputeOps /\ body[i].of = v
    BY <2>1, Makers
  <2>3. QED
    BY <1>2, <2>2 DEF Input
<1>3. QED
  BY <1>1, <1>2

(* Operands are replaced by the buffers of the ops they are results of. *)
LEMMA OperandBuffers ==
  ASSUME job \in JobType, OpsFollow, Loaded, WellFormedGraph(Graph), Linalged, ~Buffered, Buffered', Graph' = Graph,
         NEW o, o.of \in Positions(Graph), o.args = Operands(o),
         NEW q, q.of = o.of, q.args = [a \in DOMAIN o.args |-> BufferOf(o.args[a])]
  PROVE  q.args = Operands(q)'
<1>1. PICK v : v = o.of
  OBVIOUS
<1>2. PICK args : args = OpAt(Graph, v).args
  OBVIOUS
<1>3. Input(o) = OpAt(Graph, v) /\ Input(q)' = OpAt(Graph, v) /\ v \in Positions(Graph)
  BY <1>1 DEF Input
<1>4. o.args = [a \in DOMAIN args |-> <<v[1], args[a]>>]
  BY <1>1, <1>2, <1>3 DEF Operands
<1>5. ASSUME NEW a \in DOMAIN args
      PROVE  BufferOf(<<v[1], args[a]>>) = IF OpAt(Graph, <<v[1], args[a]>>).op \in ComputeOps
                                           THEN Append(<<v[1], args[a]>>, "init") ELSE <<v[1], args[a]>>
  BY <1>2, <1>3, OperandsAreEarlier, PositionBuffer
<1>6. q.args = [a \in DOMAIN args |-> IF OpAt(Graph, <<v[1], args[a]>>).op \in ComputeOps
                                       THEN Append(<<v[1], args[a]>>, "init") ELSE <<v[1], args[a]>>]
  BY <1>4, <1>5
<1>7. Operands(q)' = [a \in DOMAIN args |-> IF OpAt(Graph, <<v[1], args[a]>>).op \in ComputeOps
                                             THEN Append(<<v[1], args[a]>>, "init") ELSE <<v[1], args[a]>>]
  BY <1>1, <1>2, <1>3 DEF Operands
<1>8. QED
  BY <1>6, <1>7

(* A bufferized op is as lowered. *)
LEMMA BufferedStays ==
  ASSUME job \in JobType, OpsFollow, Loaded, WellFormedGraph(Graph), Linalged, ~Buffered, Buffered', Graph' = Graph,
         NEW i \in DOMAIN body, NEW o, o = body[i], NEW q, q = BufferedOp(o)
  PROVE  AsLowered(q)'
<1>0. body \in Seq(OpType)
  BY DEF OpsFollow
<1>1. o \in OpType /\ AsLowered(o) /\ o.of \in Positions(Graph)
  <2>1. o \in OpType
    BY <1>0
  <2>2. QED
    BY <2>1 DEF OpsFollow, OpType
<1>2. /\ q.form = o.form /\ q.of = o.of /\ q.dest = o.dest /\ q.device = o.device
      /\ q.op = IF o.op = "zeros" THEN "copied_zeros" ELSE o.op
      /\ q.args = IF o.op = "zeros" THEN o.args ELSE [a \in DOMAIN o.args |-> BufferOf(o.args[a])]
  BY <1>1, BufferedFields
<1>3. q.result = BufferOf(o.result)
  BY <1>1, ResultsOnBuffers
<1>4. Input(q)' = Input(o)
  BY <1>2 DEF Input
<1>0a. o.op # "zeros" /\ o.args = Operands(o) => q.args = Operands(q)'
  BY <1>1, <1>2, OperandBuffers
<1>5. CASE Input(o).op \in ComputeOps /\ AsDestination(o)
  <2>1. BufferOf(o.result) = Append(o.of, "init")
    BY <1>1, <1>5, InitBuffer DEF AsDestination
  <2>2. q.args = <<>>
    BY <1>2, <1>5 DEF AsDestination
  <2>3. /\ o.op \in {"fill", "zeros", "copied_zeros"} /\ o.device \in {"none", "cpu"}
        /\ o.dest = <<>> /\ (o.form = "linalg" => o.op = "fill")
    BY <1>5 DEF AsDestination
  <2>4. AsDestination(q)'
    BY <1>2, <1>3, <2>1, <2>2, <2>3 DEF AsDestination
  <2>5. q.form = "hexir" => q.op = "print"
    BY <1>1, <1>2, <2>3 DEF AsLowered
  <2>6. QED
    BY <1>4, <1>5, <2>4, <2>5 DEF AsLowered
<1>6. CASE Input(o).op \in ComputeOps /\ AsKernel(o)
  <2>1. o.op = KernelOf(Input(o).op) /\ o.op # "zeros" /\ o.dest = Append(o.of, "init") /\ o.result = o.of
    BY <1>6, KindsApart DEF AsKernel
  <2>2. o.dest # <<>>
    BY <1>1, <2>1, NotAPosition
  <2>3. BufferOf(o.result) = Append(o.of, "init")
    BY <2>1, <2>2, BufferIs
  <2>4. AsKernel(q)'
    BY <1>0a, <1>2, <1>3, <1>4, <1>6, <2>1, <2>3 DEF AsKernel
  <2>5. q.form = "hexir" => q.op = "print"
    BY <1>1, <1>2, <2>1 DEF AsLowered
  <2>6. QED
    BY <1>4, <1>6, <2>4, <2>5 DEF AsLowered
<1>7. CASE /\ Input(o).op \in {"constant", "print", "return", "fill"}
           /\ o.op = Input(o).op /\ o.result = o.of /\ o.dest = <<>> /\ o.args = Operands(o)
           /\ o.form = "linalg" => o.op = "fill"
  <2>1. ~\E k \in DOMAIN body : body[k].result = o.result /\ body[k].dest # <<>>
    <3>1. SUFFICES ASSUME NEW k \in DOMAIN body, body[k].result = o.of, body[k].dest # <<>> PROVE FALSE
      BY <1>7
    <3>2. Input(body[k]).op \in ComputeOps /\ body[k].of = o.of
      BY <3>1, Makers
    <3>3. Input(body[k]) = Input(o)
      BY <3>2 DEF Input
    <3>4. QED
      BY <1>7, <3>2, <3>3, KindsApart
  <2>2. BufferOf(o.result) = o.result
    BY <2>1, BufferIs
  <2>3. o.op # "zeros"
    BY <1>7
  <2>4. q.form = "hexir" => q.op = "print"
    BY <1>1, <1>2, <2>3 DEF AsLowered
  <2>5. QED
    BY <1>0a, <1>2, <1>3, <1>4, <1>7, <2>2, <2>3, <2>4 DEF AsLowered
<1>8. QED
  BY <1>1, <1>5, <1>6, <1>7 DEF AsLowered

(* Bufferize keeps the invariant of the module. *)
LEMMA BufferizeKeeps ==
  ASSUME job \in JobType, FileFollows, ModuleInv, Bufferize
  PROVE  ModuleInv'
<1>1. /\ Running("bufferize") /\ UNCHANGED <<job, pc, exit, prims>> /\ passes' = Tail(passes)
      /\ body' = FlattenSeq([i \in DOMAIN body |-> Bufferized(body[i])])
  BY DEF Bufferize, Becomes, Rewritten
<1>2. OpsFollow /\ DevicesFollow /\ body \in Seq(OpType) /\ \A i \in DOMAIN body : MadeBefore(i)
  BY DEF ModuleInv, OpsFollow
<1>3. \A i \in DOMAIN body : body[i] \in OpType
  BY <1>2
<1>4. job.emit \in {"gpu"} \cup LLVMStages /\ Ran = 4
  BY <1>1, PassPlace DEF ModuleInv
<1>5. /\ Linalged /\ Placed /\ ~Buffered /\ ~OnKernels /\ ~Looped /\ ~HasOutlines /\ ~InLLVM
  BY <1>4, Flags DEF Heterogeneous, LLVMStages
<1> DEFINE R == [i \in DOMAIN body |-> BufferedOp(body[i])]
<1>6. DOMAIN R = DOMAIN body /\ \A i \in DOMAIN body : R[i] \in OpType
  BY <1>2, <1>3, <1>5, BufferedFields
<1>7. [i \in DOMAIN body |-> Bufferized(body[i])] = [i \in DOMAIN body |-> <<R[i]>>]
  <2>1. \A i \in DOMAIN body : Bufferized(body[i]) = <<R[i]>>
    BY DEF Bufferized, BufferedOp
  <2> HIDE DEF R
  <2>2. QED
    BY <2>1
<1>8. /\ body' \in Seq(OpType) /\ DOMAIN body' = DOMAIN body
      /\ \A i \in DOMAIN body : body'[i] = BufferedOp(body[i])
  <2>1. PICK ops : ops = body'
    OBVIOUS
  <2> HIDE DEF R
  <2>2. ops = FlattenSeq([i \in DOMAIN body |-> <<R[i]>>])
    BY <1>1, <1>7, <2>1
  <2>3. ops \in Seq(OpType) /\ DOMAIN ops = DOMAIN body /\ \A i \in DOMAIN body : ops[i] = R[i]
    BY ONLY <1>2, <1>6, <2>2, OneByOne
  <2>4. QED
    BY <2>1, <2>3 DEF R
<1> HIDE DEF R
<1>9. ASSUME NEW i \in DOMAIN body
      PROVE  /\ body'[i].form = body[i].form /\ body'[i].of = body[i].of
             /\ body'[i].dest = body[i].dest /\ body'[i].device = body[i].device
             /\ body'[i].op = IF body[i].op = "zeros" THEN "copied_zeros" ELSE body[i].op
             /\ body[i].op # "zeros" => body'[i].args = [a \in DOMAIN body[i].args |-> BufferOf(body[i].args[a])]
             /\ body[i].op = "zeros" => body'[i].args = body[i].args
             /\ body'[i].result = BufferOf(body[i].result)
  <2>1. body'[i] = BufferedOp(body[i]) /\ body[i] \in OpType /\ AsLowered(body[i])
    BY <1>2, <1>3, <1>5, <1>8 DEF OpsFollow
  <2>2. body'[i].result = BufferOf(body[i].result)
    BY <1>2, <1>5, <2>1, ResultsOnBuffers
  <2>3. QED
    BY <1>2, <1>5, <2>1, <2>2, BufferedFields
<1>10. /\ (passes \in Seq(ToSet(Passes)) /\ prims \in Seq(PrimType) /\ PassesFollow /\ KernelsFollow)'
       /\ Ran' = Ran + 1 /\ Graph' = Graph /\ Options' = Options /\ Loaded /\ Loaded'
  BY <1>1, <1>8, <1>9, PassOneByOne DEF OneByOnePasses
<1>11. /\ Linalged' /\ Placed' /\ Buffered' /\ ~OnKernels' /\ ~Looped' /\ ~HasOutlines' /\ ~InLLVM'
  <2>1. Ran' = 5
    BY <1>4, <1>10
  <2>2. QED
    BY <1>1, <1>4, <2>1, FlagsThen DEF Heterogeneous, LLVMStages
<1>11a. WellFormedGraph(Graph)
  BY <1>10 DEF ModuleInv, PassesFollow
<1>12. ASSUME NEW i \in DOMAIN body
       PROVE  AsLowered(body[i])'
  <2>1. PICK q : q = body'[i]
    OBVIOUS
  <2>2. q = BufferedOp(body[i])
    BY <1>8, <2>1
  <2>3. AsLowered(q)'
    BY <1>2, <1>5, <1>10, <1>11, <1>11a, <2>2, BufferedStays
  <2>4. QED
    BY <2>1, <2>3
<1>13. OpsFollow'
  BY <1>2, <1>5, <1>8, <1>9, <1>10, <1>11, <1>12, LoweredModule
<1>14. ASSUME NEW i \in DOMAIN body
       PROVE  DeviceFollows(body[i])'
  <2>1. PICK o : o = body[i]
    OBVIOUS
  <2>2. PICK q : q = body'[i]
    OBVIOUS
  <2>3. DeviceFollows(o) /\ AsLowered(o)
    BY <1>2, <1>5, <2>1 DEF OpsFollow, DevicesFollow
  <2>4. /\ q.form = o.form /\ q.of = o.of /\ q.device = o.device
        /\ q.op = IF o.op = "zeros" THEN "copied_zeros" ELSE o.op
    BY <1>9, <2>1, <2>2
  <2>5. Input(q)' = Input(o)
    BY <1>10, <2>4 DEF Input
  <2>6. Computes(q)' => Computes(o)
    <3>1. o.op = "zeros" => ~Computes(q)'
      BY <2>4, <2>5, KindsApart DEF Computes
    <3>2. o.op # "zeros" => (Computes(q)' => Computes(o))
      BY <2>4, <2>5 DEF Computes
    <3>3. QED
      BY <3>1, <3>2
  <2>7. (q.op = "print" => o.op = "print") /\ (OnGpu(q)' <=> OnGpu(o))
    BY <2>4 DEF OnGpu
  <2>8. Placement(Options, Input(q))' = Placement(Options, Input(o))
    BY <1>10, <2>5
  <2>a. /\ (Computes(o) \/ o.op = "print") => o.device = Placement(Options, Input(o))
        /\ ~OnGpu(o) /\ (Computes(o) => o.form = "linalg") /\ o.form \notin {"llvm", "kernel"}
    BY <1>5, <2>3 DEF DeviceFollows
  <2>9. DeviceFollows(q)'
    BY <1>11, <2>a, <2>4, <2>6, <2>7, <2>8 DEF DeviceFollows
  <2>10. QED
    BY <2>2, <2>9
<1>15. (\A i \in DOMAIN body : MadeBefore(i))'
  <2>1. SUFFICES ASSUME NEW i \in DOMAIN body,
                        NEW value \in ToSet(body'[i].args) \cup ({body'[i].dest} \ {<<>>})
                 PROVE  \E j \in 1 .. i - 1 : body'[j].result = value
    BY <1>8 DEF MadeBefore
  <2>2. PICK old \in ToSet(body[i].args) \cup ({body[i].dest} \ {<<>>}) : value = BufferOf(old)
    <3>1. AsLowered(body[i]) /\ body[i] \in OpType
      BY <1>2, <1>5 DEF OpsFollow
    <3>2. CASE value \in ToSet(body'[i].args) /\ body[i].op # "zeros"
      <4>1. body'[i].args = [a \in DOMAIN body[i].args |-> BufferOf(body[i].args[a])]
        BY <1>9, <3>2
      <4>2. PICK a \in DOMAIN body'[i].args : value = body'[i].args[a]
        BY <3>2 DEF ToSet
      <4>3. a \in DOMAIN body[i].args /\ value = BufferOf(body[i].args[a])
        BY <4>1, <4>2
      <4>4. body[i].args[a] \in ToSet(body[i].args)
        BY <4>3 DEF ToSet
      <4>5. QED
        BY <4>3, <4>4
    <3>3. CASE value \in ToSet(body'[i].args) /\ body[i].op = "zeros"
      <4>1. body'[i].args = <<>>
        BY <1>9, <3>1, <3>3, ZerosAreInit DEF AsDestination
      <4>2. QED
        BY <3>3, <4>1 DEF ToSet
    <3>4. CASE value \in {body'[i].dest} \ {<<>>}
      <4>1. value = body[i].dest /\ body[i].dest # <<>>
        BY <1>9, <3>4
      <4>2. body[i].of \in Positions(Graph) /\ body[i].dest = Append(body[i].of, "init")
        BY <1>2, <1>5, <4>1, Makers
      <4>3. BufferOf(value) = value
        BY <1>2, <1>5, <4>1, <4>2, InitBuffer
      <4>4. QED
        BY <4>1, <4>3
    <3>5. QED
      BY <2>1, <3>2, <3>3, <3>4
  <2>3. PICK j \in 1 .. i - 1 : body[j].result = old
    BY <1>2, <2>2 DEF MadeBefore
  <2>4. j \in DOMAIN body
    BY <1>2, <2>3
  <2>5. body'[j].result = BufferOf(old)
    BY <1>9, <2>3, <2>4
  <2>6. QED
    BY <2>2, <2>3, <2>5
<1>16. DevicesFollow'
  BY <1>8, <1>14 DEF DevicesFollow
<1>17. QED
  BY <1>10, <1>13, <1>15, <1>16 DEF ModuleInv

-----------------------------------------------------------------------------
(* The passes that give ops another form.                                   *)

(* They give ops another form, and may take their device away. *)
FormPasses == {"cuda_to_gpu", "to_loops", "outline", "to_llvm"}

(* q is o in another form. *)
Reformed(o, q) ==
  /\ q \in OpType /\ q.op = o.op /\ q.of = o.of /\ q.result = o.result /\ q.args = o.args /\ q.dest = o.dest
  /\ q.form \in {"hexir", "linalg", "call"} => q.form = o.form
  /\ q.device \in {o.device, "none"}

(* What a pass that only takes the ops to another form leaves to show. *)
LEMMA OtherForm ==
  ASSUME job \in JobType, FileFollows, ModuleInv, NEW p \in FormPasses, Running(p),
         UNCHANGED <<job, pc, exit, prims>>, passes' = Tail(passes),
         NEW R, DOMAIN R = DOMAIN body, \A i \in DOMAIN body : Reformed(body[i], R[i]),
         body' = FlattenSeq([i \in DOMAIN body |-> <<R[i]>>])
  PROVE  /\ Ran' = Ran + 1 /\ Graph' = Graph /\ Options' = Options /\ DOMAIN body' = DOMAIN body
         /\ \A i \in DOMAIN body : body'[i] = R[i]
         /\ DevicesFollow' => ModuleInv'
<1>2. OpsFollow /\ body \in Seq(OpType) /\ \A i \in DOMAIN body : MadeBefore(i)
  BY DEF ModuleInv, OpsFollow
<1>4. job.emit \in {"gpu"} \cup LLVMStages /\ Ran \in {5, 6, 7, 8}
  BY PassPlace DEF ModuleInv, FormPasses, LLVMStages
<1>5. Linalged /\ Buffered
  BY <1>4, Flags DEF Heterogeneous, LLVMStages
<1>6. \A i \in DOMAIN body : R[i] \in OpType
  BY DEF Reformed
<1>7. /\ body' \in Seq(OpType) /\ DOMAIN body' = DOMAIN body
      /\ \A i \in DOMAIN body : body'[i] = R[i]
  <2>1. PICK ops : ops = body'
    OBVIOUS
  <2>2. ops = FlattenSeq([i \in DOMAIN body |-> <<R[i]>>]) /\ DOMAIN R = DOMAIN body
    BY <2>1
  <2>3. ops \in Seq(OpType) /\ DOMAIN ops = DOMAIN body /\ \A i \in DOMAIN body : ops[i] = R[i]
    BY ONLY <1>2, <1>6, <2>2, OneByOne
  <2>4. QED
    BY <2>1, <2>3
<1>8. ASSUME NEW i \in DOMAIN body
      PROVE  Reformed(body[i], body'[i])
  BY <1>7
<1>9. /\ (passes \in Seq(ToSet(Passes)) /\ prims \in Seq(PrimType) /\ PassesFollow /\ KernelsFollow)'
      /\ Ran' = Ran + 1 /\ Graph' = Graph /\ Options' = Options /\ Loaded /\ Loaded'
  <2>1. \A i \in DOMAIN body : body'[i].form = "call" => body[i].form = "call"
    BY <1>8 DEF Reformed
  <2>2. p \in OneByOnePasses
    BY DEF FormPasses, OneByOnePasses
  <2>3. DOMAIN body' = DOMAIN body
    BY <1>7
  <2>4. QED
    BY <2>1, <2>2, <2>3, PassOneByOne
<1>10. Linalged' /\ Buffered'
  <2>1. Ran' \in {6, 7, 8, 9}
    BY <1>4, <1>9
  <2>2. QED
    BY <1>4, <2>1, FlagsThen DEF Heterogeneous, LLVMStages
<1>11. ASSUME NEW i \in DOMAIN body
       PROVE  AsLowered(body[i])'
  <2>1. PICK o : o = body[i]
    OBVIOUS
  <2>2. PICK q : q = body'[i]
    OBVIOUS
  <2>3. AsLowered(o) /\ Reformed(o, q)
    BY <1>2, <1>5, <1>8, <2>1, <2>2 DEF OpsFollow
  <2>4. AsDestination(o) => q.device \in {"none", "cpu"}
    BY <2>3 DEF AsDestination, Reformed
  <2>5. /\ q.op = o.op /\ q.of = o.of /\ q.result = o.result /\ q.args = o.args /\ q.dest = o.dest
        /\ q.form \in {"hexir", "linalg"} => q.form = o.form
    BY <2>3 DEF Reformed
  <2>6. AsLowered(q)'
    BY <1>5, <1>9, <1>10, <2>3, <2>4, <2>5, LoweredStays
  <2>7. QED
    BY <2>2, <2>6
<1>12. OpsFollow'
  <2>1. \A i \in DOMAIN body : body'[i].of = body[i].of /\ body'[i].op = body[i].op /\ body'[i].dest = body[i].dest
    BY <1>8 DEF Reformed
  <2>2. QED
    BY <1>2, <1>5, <1>7, <1>9, <1>10, <1>11, <2>1, LoweredModule
<1>13. (\A i \in DOMAIN body : MadeBefore(i))'
  <2>1. \A i \in DOMAIN body : /\ body'[i].result = body[i].result /\ body'[i].args = body[i].args
                               /\ body'[i].dest = body[i].dest
    BY <1>8 DEF Reformed
  <2>2. QED
    BY <1>2, <1>7, <2>1, ValuesKept
<1>14. QED
  BY <1>7, <1>9, <1>12, <1>13 DEF ModuleInv

(* The device of a reformed op. *)
LEMMA ReformedOp ==
  ASSUME Graph' = Graph, Options' = Options, NEW o, NEW q, Reformed(o, q)
  PROVE  /\ Input(q)' = Input(o) /\ (Computes(q)' <=> Computes(o)) /\ (OnGpu(q)' <=> OnGpu(q))
         /\ Placement(Options, Input(q))' = Placement(Options, Input(o))
<1>1. Input(q)' = Input(o)
  BY DEF Input, Reformed
<1>2. QED
  BY <1>1 DEF Computes, OnGpu, Reformed

(* CudaToGpu keeps the invariant of the module: the ops on cuda become launches, and
   no others. *)
LEMMA CudaToGpuKeeps ==
  ASSUME job \in JobType, FileFollows, ModuleInv, CudaToGpu, UNCHANGED pc
  PROVE  ModuleInv'
<1>1. /\ Running("cuda_to_gpu") /\ UNCHANGED <<job, pc, exit, prims>> /\ passes' = Tail(passes)
      /\ \A i \in DOMAIN body : CudaOp(body[i]) => Launchable(body[i])
      /\ body' = FlattenSeq([i \in DOMAIN body |-> Launch(body[i])])
  BY DEF CudaToGpu, Becomes, Rewritten, Fail, Exit, Running
<1>2. OpsFollow /\ DevicesFollow /\ body \in Seq(OpType)
  BY DEF ModuleInv, OpsFollow
<1>3. \A i \in DOMAIN body : body[i] \in OpType
  BY <1>2
<1> DEFINE Launched(o) == IF CudaOp(o) THEN [o EXCEPT !.form = "launch"] ELSE o
           R == [i \in DOMAIN body |-> Launched(body[i])]
<1>4. ASSUME NEW o \in OpType, NEW q, q = Launched(o)
      PROVE  Reformed(o, q) /\ q.device = o.device /\ q.form = IF CudaOp(o) THEN "launch" ELSE o.form
  BY <1>4 DEF Reformed, OpType, Forms
<1>5. DOMAIN R = DOMAIN body /\ \A i \in DOMAIN body : Reformed(body[i], R[i])
  BY <1>3, <1>4
<1>6. [i \in DOMAIN body |-> Launch(body[i])] = [i \in DOMAIN body |-> <<R[i]>>]
  BY DEF Launch
<1>7. /\ Ran' = Ran + 1 /\ Graph' = Graph /\ Options' = Options /\ DOMAIN body' = DOMAIN body
      /\ \A i \in DOMAIN body : body'[i] = R[i]
      /\ DevicesFollow' => ModuleInv'
  <2>1. body' = FlattenSeq([i \in DOMAIN body |-> <<R[i]>>])
    BY <1>1, <1>6
  <2>2. "cuda_to_gpu" \in FormPasses
    BY DEF FormPasses
  <2> HIDE DEF R
  <2>3. QED
    BY <1>1, <1>5, <2>1, <2>2, OtherForm
<1>8. job.emit \in {"gpu"} \cup LLVMStages /\ Ran = 5
  BY <1>1, PassPlace DEF ModuleInv
<1>9. /\ Linalged /\ Placed /\ ~OnKernels /\ ~Looped /\ ~InLLVM
      /\ Linalged' /\ Placed' /\ OnKernels' /\ ~Looped' /\ ~HasOutlines' /\ ~InLLVM'
  <2>1. Ran' = 6
    BY <1>7, <1>8
  <2>2. QED
    BY <1>1, <1>8, <2>1, Flags, FlagsThen DEF Heterogeneous, LLVMStages
<1>10. ASSUME NEW i \in DOMAIN body
       PROVE  DeviceFollows(body[i])'
  <2>1. PICK o : o = body[i]
    OBVIOUS
  <2>2. PICK q : q = body'[i]
    OBVIOUS
  <2>3. /\ o \in OpType /\ DeviceFollows(o) /\ AsLowered(o) /\ q = Launched(o)
        /\ CudaOp(o) => Launchable(o)
    BY <1>1, <1>2, <1>3, <1>7, <1>9, <2>1, <2>2 DEF OpsFollow, DevicesFollow
  <2>4. Reformed(o, q) /\ q.device = o.device /\ q.form = IF CudaOp(o) THEN "launch" ELSE o.form
    BY <1>4, <2>3
  <2>5. /\ (Computes(q)' <=> Computes(o)) /\ (OnGpu(q)' <=> OnGpu(q)) /\ q.op = o.op
        /\ Placement(Options, Input(q))' = Placement(Options, Input(o))
    BY <1>7, <2>4, ReformedOp DEF Reformed
  <2>6. /\ (Computes(o) \/ o.op = "print") => o.device = Placement(Options, Input(o))
        /\ ~OnGpu(o) /\ (Computes(o) => o.form = "linalg") /\ o.form \notin {"llvm", "kernel"}
    BY <1>9, <2>3 DEF DeviceFollows
  <2>7. CudaOp(o) => Computes(o)
    <3>1. SUFFICES ASSUME CudaOp(o) PROVE Computes(o)
      OBVIOUS
    <3>2. o.op \in {"matmul", "add", "relu"}
      BY <2>3, <3>1 DEF Launchable
    <3>3. Input(o).op \in ComputeOps /\ AsKernel(o)
      BY <2>3, <3>2 DEF AsLowered, AsDestination
    <3>4. QED
      BY <3>3 DEF AsKernel, Computes
  <2>8. /\ OnGpu(q) <=> CudaOp(o)
        /\ q.form \notin {"llvm", "kernel"}
        /\ q.form = "linalg" => q.device # "cuda"
    BY <2>4, <2>6 DEF OnGpu, CudaOp
  <2>9. Computes(o) => (CudaOp(o) <=> Placement(Options, Input(o)) = "cuda")
    BY <2>6 DEF CudaOp
  <2>10. DeviceFollows(q)'
    BY <1>9, <2>4, <2>5, <2>6, <2>7, <2>8, <2>9 DEF DeviceFollows
  <2>11. QED
    BY <2>2, <2>10
<1>11. QED
  BY <1>7, <1>10 DEF DevicesFollow

(* ToLoops keeps the invariant of the module. *)
LEMMA ToLoopsKeeps ==
  ASSUME job \in JobType, FileFollows, ModuleInv, ToLoops
  PROVE  ModuleInv'
<1>1. /\ Running("to_loops") /\ UNCHANGED <<job, pc, exit, prims>> /\ passes' = Tail(passes)
      /\ body' = FlattenSeq([i \in DOMAIN body |-> Loop(body[i])])
  BY DEF ToLoops, Becomes, Rewritten
<1>2. OpsFollow /\ DevicesFollow /\ body \in Seq(OpType)
  BY DEF ModuleInv, OpsFollow
<1>3. \A i \in DOMAIN body : body[i] \in OpType
  BY <1>2
<1> DEFINE Looped_(o) == IF o.form = "linalg" THEN [o EXCEPT !.form = "loops", !.device = "none"] ELSE o
           R == [i \in DOMAIN body |-> Looped_(body[i])]
<1>4. ASSUME NEW o \in OpType, NEW q, q = Looped_(o)
      PROVE  /\ Reformed(o, q) /\ q.device = IF o.form = "linalg" THEN "none" ELSE o.device
             /\ q.form = IF o.form = "linalg" THEN "loops" ELSE o.form
  BY <1>4 DEF Reformed, OpType, Forms
<1>5. DOMAIN R = DOMAIN body /\ \A i \in DOMAIN body : Reformed(body[i], R[i])
  BY <1>3, <1>4
<1>6. [i \in DOMAIN body |-> Loop(body[i])] = [i \in DOMAIN body |-> <<R[i]>>]
  BY DEF Loop
<1>7. /\ Ran' = Ran + 1 /\ Graph' = Graph /\ Options' = Options /\ DOMAIN body' = DOMAIN body
      /\ \A i \in DOMAIN body : body'[i] = R[i]
      /\ DevicesFollow' => ModuleInv'
  <2>1. body' = FlattenSeq([i \in DOMAIN body |-> <<R[i]>>])
    BY <1>1, <1>6
  <2>2. "to_loops" \in FormPasses
    BY DEF FormPasses
  <2> HIDE DEF R
  <2>3. QED
    BY <1>1, <1>5, <2>1, <2>2, OtherForm
<1>8. job.emit \in LLVMStages /\ Ran = 6
  BY <1>1, PassPlace DEF ModuleInv
<1>9. OnKernels /\ ~InLLVM /\ Looped' /\ Placed' /\ Linalged' /\ OnKernels' /\ ~HasOutlines' /\ ~InLLVM'
  <2>1. Ran' = 7
    <3>1. Ran = 6 /\ Ran' = Ran + 1
      BY <1>7, <1>8
    <3>2. QED
      BY ONLY <3>1
  <2>2. QED
    BY <1>1, <1>8, <2>1, Flags, FlagsThen DEF Heterogeneous, LLVMStages
<1>10. ASSUME NEW i \in DOMAIN body
       PROVE  DeviceFollows(body[i])'
  <2>1. PICK o : o = body[i]
    OBVIOUS
  <2>2. PICK q : q = body'[i]
    OBVIOUS
  <2>3. o \in OpType /\ DeviceFollows(o) /\ q = Looped_(o)
    BY <1>2, <1>3, <1>7, <2>1, <2>2 DEF DevicesFollow
  <2>4. /\ Reformed(o, q) /\ q.device = IF o.form = "linalg" THEN "none" ELSE o.device
        /\ q.form = IF o.form = "linalg" THEN "loops" ELSE o.form
    BY <1>4, <2>3
  <2>5. /\ (Computes(q)' <=> Computes(o)) /\ (OnGpu(q)' <=> OnGpu(q))
        /\ Placement(Options, Input(q))' = Placement(Options, Input(o))
    BY <1>7, <2>4, ReformedOp
  <2>6. /\ Computes(o) => (OnGpu(o) <=> Placement(Options, Input(o)) = "cuda")
        /\ OnGpu(o) => Computes(o)
        /\ o.form \notin {"llvm", "kernel"}
    BY <1>9, <2>3 DEF DeviceFollows
  <2>7. /\ OnGpu(q) <=> OnGpu(o)
        /\ q.form \notin {"llvm", "kernel", "linalg"}
    BY <2>4, <2>6 DEF OnGpu
  <2>10. DeviceFollows(q)'
    BY <1>9, <2>4, <2>5, <2>6, <2>7 DEF DeviceFollows
  <2>11. QED
    BY <2>2, <2>10
<1>11. QED
  BY <1>7, <1>10 DEF DevicesFollow

(* Outline keeps the invariant of the module. *)
LEMMA OutlineKeeps ==
  ASSUME job \in JobType, FileFollows, ModuleInv, Outline
  PROVE  ModuleInv'
<1>1. /\ Running("outline") /\ UNCHANGED <<job, pc, exit, prims>> /\ passes' = Tail(passes)
      /\ body' = FlattenSeq([i \in DOMAIN body |-> Outlined(body[i])])
  BY DEF Outline, Becomes, Rewritten
<1>2. OpsFollow /\ DevicesFollow /\ body \in Seq(OpType)
  BY DEF ModuleInv, OpsFollow
<1>3. \A i \in DOMAIN body : body[i] \in OpType
  BY <1>2
<1> DEFINE Outlined_(o) == IF o.form = "launch" THEN [o EXCEPT !.form = "launch_func"] ELSE o
           R == [i \in DOMAIN body |-> Outlined_(body[i])]
<1>4. ASSUME NEW o \in OpType, NEW q, q = Outlined_(o)
      PROVE  /\ Reformed(o, q) /\ q.device = o.device
             /\ q.form = IF o.form = "launch" THEN "launch_func" ELSE o.form
  BY <1>4 DEF Reformed, OpType, Forms
<1>5. DOMAIN R = DOMAIN body /\ \A i \in DOMAIN body : Reformed(body[i], R[i])
  BY <1>3, <1>4
<1>6. [i \in DOMAIN body |-> Outlined(body[i])] = [i \in DOMAIN body |-> <<R[i]>>]
  BY DEF Outlined
<1>7. /\ Ran' = Ran + 1 /\ Graph' = Graph /\ Options' = Options /\ DOMAIN body' = DOMAIN body
      /\ \A i \in DOMAIN body : body'[i] = R[i]
      /\ DevicesFollow' => ModuleInv'
  <2>1. body' = FlattenSeq([i \in DOMAIN body |-> <<R[i]>>])
    BY <1>1, <1>6
  <2>2. "outline" \in FormPasses
    BY DEF FormPasses
  <2> HIDE DEF R
  <2>3. QED
    BY <1>1, <1>5, <2>1, <2>2, OtherForm
<1>8. job.emit \in LLVMStages /\ Ran = 7
  BY <1>1, PassPlace DEF ModuleInv
<1>9. OnKernels /\ ~InLLVM /\ Looped' /\ Placed' /\ Linalged' /\ OnKernels' /\ HasOutlines' /\ ~InLLVM'
  <2>1. Ran' = 8
    <3>1. Ran = 7 /\ Ran' = Ran + 1
      BY <1>7, <1>8
    <3>2. QED
      BY ONLY <3>1
  <2>2. QED
    BY <1>1, <1>8, <2>1, Flags, FlagsThen DEF Heterogeneous, LLVMStages
<1>10. ASSUME NEW i \in DOMAIN body
       PROVE  DeviceFollows(body[i])'
  <2>1. PICK o : o = body[i]
    OBVIOUS
  <2>2. PICK q : q = body'[i]
    OBVIOUS
  <2>3. o \in OpType /\ DeviceFollows(o) /\ q = Outlined_(o)
    BY <1>2, <1>3, <1>7, <2>1, <2>2 DEF DevicesFollow
  <2>4. /\ Reformed(o, q) /\ q.device = o.device
        /\ q.form = IF o.form = "launch" THEN "launch_func" ELSE o.form
    BY <1>4, <2>3
  <2>5. /\ (Computes(q)' <=> Computes(o)) /\ (OnGpu(q)' <=> OnGpu(q))
        /\ Placement(Options, Input(q))' = Placement(Options, Input(o))
    BY <1>7, <2>4, ReformedOp
  <2>6. /\ Computes(o) => (OnGpu(o) <=> Placement(Options, Input(o)) = "cuda")
        /\ OnGpu(o) => Computes(o)
        /\ o.form \notin {"llvm", "kernel"} /\ (o.form = "linalg" => o.device # "cuda")
    BY <1>9, <2>3 DEF DeviceFollows
  <2>7. /\ OnGpu(q) <=> OnGpu(o)
        /\ q.form \notin {"llvm", "kernel", "launch"} /\ (q.form = "linalg" => q.device # "cuda")
    BY <2>4, <2>6 DEF OnGpu
  <2>10. DeviceFollows(q)'
    BY <1>9, <2>4, <2>5, <2>6, <2>7 DEF DeviceFollows
  <2>11. QED
    BY <2>2, <2>10
<1>11. QED
  BY <1>7, <1>10 DEF DevicesFollow

(* ToLLVM keeps the invariant of the module. *)
LEMMA ToLLVMKeeps ==
  ASSUME job \in JobType, FileFollows, ModuleInv, ToLLVM
  PROVE  ModuleInv'
<1>1. /\ Running("to_llvm") /\ UNCHANGED <<job, pc, exit, prims>> /\ passes' = Tail(passes)
      /\ body' = FlattenSeq([i \in DOMAIN body |-> Translated(body[i])])
  BY DEF ToLLVM, Becomes, Rewritten
<1>2. OpsFollow /\ DevicesFollow /\ body \in Seq(OpType)
  BY DEF ModuleInv, OpsFollow
<1>3. \A i \in DOMAIN body : body[i] \in OpType
  BY <1>2
<1> DEFINE Translated_(o) == [o EXCEPT !.form = IF @ = "launch_func" THEN "kernel" ELSE "llvm", !.device = "none"]
           R == [i \in DOMAIN body |-> Translated_(body[i])]
<1>4. ASSUME NEW o \in OpType, NEW q, q = Translated_(o)
      PROVE  /\ Reformed(o, q) /\ q.device = "none"
             /\ q.form = IF o.form = "launch_func" THEN "kernel" ELSE "llvm"
  BY ZenonT(40), <1>4 DEF Reformed, OpType, Forms
<1>5. DOMAIN R = DOMAIN body /\ \A i \in DOMAIN body : Reformed(body[i], R[i])
  BY <1>3, <1>4
<1>6. [i \in DOMAIN body |-> Translated(body[i])] = [i \in DOMAIN body |-> <<R[i]>>]
  BY DEF Translated
<1>7. /\ Ran' = Ran + 1 /\ Graph' = Graph /\ Options' = Options /\ DOMAIN body' = DOMAIN body
      /\ \A i \in DOMAIN body : body'[i] = R[i]
      /\ DevicesFollow' => ModuleInv'
  <2>1. body' = FlattenSeq([i \in DOMAIN body |-> <<R[i]>>])
    BY <1>1, <1>6
  <2>2. "to_llvm" \in FormPasses
    BY DEF FormPasses
  <2> HIDE DEF R
  <2>3. QED
    BY <1>1, <1>5, <2>1, <2>2, OtherForm
<1>8. job.emit \in LLVMStages /\ Ran = 8
  BY <1>1, PassPlace DEF ModuleInv
<1>9. OnKernels /\ HasOutlines /\ ~InLLVM /\ Looped' /\ Placed' /\ Linalged' /\ OnKernels' /\ HasOutlines' /\ InLLVM'
  <2>1. Ran' = 9
    <3>1. Ran = 8 /\ Ran' = Ran + 1
      BY <1>7, <1>8
    <3>2. QED
      BY ONLY <3>1
  <2>2. QED
    BY <1>1, <1>8, <2>1, Flags, FlagsThen DEF Heterogeneous, LLVMStages
<1>10. ASSUME NEW i \in DOMAIN body
       PROVE  DeviceFollows(body[i])'
  <2>1. PICK o : o = body[i]
    OBVIOUS
  <2>2. PICK q : q = body'[i]
    OBVIOUS
  <2>3. o \in OpType /\ DeviceFollows(o) /\ q = Translated_(o)
    BY <1>2, <1>3, <1>7, <2>1, <2>2 DEF DevicesFollow
  <2>4. /\ Reformed(o, q) /\ q.device = "none"
        /\ q.form = IF o.form = "launch_func" THEN "kernel" ELSE "llvm"
    BY <1>4, <2>3
  <2>5. /\ (Computes(q)' <=> Computes(o)) /\ (OnGpu(q)' <=> OnGpu(q))
        /\ Placement(Options, Input(q))' = Placement(Options, Input(o))
    BY <1>7, <2>4, ReformedOp
  <2>6. /\ Computes(o) => (OnGpu(o) <=> Placement(Options, Input(o)) = "cuda")
        /\ OnGpu(o) => Computes(o)
        /\ o.form \notin {"llvm", "kernel", "launch"}
    BY <1>9, <2>3 DEF DeviceFollows
  <2>7. /\ OnGpu(q) <=> OnGpu(o)
        /\ q.form \in {"llvm", "kernel"}
    BY <2>4, <2>6 DEF OnGpu
  <2>10. DeviceFollows(q)'
    BY <1>9, <2>4, <2>5, <2>6, <2>7 DEF DeviceFollows
  <2>11. QED
    BY <2>2, <2>10
<1>11. QED
  BY <1>7, <1>10 DEF DevicesFollow

-----------------------------------------------------------------------------
(* ToLinalg.                                                                *)

(* The module between the two levels. *)
AtLinalg ==
  /\ job \in JobType /\ Graph' = Graph /\ Options' = Options
  /\ ~Linalged /\ Linalged' /\ ~Buffered' /\ (Placed' => Placed) /\ ~OnKernels' /\ ~Looped
  /\ ~HasOutlines' /\ ~InLLVM'

(* What may become of an op that has been read. *)
Becoming(o, q) ==
  /\ q \in OpType /\ q.of = o.of /\ q.form # "call" /\ q.args \in {<<>>, o.args}
  /\ q.dest \in {<<>>, Append(o.of, "init")}

(* The destination of a compute op is as lowered. *)
LEMMA ToInit ==
  ASSUME AtLinalg, NEW o \in OpType, AsRead(o), o.op \in ComputeOps, NEW q, q \in {Fill(o), Zeros(o)}
  PROVE  /\ Becoming(o, q) /\ q.result = Append(o.of, "init") /\ q.args = <<>> /\ q.dest = <<>>
         /\ AsLowered(q)' /\ DeviceFollows(q)'
<1>1. o.result = o.of /\ o.op = Input(o).op /\ o.of \in Positions(Graph)
  BY ReadFields DEF OpType
<1>2. PICK r : r = Append(o.of, "init")
  OBVIOUS
<1>3. r \in Values(Graph) /\ o.of \in Positions(Graph)
  BY <1>1, <1>2 DEF Values
<1>4. \/ q = [op |-> "fill", form |-> "linalg", of |-> o.of, result |-> r,
              args |-> <<>>, dest |-> <<>>, device |-> "none", callee |-> 0]
      \/ q = [op |-> "zeros", form |-> "std", of |-> o.of, result |-> r,
              args |-> <<>>, dest |-> <<>>, device |-> "none", callee |-> 0]
  BY ZenonT(40), <1>1, <1>2 DEF Fill, Zeros, InitOf
<1>5. /\ q.of = o.of /\ q.result = r /\ q.args = <<>> /\ q.dest = <<>> /\ q.device = "none" /\ q.callee = 0
      /\ q.op \in {"fill", "zeros"} /\ q.form \in {"linalg", "std"} /\ (q.form = "linalg" => q.op = "fill")
  BY <1>4
<1>6. <<>> \in Seq(Values(Graph))
  OBVIOUS
<1>7. q \in OpType
  <2>1. PICK s : s = Seq(Values(Graph))
    OBVIOUS
  <2>2. <<>> \in s /\ 0 \in Nat /\ "none" \in Devices \cup {"gpu", "none"}
        /\ <<>> \in Values(Graph) \cup {<<>>} /\ "linalg" \in Forms /\ "std" \in Forms
    BY <1>6, <2>1 DEF Forms
  <2>3. OpType = [op : ComputeOps \cup {"constant", "print", "return", "other", "fill", "matmul", "zeros", "copied_zeros"},
                  form : Forms, of : Positions(Graph), result : Values(Graph), args : s,
                  dest : Values(Graph) \cup {<<>>}, device : Devices \cup {"gpu", "none"}, callee : Nat]
    BY <2>1 DEF OpType
  <2>4. QED
    BY <1>3, <1>4, <2>2, <2>3
<1>8. Input(q)' = Input(o)
  BY <1>5 DEF Input, AtLinalg
<1>9. AsLowered(q)'
  <2>1. AsDestination(q)'
    BY <1>2, <1>5 DEF AsDestination, AtLinalg
  <2>2. QED
    BY <1>1, <1>5, <1>8, <2>1 DEF AsLowered
<1>10. DeviceFollows(q)'
  <2>1. ~Computes(q)'
    BY <1>5, <1>8, KindsApart DEF Computes
  <2>2. ~OnGpu(q)'
    BY <1>5 DEF OnGpu
  <2>3. QED
    BY <1>5, <2>1, <2>2 DEF DeviceFollows, AtLinalg
<1>11. QED
  BY <1>2, <1>5, <1>7, <1>9, <1>10 DEF Becoming

(* The operands are what they were. *)
LEMMA OperandsRead ==
  ASSUME AtLinalg, NEW o \in OpType, AsRead(o), NEW q, q.of = o.of
  PROVE  Operands(q)' = o.args
<1>1. PICK v : v = o.of
  OBVIOUS
<1>2. PICK args : args = OpAt(Graph, v).args
  OBVIOUS
<1>3. o.args = [a \in DOMAIN Input(o).args |-> <<o.of[1], Input(o).args[a]>>]
  BY ReadFields
<1>4. Input(o) = OpAt(Graph, v) /\ Input(q)' = OpAt(Graph, v)
  BY <1>1 DEF Input, AtLinalg
<1>5. o.args = [a \in DOMAIN args |-> <<v[1], args[a]>>]
  BY <1>1, <1>2, <1>3, <1>4
<1>6. Operands(q)' = [a \in DOMAIN args |-> <<v[1], args[a]>>]
  BY <1>1, <1>2, <1>4 DEF Operands, AtLinalg
<1>7. QED
  BY <1>5, <1>6

(* So is the op that works into it. *)
LEMMA ToKernel ==
  ASSUME AtLinalg, NEW o \in OpType, AsRead(o), o.op \in ComputeOps, DeviceFollows(o),
         NEW q, q = ToDestination(o)
  PROVE  /\ Becoming(o, q) /\ q.result = o.of /\ q.args = o.args /\ q.dest = Append(o.of, "init")
         /\ q.op = KernelOf(o.op)
         /\ AsLowered(q)' /\ DeviceFollows(q)'
<1>1. o.result = o.of /\ o.op = Input(o).op /\ o.of \in Positions(Graph)
  BY ReadFields DEF OpType
<1>2. PICK r : r = Append(o.of, "init")
  OBVIOUS
<1>3. r \in Values(Graph)
  BY <1>1, <1>2 DEF Values
<1>4. PICK k : k = KernelOf(o.op)
  OBVIOUS
<1>5. k \in {"matmul", "add", "relu"}
  BY <1>4, KindsApart
<1>6. q = [o EXCEPT !.op = k, !.form = "linalg", !.dest = r]
  BY <1>1, <1>2, <1>4 DEF ToDestination, InitOf, OpType
<1>7. /\ q.op = k /\ q.form = "linalg" /\ q.dest = r /\ q.of = o.of /\ q.result = o.result
      /\ q.args = o.args /\ q.device = o.device
  BY <1>6 DEF OpType
<1>8. q \in OpType
  BY <1>3, <1>5, <1>6 DEF OpType, Forms, ComputeOps
<1>9. Input(q)' = Input(o)
  BY <1>7 DEF Input, AtLinalg
<1>10. AsLowered(q)'
  <2>1. AsKernel(q)'
    <3>1. q.args = Operands(q)'
      BY <1>7, OperandsRead
    <3>2. QED
      BY <1>1, <1>2, <1>4, <1>7, <1>9, <3>1 DEF AsKernel, AtLinalg
  <2>2. QED
    BY <1>1, <1>7, <1>9, <2>1 DEF AsLowered
<1>11. DeviceFollows(q)'
  <2>1. Computes(o)
    BY <1>1 DEF Computes
  <2>2. Placed => o.device = Placement(Options, Input(o))
    BY <2>1 DEF DeviceFollows, AtLinalg
  <2>3. ~OnGpu(q)'
    BY <1>7 DEF OnGpu
  <2>4. Placement(Options, Input(q))' = Placement(Options, Input(o))
    BY <1>9 DEF AtLinalg
  <2>5. q.op # "print"
    BY <1>5, <1>7
  <2>6. QED
    BY <1>7, <2>2, <2>3, <2>4, <2>5 DEF DeviceFollows, AtLinalg
<1>12. QED
  BY <1>1, <1>2, <1>4, <1>7, <1>8, <1>10, <1>11 DEF Becoming

(* So is an op without a kernel. *)
LEMMA ToItself ==
  ASSUME AtLinalg, NEW o \in OpType, AsRead(o), o.op \notin ComputeOps, o.op # "other", o.form # "call",
         DeviceFollows(o),
         NEW q, q = IF o.op = "constant" THEN [o EXCEPT !.form = "std", !.device = "none"] ELSE o
  PROVE  /\ Becoming(o, q) /\ q.result = o.of /\ q.dest = <<>>
         /\ q.op = KernelOf(o.op)
         /\ AsLowered(q)' /\ DeviceFollows(q)'
<1>1. /\ o.result = o.of /\ o.op = Input(o).op /\ o.dest = <<>>
      /\ o.form \in {"hexir", "std", "linalg", "call"}
      /\ o.form = "linalg" => o.op = "fill"
      /\ o.form = "hexir" => o.op \notin {"return", "fill"}
  BY ReadFields
<1>2. o.of \in Positions(Graph) /\ Input(o) = OpAt(Graph, o.of)
  BY DEF OpType, Input
<1>3. o.op \in {"constant", "print", "return", "fill"}
  <2>1. OpAt(Graph, o.of) \in GraphOpType
    BY <1>2, PositionTyped DEF AtLinalg
  <2>2. OpAt(Graph, o.of).op \in ComputeOps \cup {"constant", "print", "return", "other", "fill"}
    BY <2>1 DEF GraphOpType
  <2>3. QED
    BY <1>1, <1>2, <2>2
<1>4. /\ q.op = o.op /\ q.of = o.of /\ q.result = o.result /\ q.args = o.args /\ q.dest = <<>>
      /\ q.form = (IF o.op = "constant" THEN "std" ELSE o.form)
      /\ q.device = IF o.op = "constant" THEN "none" ELSE o.device
      /\ q \in OpType
  BY <1>1 DEF OpType, Forms
<1>5. Input(q)' = Input(o)
  BY <1>4 DEF Input, AtLinalg
<1>6. KernelOf(o.op) = o.op
  BY <1>3 DEF KernelOf
<1>7. AsLowered(q)'
  <2>1. q.args = Operands(q)'
    BY <1>4, OperandsRead
  <2>2. QED
    BY <1>1, <1>3, <1>4, <1>5, <2>1 DEF AsLowered
<1>8. DeviceFollows(q)'
  <2>1. ~Computes(q)'
    BY <1>1, <1>5 DEF Computes
  <2>2. Placed /\ o.op = "print" => o.device = Placement(Options, Input(o))
    BY DEF DeviceFollows, AtLinalg
  <2>3. ~OnGpu(q)'
    BY <1>1, <1>4 DEF OnGpu
  <2>4. Placement(Options, Input(q))' = Placement(Options, Input(o))
    BY <1>5 DEF AtLinalg
  <2>5. q.op = "print" => q.device = o.device
    BY <1>4
  <2>6. q.form \notin {"llvm", "kernel"}
    BY <1>1, <1>4
  <2>7. QED
    BY <1>4, <2>1, <2>2, <2>3, <2>4, <2>5, <2>6 DEF DeviceFollows, AtLinalg
<1>9. q.form # "call"
  BY <1>4
<1>10. QED
  BY <1>1, <1>4, <1>6, <1>7, <1>8, <1>9 DEF Becoming

(* What an op becomes: a destination and a kernel, or itself. *)
LEMMA LinalgPart ==
  ASSUME AtLinalg, NEW o \in OpType, AsRead(o), o.op # "other", o.form # "call", DeviceFollows(o),
         NEW part, part = LinalgOf(o)
  PROVE  /\ part \in Seq(OpType) /\ Len(part) \in Nat \ {0}
         /\ part[Len(part)].result = o.of /\ part[Len(part)].op = KernelOf(o.op)
         /\ \A j \in 1 .. Len(part) :
              /\ Becoming(o, part[j]) /\ AsLowered(part[j])' /\ DeviceFollows(part[j])'
              /\ part[j].dest # <<>> => j > 1 /\ part[j].dest = part[1].result
         /\ \A j, k \in 1 .. Len(part) : j < k => part[j].dest = <<>> /\ part[k].dest # <<>>
<1>1. CASE o.op \in ComputeOps
  <2>1. PICK a : a = IF o.op = "relu" THEN Zeros(o) ELSE Fill(o)
    OBVIOUS
  <2>2. PICK b : b = ToDestination(o)
    OBVIOUS
  <2>3. part = <<a, b>>
    BY <1>1, <2>1, <2>2 DEF LinalgOf, ComputeOps
  <2>4. /\ Becoming(o, a) /\ a.result = Append(o.of, "init") /\ a.args = <<>> /\ a.dest = <<>>
        /\ AsLowered(a)' /\ DeviceFollows(a)'
    BY <1>1, <2>1, ToInit
  <2>5. /\ Becoming(o, b) /\ b.result = o.of /\ b.args = o.args /\ b.dest = Append(o.of, "init")
        /\ b.op = KernelOf(o.op)
        /\ AsLowered(b)' /\ DeviceFollows(b)'
    BY <1>1, <2>2, ToKernel
  <2>6. a \in OpType /\ b \in OpType
    BY <2>4, <2>5 DEF Becoming
  <2>7. part \in Seq(OpType) /\ Len(part) = 2 /\ part[1] = a /\ part[2] = b
    BY <2>3, <2>6
  <2>8. \A j \in 1 .. Len(part) : j = 1 \/ j = 2
    BY <2>7
  <2>9. ASSUME NEW j \in 1 .. Len(part)
        PROVE  /\ Becoming(o, part[j]) /\ AsLowered(part[j])' /\ DeviceFollows(part[j])'
               /\ part[j].dest # <<>> => j > 1 /\ part[j].dest = part[1].result
    <3>1. CASE j = 1
      <4>1. PICK q : q = part[j]
        OBVIOUS
      <4>2. q = a
        BY <2>7, <3>1, <4>1
      <4>3. Becoming(o, q) /\ AsLowered(q)' /\ DeviceFollows(q)' /\ q.dest = <<>>
        BY <2>4, <4>2
      <4>4. QED
        BY <4>1, <4>3
    <3>2. CASE j = 2
      <4>1. PICK q : q = part[j]
        OBVIOUS
      <4>2. q = b
        BY <2>7, <3>2, <4>1
      <4>3. Becoming(o, q) /\ AsLowered(q)' /\ DeviceFollows(q)' /\ q.dest = Append(o.of, "init")
        BY <2>5, <4>2
      <4>4. q.dest = part[1].result /\ j > 1
        BY <2>4, <2>7, <3>2, <4>3
      <4>5. QED
        BY <4>1, <4>3, <4>4
    <3>3. QED
      BY <2>8, <3>1, <3>2
  <2>10. b.dest # <<>>
    BY <2>5, NotAPosition DEF OpType, AtLinalg
  <2>11. \A j, k \in 1 .. Len(part) : j < k => part[j].dest = <<>> /\ part[k].dest # <<>>
    <3>1. \A j, k \in 1 .. Len(part) : j < k => j = 1 /\ k = 2
      BY <2>8
    <3>2. QED
      BY <2>4, <2>7, <2>10, <3>1
  <2>12. QED
    BY <2>5, <2>7, <2>9, <2>11
<1>2. CASE o.op \notin ComputeOps
  <2>1. PICK q : q = IF o.op = "constant" THEN [o EXCEPT !.form = "std", !.device = "none"] ELSE o
    OBVIOUS
  <2>2. part = <<q>>
    BY <1>2, <2>1 DEF LinalgOf, ComputeOps
  <2>3. /\ Becoming(o, q) /\ q.result = o.of /\ q.dest = <<>> /\ q.op = KernelOf(o.op)
        /\ AsLowered(q)' /\ DeviceFollows(q)'
    BY <1>2, <2>1, ToItself
  <2>4. part \in Seq(OpType) /\ Len(part) = 1 /\ part[1] = q
    BY <2>2, <2>3 DEF Becoming
  <2>5. ASSUME NEW j \in 1 .. Len(part)
        PROVE  /\ Becoming(o, part[j]) /\ AsLowered(part[j])' /\ DeviceFollows(part[j])'
               /\ part[j].dest # <<>> => j > 1 /\ part[j].dest = part[1].result
    <3>1. PICK r : r = part[j]
      OBVIOUS
    <3>2. r = q
      BY <2>4, <3>1
    <3>3. Becoming(o, r) /\ AsLowered(r)' /\ DeviceFollows(r)' /\ r.dest = <<>>
      BY <2>3, <3>2
    <3>4. QED
      BY <3>1, <3>3
  <2>6. \A j, k \in 1 .. Len(part) : ~(j < k)
    BY <2>4
  <2>7. QED
    BY <2>3, <2>4, <2>5, <2>6
<1>3. QED
  BY <1>1, <1>2

(* ToLinalg keeps the invariant of the module. *)
LEMMA ToLinalgKeeps ==
  ASSUME job \in JobType, FileFollows, ModuleInv, ToLinalg, Convertible
  PROVE  ModuleInv'
<1>1. /\ Running("to_linalg") /\ UNCHANGED <<job, pc, exit, prims>> /\ passes' = Tail(passes)
      /\ body' = FlattenSeq([i \in DOMAIN body |-> LinalgOf(body[i])])
  BY DEF ToLinalg, Becomes, Rewritten
<1>2. /\ OpsFollow /\ DevicesFollow /\ body \in Seq(OpType) /\ \A i \in DOMAIN body : MadeBefore(i)
      /\ passes \in Seq(ToSet(Passes)) /\ prims \in Seq(PrimType) /\ PassesFollow /\ KernelsFollow
  BY DEF ModuleInv, OpsFollow
<1>3. \A i \in DOMAIN body : body[i] \in OpType
  BY <1>2
<1>4. /\ Ran' = Ran + 1 /\ Passes' = Passes /\ Graph' = Graph /\ Options' = Options
      /\ Loaded' /\ ~Finished' /\ WellFormedGraph(Graph)
      /\ passes' \in Seq(ToSet(Passes))
      /\ Len(passes') <= Len(Passes) /\ \A i \in DOMAIN passes' : passes'[i] = Passes[(Ran + 1) + i]
  BY <1>1, <1>2, OnePassMore
<1>5. Loaded /\ pc = "passes"
  BY <1>1, <1>2, PassRuns
<1>6. \/ job.emit = "linalg" /\ Ran = 1 /\ Ran' = 2
      \/ job.emit \in Heterogeneous /\ Ran = 2 /\ Ran' = 3
  BY <1>1, <1>2, <1>4, PassPlace
<1>7. AtLinalg /\ ~KernelLevel
  <2>1. CASE job.emit = "linalg" /\ Ran = 1 /\ Ran' = 2
    BY <1>1, <1>4, <2>1, Flags, FlagsThen DEF AtLinalg, Heterogeneous, LLVMStages
  <2>2. CASE job.emit \in Heterogeneous /\ Ran = 2 /\ Ran' = 3
    BY <1>1, <1>4, <2>2, Flags, FlagsThen DEF AtLinalg, Heterogeneous, LLVMStages
  <2>3. QED
    BY <1>6, <2>1, <2>2
<1>8. Calls = {} /\ Len(prims) = 0
  BY <1>1, NoCallsYet
<1>9. ASSUME NEW i \in DOMAIN body
      PROVE  /\ AsRead(body[i]) /\ body[i].op # "other" /\ body[i].form # "call" /\ DeviceFollows(body[i])
             /\ body[i] \in OpType
  <2>1. AsRead(body[i]) /\ DeviceFollows(body[i]) /\ body[i] \in OpType
    BY <1>2, <1>3, <1>7 DEF OpsFollow, DevicesFollow, AtLinalg
  <2>2. body[i].op = OpAt(Graph, body[i].of).op /\ body[i].of \in Positions(Graph)
    BY <2>1, ReadFields DEF Input, OpType
  <2>3. body[i].op # "other"
    BY <2>2 DEF Convertible
  <2>4. QED
    BY <1>8, <2>1, <2>3 DEF Calls
<1> DEFINE n == Len(body)
           seqs == [i \in 1 .. n |-> LinalgOf(body[i])]
           flat == FlattenSeq(seqs)
<1>10. n \in Nat /\ DOMAIN body = 1 .. n
  BY <1>2
<1>11. ASSUME NEW i \in 1 .. n
       PROVE  /\ seqs[i] \in Seq(OpType) /\ Len(seqs[i]) \in Nat \ {0}
              /\ seqs[i][Len(seqs[i])].result = body[i].of /\ seqs[i][Len(seqs[i])].op = KernelOf(body[i].op)
              /\ \A j \in 1 .. Len(seqs[i]) :
                   /\ Becoming(body[i], seqs[i][j])
                   /\ seqs[i][j].dest # <<>> => j > 1 /\ seqs[i][j].dest = seqs[i][1].result
              /\ \A j, k \in 1 .. Len(seqs[i]) : j < k => seqs[i][j].dest = <<>> /\ seqs[i][k].dest # <<>>
  <2>1. PICK o : o = body[i]
    OBVIOUS
  <2>2. PICK part : part = LinalgOf(o)
    OBVIOUS
  <2>3. seqs[i] = part
    BY <2>1, <2>2
  <2>4. o \in OpType /\ AsRead(o) /\ o.op # "other" /\ o.form # "call" /\ DeviceFollows(o)
    BY <1>9, <1>10, <2>1
  <2> HIDE DEF seqs
  <2>5. /\ part \in Seq(OpType) /\ Len(part) \in Nat \ {0}
        /\ part[Len(part)].result = o.of /\ part[Len(part)].op = KernelOf(o.op)
        /\ \A j \in 1 .. Len(part) :
             /\ Becoming(o, part[j])
             /\ part[j].dest # <<>> => j > 1 /\ part[j].dest = part[1].result
        /\ \A j, k \in 1 .. Len(part) : j < k => part[j].dest = <<>> /\ part[k].dest # <<>>
    BY <1>7, <2>2, <2>4, LinalgPart
  <2>6. QED
    BY <2>1, <2>3, <2>5
<1>12. ASSUME NEW i \in 1 .. n, NEW j \in 1 .. Len(seqs[i]), NEW q, q = seqs[i][j]
       PROVE  AsLowered(q)' /\ DeviceFollows(q)'
  <2>1. PICK o : o = body[i]
    OBVIOUS
  <2>2. PICK part : part = LinalgOf(o)
    OBVIOUS
  <2>3. seqs[i] = part
    BY <2>1, <2>2
  <2>4. o \in OpType /\ AsRead(o) /\ o.op # "other" /\ o.form # "call" /\ DeviceFollows(o)
    BY <1>9, <1>10, <2>1
  <2> HIDE DEF seqs
  <2>5. \A k \in 1 .. Len(part) : AsLowered(part[k])' /\ DeviceFollows(part[k])'
    BY <1>7, <2>2, <2>4, LinalgPart
  <2>6. q = part[j] /\ j \in 1 .. Len(part)
    BY <1>12, <2>3
  <2>7. QED
    BY <2>5, <2>6
<1>13. seqs \in Seq(Seq(OpType)) /\ Len(seqs) = n
  BY <1>10, <1>11
<1>14. body' = flat
  <2>1. [i \in DOMAIN body |-> LinalgOf(body[i])] = seqs
    BY <1>10
  <2>2. QED
    BY <1>1, <2>1
<1> HIDE DEF seqs
<1>15. PICK start : Laid(start, flat, seqs, n)
  BY <1>13, FlattenPlaces
<1>16. flat \in Seq(OpType) /\ Len(flat) \in Nat /\ DOMAIN flat = 1 .. Len(flat)
  BY <1>13, FlattenPlaces
<1> HIDE DEF flat, n
<1>17. ASSUME NEW l \in 1 .. Len(flat)
       PROVE  \E i \in 1 .. n : \E j \in 1 .. Len(seqs[i]) : l = start[i] + j /\ flat[l] = seqs[i][j]
  <2>1. PICK i \in 1 .. n, j \in Nat \ {0} : j <= Len(seqs[i]) /\ l = start[i] + j
    BY <1>15 DEF Laid
  <2>2. j \in 1 .. Len(seqs[i])
    BY <1>11, <2>1
  <2>3. flat[start[i] + j] = seqs[i][j]
    BY <1>15, <2>1 DEF Laid
  <2>4. QED
    BY <2>1, <2>2, <2>3
<1>18. ASSUME NEW i \in 1 .. n
       PROVE  \E l \in 1 .. Len(flat) : /\ l = start[i] + Len(seqs[i]) /\ flat[l].result = body[i].of
                                        /\ flat[l].op = KernelOf(body[i].op) /\ flat[l].of = body[i].of
  <2>1. PICK m : m = Len(seqs[i])
    OBVIOUS
  <2>2. m \in Nat \ {0} /\ m \in 1 .. Len(seqs[i])
    BY <1>11, <2>1
  <2>3. start[i] + m \in 1 .. Len(flat) /\ flat[start[i] + m] = seqs[i][m]
    BY SMTT(30), <1>15, <2>1, <2>2 DEF Laid
  <2>4. /\ seqs[i][m].result = body[i].of /\ seqs[i][m].op = KernelOf(body[i].op)
        /\ seqs[i][m].of = body[i].of
    BY <1>11, <2>1, <2>2 DEF Becoming
  <2>5. QED
    BY <2>1, <2>3, <2>4
<1>19. ASSUME NEW l \in 1 .. Len(flat), NEW value, value \in ToSet(flat[l].args) \cup ({flat[l].dest} \ {<<>>})
       PROVE  \E k \in 1 .. l - 1 : flat[k].result = value
  <2>1. PICK i \in 1 .. n : \E j \in 1 .. Len(seqs[i]) : l = start[i] + j /\ flat[l] = seqs[i][j]
    BY <1>17
  <2>2. PICK j \in 1 .. Len(seqs[i]) : l = start[i] + j /\ flat[l] = seqs[i][j]
    BY <2>1
  <2>3. PICK q : q = seqs[i][j]
    OBVIOUS
  <2>4. Becoming(body[i], q) /\ (q.dest # <<>> => j > 1 /\ q.dest = seqs[i][1].result)
    BY <1>11, <2>3
  <2>5. i \in Nat /\ j \in Nat /\ start[i] \in Nat /\ l \in Nat /\ Len(seqs[i]) \in Nat
    BY <1>10, <1>11, <1>15, <1>16 DEF Laid
  <2>6. CASE value \in ToSet(q.args)
    <3>1. value \in ToSet(body[i].args)
      <4>1. q.args # <<>>
        BY <2>6 DEF ToSet
      <4>2. QED
        BY <2>4, <2>6, <4>1 DEF Becoming
    <3>2. PICK p \in 1 .. i - 1 : body[p].result = value
      BY <1>2, <1>10, <3>1 DEF MadeBefore
    <3>3. p \in 1 .. n /\ p \in Nat /\ p < i
      BY <1>10, <2>5, <3>2
    <3>4. body[p].of = value
      BY <1>9, <1>10, <3>2, <3>3, ReadFields
    <3>5. PICK k \in 1 .. Len(flat) : k = start[p] + Len(seqs[p]) /\ flat[k].result = body[p].of
      BY <1>18, <3>3
    <3>6. start[p] + Len(seqs[p]) <= start[i]
      BY <1>15, <3>3 DEF Laid
    <3>7. k \in 1 .. l - 1
      BY <1>16, <2>2, <2>5, <3>5, <3>6
    <3>8. QED
      BY <3>4, <3>5, <3>7
  <2>7. CASE value = q.dest /\ q.dest # <<>>
    <3>1. j > 1 /\ value = seqs[i][1].result /\ 1 <= Len(seqs[i])
      BY <1>11, <2>4, <2>7
    <3>2. start[i] + 1 \in 1 .. Len(flat) /\ flat[start[i] + 1] = seqs[i][1]
      BY <1>15, <3>1 DEF Laid
    <3>3. start[i] + 1 \in 1 .. l - 1
      BY SMTT(30), <2>2, <2>5, <3>1
    <3>4. QED
      BY <3>1, <3>2, <3>3
  <2>8. QED
    BY <1>19, <2>2, <2>3, <2>6, <2>7
<1>19a. ASSUME NEW l \in 1 .. Len(flat), NEW m \in 1 .. Len(flat), l < m
        PROVE  \/ Before(flat[l].of, flat[m].of)
               \/ flat[l].of = flat[m].of /\ flat[l].dest = <<>> /\ flat[m].dest # <<>>
  <2>1. PICK i \in 1 .. n : \E j \in 1 .. Len(seqs[i]) : l = start[i] + j /\ flat[l] = seqs[i][j]
    BY <1>17
  <2>2. PICK j \in 1 .. Len(seqs[i]) : l = start[i] + j /\ flat[l] = seqs[i][j]
    BY <2>1
  <2>3. PICK p \in 1 .. n : \E q \in 1 .. Len(seqs[p]) : m = start[p] + q /\ flat[m] = seqs[p][q]
    BY <1>17
  <2>4. PICK q \in 1 .. Len(seqs[p]) : m = start[p] + q /\ flat[m] = seqs[p][q]
    BY <2>3
  <2>5. /\ i \in Nat /\ j \in Nat /\ start[i] \in Nat /\ l \in Nat /\ Len(seqs[i]) \in Nat /\ 1 <= j /\ j <= Len(seqs[i])
        /\ p \in Nat /\ q \in Nat /\ start[p] \in Nat /\ m \in Nat /\ Len(seqs[p]) \in Nat /\ 1 <= q /\ q <= Len(seqs[p])
    BY SMTT(30), <1>10, <1>11, <1>15, <1>16 DEF Laid
  <2>6. ~(p < i)
    <3>1. SUFFICES ASSUME p < i PROVE FALSE
      OBVIOUS
    <3>2. start[p] + Len(seqs[p]) <= start[i]
      BY <1>15, <3>1 DEF Laid
    <3>3. QED
      BY ONLY SMTT(30), <1>19a, <2>2, <2>4, <2>5, <3>2
  <2>7. flat[l].of = body[i].of /\ flat[m].of = body[p].of
    BY <1>11, <2>2, <2>4 DEF Becoming
  <2>8. CASE i < p
    <3>1. Before(body[i].of, body[p].of)
      BY <1>2, <1>7, <1>10, <2>8 DEF OpsFollow, AtLinalg
    <3>2. QED
      BY <2>7, <3>1
  <2>9. CASE i = p
    <3>1. j < q
      BY ONLY <1>19a, <2>2, <2>4, <2>5, <2>9
    <3>2. seqs[i][j].dest = <<>> /\ seqs[i][q].dest # <<>>
      BY <1>11, <2>9, <3>1
    <3>3. QED
      BY <2>2, <2>4, <2>7, <2>9, <3>2
  <2>10. QED
    BY <2>5, <2>6, <2>8, <2>9
<1>20. PICK ops : ops = body'
  OBVIOUS
<1>21. ops = flat
  BY <1>14, <1>20
<1>22. (\A i \in DOMAIN body : MadeBefore(i))'
  <2>1. \A i \in DOMAIN ops : \A value \in ToSet(ops[i].args) \cup ({ops[i].dest} \ {<<>>}) :
          \E k \in 1 .. i - 1 : ops[k].result = value
    <3>1. SUFFICES ASSUME NEW i \in DOMAIN ops, NEW value \in ToSet(ops[i].args) \cup ({ops[i].dest} \ {<<>>})
                   PROVE  \E k \in 1 .. i - 1 : ops[k].result = value
      OBVIOUS
    <3>2. i \in 1 .. Len(flat)
      BY <1>16, <1>21
    <3>3. value \in ToSet(flat[i].args) \cup ({flat[i].dest} \ {<<>>})
      BY <1>21
    <3>4. PICK k \in 1 .. i - 1 : flat[k].result = value
      BY <1>19, <3>2, <3>3
    <3>5. QED
      BY <1>21, <3>4
  <2>2. QED
    BY <1>20, <2>1 DEF MadeBefore
<1>23. ASSUME NEW l \in DOMAIN ops
       PROVE  AsLowered(ops[l])' /\ DeviceFollows(ops[l])' /\ ops[l].form # "call"
  <2>1. PICK i \in 1 .. n : \E j \in 1 .. Len(seqs[i]) : flat[l] = seqs[i][j]
    BY <1>16, <1>17, <1>21
  <2>2. PICK j \in 1 .. Len(seqs[i]) : flat[l] = seqs[i][j]
    BY <2>1
  <2>3. PICK q : q = seqs[i][j]
    OBVIOUS
  <2>4. AsLowered(q)' /\ DeviceFollows(q)'
    BY <1>12, <2>3
  <2>5. q.form # "call"
    BY <1>11, <2>3 DEF Becoming
  <2>6. ops[l] = q
    BY <1>21, <2>2, <2>3
  <2>7. QED
    BY <2>4, <2>5, <2>6
<1>24. OpsFollow'
  <2>1. OpType' = OpType /\ Positions(Graph)' = Positions(Graph)
    BY <1>4 DEF OpType, Values, Positions
  <2>2. ops \in Seq(OpType)
    BY <1>16, <1>21
  <2>3. ASSUME NEW v \in Positions(Graph)
        PROVE  \E l \in DOMAIN ops : ops[l].of = v /\ ops[l].op = KernelOf(OpAt(Graph, v).op)
    <3>1. PICK i \in DOMAIN body : body[i].of = v /\ body[i].op = OpAt(Graph, v).op
      BY <1>2, <1>5, <1>7 DEF OpsFollow, AtLinalg
    <3>2. PICK l \in 1 .. Len(flat) : flat[l].op = KernelOf(body[i].op) /\ flat[l].of = body[i].of
      BY <1>10, <1>18
    <3>3. QED
      BY <1>16, <1>21, <3>1, <3>2
  <2>4. \A l \in DOMAIN body' : AsLowered(body[l])'
    BY <1>20, <1>23
  <2>5. \A i, j \in DOMAIN ops : i < j =>
          \/ Before(ops[i].of, ops[j].of)
          \/ ops[i].of = ops[j].of /\ ops[i].dest = <<>> /\ ops[j].dest # <<>>
    BY <1>16, <1>19a, <1>21
  <2>6. QED
    BY <1>4, <1>7, <1>20, <2>1, <2>2, <2>3, <2>4, <2>5 DEF OpsFollow, AtLinalg
<1>25. DevicesFollow'
  BY <1>20, <1>23 DEF DevicesFollow
<1>26. KernelsFollow'
  <2>1. Calls' = {}
    BY <1>20, <1>23 DEF Calls
  <2>2. {body[i].of : i \in Calls}' = {}
    BY <2>1
  <2>3. Len(prims') = 0
    BY <1>1, <1>8
  <2>4. DOMAIN prims' = {}
    BY <1>1, <1>8, <2>3
  <2>5. QED
    BY <2>1, <2>2, <2>3, <2>4, FS_EmptySet DEF KernelsFollow
<1>27. PassesFollow'
  <2>1. ~KernelLevel'
    BY <1>1, <1>7 DEF KernelLevel
  <2>2. QED
    BY <1>4, <2>1 DEF PassesFollow
<1>28. QED
  BY <1>1, <1>2, <1>4, <1>22, <1>24, <1>25, <1>26, <1>27 DEF ModuleInv

-----------------------------------------------------------------------------
(* LowerOne.                                                                *)

(* There is a first op to lower. *)
LEMMA FirstOfWork ==
  ASSUME body \in Seq(OpType), Work # {}
  PROVE  Min(Work) \in Work /\ \A j \in Work : Min(Work) <= j
<1>1. Work \subseteq Nat
  BY DEF Work
<1> DEFINE R == OpToRel(<, Nat)
<1>2. IsWellFoundedOn(R, Nat)
  BY NatLessThanWellFounded
<1>3. PICK x \in Work : \A y \in Work : ~(<<y, x>> \in R)
  <2> HIDE DEF R
  <2>1. QED BY <1>1, <1>2, WFMin
<1>4. \A y \in Work : ~(y < x)
  <2>1. \A y \in Work : y \in Nat /\ x \in Nat
    BY <1>1
  <2>2. QED
    BY <1>3, <2>1 DEF OpToRel
<1>5. \A y \in Work : x <= y
  <2> HIDE DEF R
  <2>1. QED
    BY <1>1, <1>4
<1>6. QED
  BY <1>5 DEF Min

(* There are finitely many calls. *)
LEMMA CallsFinite ==
  ASSUME body \in Seq(OpType)
  PROVE  IsFiniteSet({body[i].of : i \in Calls})
<1>1. Len(body) \in Nat /\ Calls \subseteq 1 .. Len(body)
  BY DEF Calls
<1>2. IsFiniteSet(Calls)
  <2>1. IsFiniteSet(1 .. Len(body))
    BY <1>1, FS_Interval
  <2>2. QED
    BY <1>1, <2>1, FS_Subset
<1> DEFINE f == [i \in Calls |-> body[i].of]
           T == {body[i].of : i \in Calls}
<1>3. f \in Surjection(Calls, T)
  BY DEF Surjection
<1>4. QED
  BY <1>2, <1>3, FS_Surjection

(* Where the pass that lowers to kernels is, and what it has before it. *)
Lowering ==
  /\ job \in JobType /\ FileFollows /\ ModuleInv /\ Running("to_tir") /\ Work # {}
  /\ KernelLevel /\ Placed /\ ~Linalged /\ ~Looped /\ ~OnKernels /\ ~InLLVM
  /\ Loaded /\ ~Finished /\ WellFormedGraph(Graph)

(* The prim func made next is that of the first op still to be lowered. *)
LEMMA NextKernel ==
  ASSUME Lowering, NEW i, i = Min(Work)
  PROVE  /\ i \in DOMAIN body /\ i \in Work /\ \A j \in Work : i <= j
         /\ body[i].of \in Compute(Graph)
         /\ Len(prims) + 1 = PrimIndex(Graph, body[i].of)
         /\ Cardinality({body[j].of : j \in Calls} \cup {body[i].of}) = Len(prims) + 1
<1>1. /\ body \in Seq(OpType) /\ OpsFollow /\ KernelsFollow
      /\ \A j \in DOMAIN body : AsRead(body[j])
      /\ \A j, k \in DOMAIN body : j < k => Before(body[j].of, body[k].of)
  BY DEF ModuleInv, OpsFollow, Lowering
<1>2. i \in Work /\ \A j \in Work : i <= j
  BY <1>1, FirstOfWork DEF Lowering
<1>3. i \in DOMAIN body /\ body[i].op \in ComputeOps /\ DOMAIN body = 1 .. Len(body) /\ Len(body) \in Nat
  BY <1>1, <1>2 DEF Work
<1>4. ASSUME NEW j \in DOMAIN body
      PROVE  body[j].of \in Positions(Graph) /\ body[j].op = OpAt(Graph, body[j].of).op
  <2>1. body[j] \in OpType /\ AsRead(body[j])
    BY <1>1
  <2>2. QED
    BY <2>1, ReadFields DEF OpType, Input
<1> DEFINE v == body[i].of
           made == {body[j].of : j \in Calls}
<1>5. v \in Compute(Graph)
  BY <1>3, <1>4 DEF Compute
<1>6. ASSUME NEW u \in made
      PROVE  u \in Compute(Graph) /\ Before(u, v) /\ ~Before(v, u) /\ u # v
  <2>1. PICK j \in Calls : u = body[j].of
    OBVIOUS
  <2>2. j \in DOMAIN body /\ body[j].form = "call"
    BY <2>1 DEF Calls
  <2>3. body[j].op \in ComputeOps
    BY <1>1, <2>2, ReadFields
  <2>4. u \in Compute(Graph)
    BY <1>4, <2>1, <2>2, <2>3 DEF Compute
  <2>5. j < i
    BY <1>1, <1>2, <2>1 DEF KernelsFollow
  <2>6. Before(u, v)
    BY <1>1, <1>3, <2>1, <2>2, <2>5
  <2>7. u[1] \in Nat /\ u[2] \in Nat /\ v[1] \in Nat /\ v[2] \in Nat
    BY <1>5, <2>4, PositionTyped DEF Compute, Lowering
  <2>8. ~Before(v, u) /\ u # v
    <3> HIDE DEF v
    <3>1. QED
      BY <2>6, <2>7 DEF Before
  <2>9. QED
    BY <2>4, <2>6, <2>8
<1>7. ASSUME NEW u \in Compute(Graph), ~Before(v, u), u # v
      PROVE  u \in made
  <2>1. u \in Positions(Graph) /\ OpAt(Graph, u).op \in ComputeOps
    BY <1>7 DEF Compute
  <2>2. PICK k \in DOMAIN body : body[k].of = u /\ body[k].op = OpAt(Graph, u).op
    BY <1>1, <2>1 DEF OpsFollow, Lowering
  <2>3. body[k].form \in {"hexir", "call"}
    BY <1>1, <2>1, <2>2, ReadFields
  <2>4. ASSUME body[k].form = "hexir" PROVE FALSE
    <3>1. k \in Work
      BY <2>1, <2>2, <2>4 DEF Work
    <3>2. i <= k /\ k # i
      BY <1>2, <1>7, <2>2, <3>1
    <3>3. i < k
      BY <1>3, <3>2
    <3>4. Before(v, u)
      BY <1>1, <1>3, <2>2, <3>3
    <3>5. QED
      BY <1>7, <3>4
  <2>5. k \in Calls
    BY <2>3, <2>4 DEF Calls
  <2>6. QED
    BY <2>2, <2>5
<1>8. ~Before(v, v)
  <2>1. v[1] \in Nat /\ v[2] \in Nat
    BY <1>5, PositionTyped DEF Compute, Lowering
  <2> HIDE DEF v
  <2>2. QED
    BY <2>1 DEF Before
<1> HIDE DEF v
<1>9. {u \in Compute(Graph) : ~Before(v, u)} = made \cup {v}
  <2> HIDE DEF made
  <2>1. QED
    BY <1>5, <1>6, <1>7, <1>8
<1>10. Cardinality(made \cup {v}) = Cardinality(made) + 1
  <2>1. IsFiniteSet(made)
    BY <1>1, CallsFinite
  <2>2. v \notin made
    BY <1>6
  <2> HIDE DEF made
  <2>3. QED
    BY <2>1, <2>2, FS_AddElement
<1>11. Len(prims) = Cardinality(made)
  BY <1>1 DEF KernelsFollow
<1>12. PrimIndex(Graph, v) = Cardinality(made \cup {v})
  BY <1>5, <1>9 DEF PrimIndex
<1>13. QED
  BY <1>2, <1>3, <1>5, <1>10, <1>11, <1>12 DEF v

(* What lowerOne makes of it. *)
KernelMade(o) ==
  [kernel |-> KernelName(o.op), device |-> DeviceOf(o), rank2 |-> TRUE, m |-> Input(o).rows,
   n |-> Input(o).cols, k |-> IF o.op = "linear" THEN OpAt(Graph, o.args[1]).cols ELSE 0]

(* The prim func made of the first op to lower is the one stated for it. *)
LEMMA NextPrim ==
  ASSUME Lowering, Resolved, preferred \in [RegisteredOps -> Devices], NEW i, i = Min(Work),
         NEW o, o = body[i]
  PROVE  KernelMade(o) = PrimOf(Graph, o.of, Placement(Options, Input(o))) /\ KernelMade(o) \in PrimType
<1>1. i \in DOMAIN body /\ i \in Work /\ o.of \in Compute(Graph)
  BY NextKernel
<1>2. AsRead(o) /\ DeviceFollows(o)
  BY <1>1 DEF ModuleInv, OpsFollow, DevicesFollow, Lowering
<1>3. /\ o.op = Input(o).op /\ o.op \in ComputeOps
      /\ o.args = [a \in DOMAIN Input(o).args |-> <<o.of[1], Input(o).args[a]>>]
  <2>1. o.op \in ComputeOps
    BY <1>1 DEF Work
  <2>2. o.op = Input(o).op /\ o.args = [a \in DOMAIN Input(o).args |-> <<o.of[1], Input(o).args[a]>>]
    BY ONLY <1>2, ReadFields
  <2>3. QED
    BY <2>1, <2>2
<1> DEFINE v == o.of
           read == OpAt(Graph, v)
<1>4. v \in Positions(Graph) /\ Input(o) = read /\ read \in GraphOpType
  BY <1>1, PositionTyped DEF Compute, Input, Lowering
<1>5. o.device \in Devices \cup {"gpu"} /\ o.device = Placement(Options, Input(o))
  <2>1. o.device = Placement(Options, Input(o))
    BY <1>2, <1>3 DEF DeviceFollows, Computes, Lowering
  <2>2. Placement(Options, read) \in Devices \cup {"gpu"}
    BY <1>3, <1>4, PlacedSomewhere DEF Lowering, Running, PastTheLine
  <2>3. QED
    BY <1>4, <2>1, <2>2
<1>6. DeviceOf(o) = o.device
  BY <1>5 DEF DeviceOf, Devices
<1>7. KernelName(o.op) = KernelOf(o.op) /\ KernelOf(o.op) \in KernelKinds
  BY <1>3 DEF KernelName, KernelOf, ComputeOps, KernelKinds
<1>8. PICK c : c = IF o.op = "linear" THEN OpAt(Graph, o.args[1]).cols ELSE 0
  OBVIOUS
<1>9. c \in Nat /\ c = IF read.op = "linear" THEN OpAt(Graph, <<v[1], read.args[1]>>).cols ELSE 0
  <2>1. CASE o.op # "linear"
    BY <1>3, <1>4, <1>8, <2>1
  <2>2. CASE o.op = "linear"
    <3>1. Len(read.args) = 2
      <4>1. WellFormedGraph(Graph)
        BY DEF Lowering
      <4>2. read.op = "linear"
        BY <1>3, <1>4, <2>2
      <4>3. QED
        BY <1>4, <4>1, <4>2, Arity
    <3>2. read.args \in Seq(Nat)
      BY <1>4 DEF GraphOpType
    <3>3. 1 \in DOMAIN read.args
      <4>1. Len(read.args) >= 2
        BY ONLY <3>1
      <4>2. QED
        BY <3>2, <4>1
    <3>4. o.args[1] = <<v[1], read.args[1]>>
      BY <1>3, <1>4, <3>3
    <3>5. <<v[1], read.args[1]>> \in Positions(Graph)
      BY <1>4, <3>3, OperandsAreEarlier DEF Lowering
    <3>6. OpAt(Graph, <<v[1], read.args[1]>>) \in GraphOpType
      BY <3>5, PositionTyped DEF Lowering
    <3>7. OpAt(Graph, <<v[1], read.args[1]>>).cols \in Nat
      BY <3>6 DEF GraphOpType
    <3> HIDE DEF v, read
    <3>8. o.op = read.op
      BY <1>3, <1>4
    <3>9. QED
      BY <1>8, <2>2, <3>4, <3>7, <3>8
  <2>3. QED
    BY <2>1, <2>2
<1>10. read.rows \in Nat /\ read.cols \in Nat
  BY <1>4 DEF GraphOpType
<1>11. KernelMade(o) = [kernel |-> KernelOf(o.op), device |-> o.device, rank2 |-> TRUE, m |-> read.rows,
                        n |-> read.cols, k |-> c]
  BY <1>4, <1>6, <1>7, <1>8 DEF KernelMade
<1>12. PrimOf(Graph, v, Placement(Options, Input(o))) =
         [kernel |-> KernelOf(o.op), device |-> o.device, rank2 |-> TRUE, m |-> read.rows,
          n |-> read.cols, k |-> c]
  BY <1>3, <1>4, <1>5, <1>9 DEF PrimOf
<1>13. KernelMade(o) \in PrimType
  BY <1>5, <1>7, <1>9, <1>10, <1>11 DEF PrimType
<1>14. QED
  BY <1>11, <1>12, <1>13

(* LowerOne keeps the invariant of the module. *)
LEMMA LowerOneKeeps ==
  ASSUME job \in JobType, FileFollows, Resolved, preferred \in [RegisteredOps -> Devices], ModuleInv,
         Running("to_tir"), Work # {}, UNCHANGED <<job, pc, command, passes, exit, file>>,
         NEW i, i = Min(Work), NEW o, o = body[i], Input(o).regular,
         prims' = Append(prims, KernelMade(o)),
         body' = [body EXCEPT ![i].form = "call", ![i].callee = Callee]
  PROVE  ModuleInv'
<1>1. /\ body \in Seq(OpType) /\ OpsFollow /\ KernelsFollow /\ DevicesFollow /\ PassesFollow
      /\ passes \in Seq(ToSet(Passes)) /\ prims \in Seq(PrimType) /\ \A j \in DOMAIN body : MadeBefore(j)
  BY DEF ModuleInv, OpsFollow
<1>2. job.emit \in {"tir", "hxb"} /\ Ran = 2 /\ Loaded /\ ~Finished /\ WellFormedGraph(Graph)
  BY <1>1, PassPlace, PassRuns DEF PassesFollow
<1>3. KernelLevel /\ Placed /\ ~Linalged /\ ~Looped /\ ~OnKernels /\ ~InLLVM
  BY <1>2, Flags DEF Heterogeneous, LLVMStages
<1>4. Lowering
  BY <1>2, <1>3 DEF Lowering
<1>5. /\ i \in DOMAIN body /\ i \in Work /\ \A j \in Work : i <= j
      /\ o.of \in Compute(Graph)
      /\ Len(prims) + 1 = PrimIndex(Graph, o.of)
      /\ Cardinality({body[j].of : j \in Calls} \cup {o.of}) = Len(prims) + 1
  BY <1>4, NextKernel
<1>6. KernelMade(o) = PrimOf(Graph, o.of, Placement(Options, Input(o))) /\ KernelMade(o) \in PrimType
  BY <1>4, NextPrim
<1>7. Len(prims) \in Nat /\ DOMAIN body = 1 .. Len(body) /\ Len(body) \in Nat /\ o \in OpType
  BY <1>1, <1>5
<1>8. UNCHANGED <<Graph, Options, Ran, Passes, Loaded, Finished, KernelLevel, Placed, Linalged, Looped, OnKernels,
                  InLLVM, Buffered, HasOutlines>>
  BY DEF Graph, Options, Ran, Passes, Loaded, Finished, KernelLevel, Placed, Linalged, Looped, OnKernels,
                  InLLVM, Buffered, HasOutlines, LinalgPasses
<1>9. PICK q : q = body'[i]
  OBVIOUS
<1>10. q = [o EXCEPT !.form = "call", !.callee = Len(prims) + 1]
  BY <1>1, <1>5, <1>9 DEF Callee
<1>11. /\ q.op = o.op /\ q.of = o.of /\ q.result = o.result /\ q.args = o.args /\ q.dest = o.dest
       /\ q.device = o.device /\ q.form = "call" /\ q.callee = Len(prims) + 1 /\ q \in OpType
  <2>1. PICK c : c = Len(prims) + 1
    OBVIOUS
  <2>2. c \in Nat /\ "call" \in Forms
    BY ONLY <1>7, <2>1 DEF Forms
  <2>3. q = [o EXCEPT !.form = "call", !.callee = c]
    BY ONLY <1>10, <2>1
  <2>4. /\ q.op = o.op /\ q.of = o.of /\ q.result = o.result /\ q.args = o.args /\ q.dest = o.dest
        /\ q.device = o.device /\ q.form = "call" /\ q.callee = c /\ q \in OpType
    BY ONLY <1>7, <2>2, <2>3 DEF OpType
  <2>5. QED
    BY ONLY <2>1, <2>4
<1>12. /\ DOMAIN body' = DOMAIN body /\ body' \in Seq(OpType)
       /\ \A j \in DOMAIN body : j # i => body'[j] = body[j]
  <2>1. body' = [body EXCEPT ![i] = q]
    BY <1>5, <1>10 DEF Callee
  <2>2. PICK ops : ops = [body EXCEPT ![i] = q]
    OBVIOUS
  <2>3. DOMAIN ops = DOMAIN body /\ ops \in Seq(OpType) /\ \A j \in DOMAIN body : j # i => ops[j] = body[j]
    BY ONLY <1>1, <1>5, <1>11, <2>2
  <2>4. body' = ops
    BY ONLY <2>1, <2>2
  <2>5. QED
    BY ONLY <2>3, <2>4
<1>13. ASSUME NEW j \in DOMAIN body
       PROVE  /\ body'[j].op = body[j].op /\ body'[j].of = body[j].of /\ body'[j].result = body[j].result
              /\ body'[j].args = body[j].args /\ body'[j].dest = body[j].dest
              /\ body'[j].device = body[j].device
  BY <1>9, <1>11, <1>12
<1>14. Input(q)' = Input(o)
  BY <1>8, <1>11 DEF Input
<1>15. (\A j \in DOMAIN body : MadeBefore(j))'
  BY <1>1, <1>12, <1>13, ValuesKept
<1>16. PassesFollow'
  <2>1. passes # <<>>
    BY DEF Running
  <2>2. QED
    BY <1>1, <1>2, <1>8, <2>1 DEF PassesFollow
<1>17. OpsFollow'
  <2>1. OpType' = OpType
    BY <1>8 DEF OpType, Values, Positions
  <2>2. ASSUME NEW j \in DOMAIN body
        PROVE  AsRead(body[j])'
    <3>1. PICK r : r = body'[j]
      OBVIOUS
    <3>2. PICK p : p = body[j]
      OBVIOUS
    <3>3. AsRead(p)
      BY <1>1, <1>3, <3>2 DEF OpsFollow
    <3>4. /\ r.op = p.op /\ r.of = p.of /\ r.result = p.result /\ r.args = p.args /\ r.dest = p.dest
      BY <1>13, <3>1, <3>2
    <3>5. r.form = p.form \/ (r.form = "call" /\ p.op \in ComputeOps)
      BY <1>5, <1>9, <1>11, <1>12, <3>1, <3>2 DEF Work
    <3>6. Parsed(r.of)' = Parsed(p.of)
      BY <1>8, <3>4 DEF Parsed
    <3>7. AsRead(r)'
      <4>1. PICK e : e = Parsed(p.of)
        OBVIOUS
      <4>2. /\ p.op = e.op /\ p.args = e.args /\ p.result = p.of /\ p.dest = <<>>
            /\ p.form = e.form \/ (p.form = "call" /\ e.op \in ComputeOps)
        BY <3>3, <4>1 DEF AsRead
      <4>3. /\ r.op = e.op /\ r.args = e.args /\ r.result = r.of /\ r.dest = <<>>
            /\ r.form = e.form \/ (r.form = "call" /\ e.op \in ComputeOps)
        BY <3>4, <3>5, <4>2
      <4>4. QED
        BY <3>6, <4>1, <4>3 DEF AsRead
    <3>8. QED
      BY <3>1, <3>7
  <2>3. \A j, k \in DOMAIN body' : j < k => Before(body'[j].of, body'[k].of)
    BY <1>1, <1>3, <1>12, <1>13 DEF OpsFollow
  <2>4. ASSUME NEW v \in Positions(Graph)
        PROVE  \E j \in DOMAIN body' : body'[j].of = v /\ body'[j].op = OpAt(Graph, v).op
    <3>1. PICK j \in DOMAIN body : body[j].of = v /\ body[j].op = OpAt(Graph, v).op
      BY <1>1, <1>2, <1>3 DEF OpsFollow
    <3>2. QED
      BY <1>12, <1>13, <3>1
  <2>5. Loaded' => \A v \in Positions(Graph) : \E j \in DOMAIN body' :
                     body'[j].of = v /\ body'[j].op = OpAt(Graph, v).op
    BY <2>4
  <2>6. \A j \in DOMAIN body' : AsRead(body[j])'
    BY <1>12, <2>2
  <2>7. ~Linalged' /\ Graph' = Graph /\ body' \in Seq(OpType')
    BY <1>3, <1>8, <1>12, <2>1
  <2>8. QED
    BY ONLY <2>3, <2>5, <2>6, <2>7 DEF OpsFollow
<1>18. DevicesFollow'
  <2>1. DeviceFollows(q)'
    <3>1. DeviceFollows(o)
      BY <1>1, <1>5 DEF DevicesFollow
    <3>2. (Computes(q)' <=> Computes(o)) /\ Placement(Options, Input(q))' = Placement(Options, Input(o))
      BY <1>8, <1>11, <1>14 DEF Computes
    <3>3. o.op # "print"
      BY <1>5 DEF Work, ComputeOps
    <3>4. Computes(o) => o.device = Placement(Options, Input(o))
      BY <1>3, <3>1 DEF DeviceFollows
    <3>5. ~OnGpu(q)' /\ q.form # "linalg" /\ q.form # "launch" /\ q.form \notin {"llvm", "kernel"}
      BY <1>11 DEF OnGpu
    <3>6. q.op # "print"
      BY <1>11, <3>3
    <3>7. QED
      BY <1>3, <1>8, <1>11, <3>2, <3>4, <3>5, <3>6 DEF DeviceFollows
  <2>2. ASSUME NEW j \in DOMAIN body, j # i
        PROVE  DeviceFollows(body[j])'
    <3>1. PICK p : p = body[j]
      OBVIOUS
    <3>2. DeviceFollows(p) /\ body'[j] = p
      BY <1>1, <1>12, <2>2, <3>1 DEF DevicesFollow
    <3>3. DeviceFollows(p)'
      BY <1>8, <3>2 DEF DeviceFollows, Computes, OnGpu, Input
    <3>4. QED
      BY <3>2, <3>3
  <2>3. QED
    BY <1>9, <1>12, <2>1, <2>2 DEF DevicesFollow
<1>19. KernelsFollow'
  <2>1. Calls' = Calls \cup {i} /\ i \notin Calls
    BY ZenonT(40), <1>5, <1>9, <1>11, <1>12 DEF Calls, Work
  <2>2. Work' = Work \ {i}
    BY <1>9, <1>11, <1>12, <1>13 DEF Work
  <2>3. {body[j].of : j \in Calls}' = {body[j].of : j \in Calls} \cup {o.of}
    <3>1. \A j \in Calls' : body'[j].of = body[j].of
      BY <1>13, <2>1, <1>5 DEF Calls
    <3>2. {body'[j].of : j \in Calls'} = {body[j].of : j \in Calls \cup {i}}
      BY ZenonT(40), <2>1, <3>1
    <3>3. QED
      BY <3>2
  <2>4. /\ Len(prims') = Len(prims) + 1 /\ prims'[Len(prims) + 1] = KernelMade(o)
        /\ \A p \in DOMAIN prims : p \in DOMAIN prims' /\ prims'[p] = prims[p]
        /\ Len(prims) + 1 \in DOMAIN prims'
    BY <1>1, <1>6
  <2>5. Len(prims') = Cardinality({body[j].of : j \in Calls}')
    BY <1>5, <2>3, <2>4
  <2>6. ASSUME NEW j \in Calls'
        PROVE  (/\ body[j].callee \in DOMAIN prims /\ body[j].callee = PrimIndex(Graph, body[j].of)
                /\ Input(body[j]).regular
                /\ prims[body[j].callee] = PrimOf(Graph, body[j].of, Placement(Options, Input(body[j])))
                /\ \A w \in Work : j < w)'
    <3>1. CASE j = i
      <4>1. \A w \in Work' : i < w
        <5>1. Work \subseteq Nat /\ i \in Nat
            <6>1. DOMAIN body \subseteq Nat
              BY ONLY <1>7
            <6>2. Work \subseteq DOMAIN body
              BY ONLY DEF Work
            <6>3. QED
              BY ONLY <1>5, <6>1, <6>2
        <5>2. QED
          BY ONLY <1>5, <2>2, <5>1
      <4>2. /\ q.callee = Len(prims) + 1 /\ q.callee = PrimIndex(Graph, q.of)
            /\ Input(q)'.regular
            /\ prims'[q.callee] = PrimOf(Graph, q.of, Placement(Options, Input(q)'))
        BY <1>5, <1>6, <1>11, <1>14, <2>4
      <4>3. PrimIndex(Graph, q.of)' = PrimIndex(Graph, q.of)
        BY <1>8
      <4>4. PrimOf(Graph, q.of, Placement(Options, Input(q)))' = PrimOf(Graph, q.of, Placement(Options, Input(q)'))
        BY <1>8
      <4>5. QED
        BY ONLY <1>9, <2>4, <3>1, <4>1, <4>2, <4>3, <4>4
    <3>2. CASE j # i
      <4>1. j \in Calls /\ j \in DOMAIN body
        BY <2>1, <3>2 DEF Calls
      <4>2. PICK p : p = body[j]
        OBVIOUS
      <4>3. body'[j] = p
        BY <1>12, <3>2, <4>1, <4>2
      <4>4. /\ p.callee \in DOMAIN prims /\ p.callee = PrimIndex(Graph, p.of) /\ Input(p).regular
            /\ prims[p.callee] = PrimOf(Graph, p.of, Placement(Options, Input(p)))
            /\ \A w \in Work : j < w
        BY <1>1, <4>1, <4>2 DEF KernelsFollow
      <4>5. Input(p)' = Input(p)
        BY <1>8 DEF Input
      <4>6. PrimIndex(Graph, p.of)' = PrimIndex(Graph, p.of)
        BY <1>8
      <4>7. PrimOf(Graph, p.of, Placement(Options, Input(p)))' = PrimOf(Graph, p.of, Placement(Options, Input(p)))
        BY <1>8, <4>5
      <4>8. p.callee \in DOMAIN prims' /\ prims'[p.callee] = prims[p.callee]
        BY <2>4, <4>4
      <4>9. QED
        BY <2>2, <4>3, <4>4, <4>5, <4>6, <4>7, <4>8
    <3>3. QED
      BY <3>1, <3>2
  <2>7. ASSUME NEW p \in DOMAIN prims' PROVE \E j \in Calls' : body'[j].callee = p
    <3>1. CASE p = Len(prims) + 1
      BY <1>9, <1>11, <2>1, <3>1
    <3>2. CASE p # Len(prims) + 1
      <4>1. p \in DOMAIN prims
        <5>1. PICK made \in Seq(PrimType) : made = prims
          BY <1>1
        <5>2. DOMAIN prims' = 1 .. Len(made) + 1
          BY <1>6, <5>1
        <5>3. QED
          BY <3>2, <5>1, <5>2
      <4>2. PICK j \in Calls : body[j].callee = p
        BY <1>1, <4>1 DEF KernelsFollow
      <4>3. j \in DOMAIN body /\ j # i
        BY <2>1, <4>2 DEF Calls
      <4>4. body'[j] = body[j] /\ j \in Calls'
        BY <1>12, <2>1, <4>3
      <4>5. QED
        BY <4>2, <4>4
    <3>3. QED
      BY <3>1, <3>2
  <2>8. QED
    BY <1>3, <1>8, <2>5, <2>6, <2>7 DEF KernelsFollow
<1>20. prims' \in Seq(PrimType) /\ (passes \in Seq(ToSet(Passes)))'
  BY <1>1, <1>6, <1>8
<1>21. QED
  BY <1>15, <1>16, <1>17, <1>18, <1>19, <1>20 DEF ModuleInv

-----------------------------------------------------------------------------
(* The inductive invariant.                                                 *)

(* The parts of the state that are not the module or the command line. *)
Scalars ==
  /\ exit \in Exits /\ chip \in {"sm_75", "sm_80", "sm_86"}
  /\ preferred \in [RegisteredOps -> Devices]
  /\ file \in {"previous", "empty", "partial", "module"}

(* The scalars are of their types at the start. *)
LEMMA ScalarsStart ==
  ASSUME Init
  PROVE  Scalars
<1>1. /\ chip = Options.gpuChip /\ exit = "running" /\ file = "previous"
      /\ preferred = [op \in RegisteredOps |-> "cpu"] /\ job \in JobType
  BY JobsAssumption DEF Init
<1>2. Options.gpuChip \in {"sm_75", "sm_80"}
  BY <1>1 DEF Options, JobType, OptionsType
<1>3. preferred \in [RegisteredOps -> Devices]
  BY <1>1 DEF Devices
<1>4. QED
  BY <1>1, <1>2, <1>3 DEF Scalars, Exits

(* Every step keeps them so. *)
LEMMA ScalarsKept ==
  ASSUME DriverInv, Scalars, [Next]_vars
  PROVE  Scalars'
<1>1. CASE UNCHANGED <<command, exit, file>>
  BY <1>1 DEF command, Scalars
<1>2. CASE CheckEmit
  BY <1>2 DEF CheckEmit, Exit, Goto, command, Scalars, Exits
<1>3. CASE ApplyTarget
  <2>1. UNCHANGED <<preferred, file>> /\ exit' \in {exit, "usage"}
    BY <1>3 DEF ApplyTarget, Exit
  <2>2. chip' \in {"sm_75", "sm_80", "sm_86"}
    <3>1. CASE UNCHANGED chip
      BY <3>1 DEF Scalars
    <3>2. CASE TargetAccepted /\ chip' = IF Target.arch = "" THEN chip ELSE Target.arch
      <4>1. Options.targets[at] \in TargetType
        <5>1. Options.targets \in Seq(TargetType) /\ at \in DOMAIN Options.targets
          BY <1>3, LineType DEF ApplyTarget, DriverInv
        <5>2. QED
          BY <5>1
      <4>2. Target.arch \in {"", "sm_75", "sm_86", "unknown"}
        BY <4>1 DEF TargetType, Target
      <4>3. QED
        BY <3>2, <4>2 DEF TargetAccepted, Scalars
    <3>3. QED
      BY <1>3, <3>1, <3>2 DEF ApplyTarget
  <2>3. QED
    BY <2>1, <2>2 DEF Scalars, Exits
<1>4. CASE TargetsApplied \/ PlacementsApplied
  BY <1>4 DEF TargetsApplied, PlacementsApplied, Goto, Scalars
<1>5. CASE ApplyPlacement
  <2>1. UNCHANGED <<chip, file>> /\ exit' \in {exit, "usage"}
    BY <1>5 DEF ApplyPlacement, Exit
  <2>2. preferred' \in [RegisteredOps -> Devices]
    <3>1. CASE UNCHANGED preferred
      BY <3>1 DEF Scalars
    <3>2. CASE PlacementAccepted /\ SetPreferred(Entry.op, Entry.device)
      <4>1. Alias(Entry.device) \in Devices
        BY <3>2 DEF PlacementAccepted, Alias, Devices
      <4>2. QED
        BY <3>2, <4>1 DEF SetPreferred, Scalars
    <3>3. QED
      BY <1>5, <3>1, <3>2 DEF ApplyPlacement
  <2>3. QED
    BY <2>1, <2>2 DEF Scalars, Exits
<1>6. CASE Load
  BY <1>6 DEF Load, Goto, Exit, command, Scalars, Exits
<1>7. CASE PassesDone
  BY <1>7 DEF PassesDone, Goto, command, Scalars
<1>8. CASE ShapeInference \/ Partition \/ LowerOne \/ LoweringDone \/ LinalgNext
  <2>1. Passing
    BY <1>8, PassesPass
  <2>2. QED
    BY <2>1 DEF Passing, command, Scalars, Exits
<1>9. CASE Open
  BY <1>9 DEF Open, Goto, Exit, command, Scalars, Exits
<1>10. CASE Serialize
  BY <1>10 DEF Serialize, Exit, command, Scalars, Exits
<1>11. CASE Emit
  BY <1>11 DEF Emit, Exit, command, Scalars, Exits
<1>12. QED
  BY <1>1, <1>2, <1>3, <1>4, <1>5, <1>6, <1>7, <1>8, <1>9, <1>10, <1>11
     DEF Next, DriverNext, KernelNext, vars

(* What main does before and after the passes leaves the module alone. *)
LEMMA AroundKeeps ==
  ASSUME DriverInv, ModuleInv,
         CheckEmit \/ ApplyTarget \/ TargetsApplied \/ ApplyPlacement \/ PlacementsApplied
           \/ PassesDone \/ Open \/ Serialize \/ Emit \/ UNCHANGED vars
  PROVE  ModuleInv'
<1>1. /\ job \in JobType /\ (exit = "running" <=> pc # "exited") /\ (Finished => passes = <<>>)
  BY DEF DriverInv, FileFollows, ModuleInv, PassesFollow
<1>2. CASE CheckEmit \/ ApplyTarget \/ TargetsApplied \/ ApplyPlacement \/ PlacementsApplied
  <2>1. /\ UNCHANGED <<job, module>> /\ pc \in {"begin", "targets", "placements"}
        /\ \/ pc' \in {"targets", "placements", "load"} /\ exit' = exit
           \/ pc' = "exited" /\ exit' = "usage"
    BY <1>2 DEF CheckEmit, ApplyTarget, TargetsApplied, ApplyPlacement, PlacementsApplied, Exit, Goto
  <2>2. ~Loaded /\ ~Loaded' /\ ~Finished'
    BY <1>1, <2>1 DEF Loaded, Finished
  <2>3. QED
    BY <2>1, <2>2, ModuleKept
<1>3. CASE PassesDone
  <2>1. /\ UNCHANGED <<job, module, exit>> /\ pc = "passes" /\ passes = <<>> /\ pc' \in {"open", "emit"}
    BY <1>3 DEF PassesDone, Goto
  <2>2. Loaded /\ Loaded'
    BY <2>1 DEF Loaded
  <2>3. QED
    BY <2>1, <2>2, ModuleKept
<1>4. CASE Open
  <2>1. /\ UNCHANGED <<job, module>> /\ pc = "open"
        /\ pc' = "serialize" \/ (pc' = "exited" /\ exit' = "failed")
    BY <1>4 DEF Open, Goto, Exit
  <2>2. Loaded /\ Loaded' /\ Finished
    BY <2>1 DEF Loaded, Finished
  <2>3. QED
    BY <1>1, <2>1, <2>2, ModuleKept
<1>5. CASE Serialize \/ Emit
  <2>1. /\ UNCHANGED <<job, module>> /\ pc \in {"serialize", "emit"}
        /\ pc' = "exited" /\ exit' \in {"ok", "failed", "aborted", "translation_failed"}
    BY <1>5 DEF Serialize, Emit, Exit
  <2>2. Loaded /\ Loaded' /\ Finished
    BY <2>1 DEF Loaded, Finished
  <2>3. QED
    BY <1>1, <2>1, <2>2, ModuleKept
<1>6. CASE UNCHANGED vars
  <2>1. UNCHANGED <<job, module, pc, exit>>
    BY <1>6 DEF vars
  <2>2. (Loaded' <=> Loaded) /\ (Finished' <=> Finished)
    BY <2>1 DEF Loaded, Finished
  <2>3. QED
    BY <1>1, <2>1, <2>2, ModuleKept
<1>7. QED
  BY <1>2, <1>3, <1>4, <1>5, <1>6

(* A pass that fails leaves the module as it is. *)
LEMMA FailKeeps ==
  ASSUME DriverInv, ModuleInv, pc = "passes", pc' = "exited", exit' \in {"pass_failed", "undefined"},
         UNCHANGED <<job, module>>
  PROVE  ModuleInv'
<1>1. Loaded /\ Loaded' /\ ~Finished'
  BY DEF Loaded, Finished
<1>2. QED
  BY <1>1, ModuleKept

(* Every step keeps the invariant of the module. *)
LEMMA ModuleStep ==
  ASSUME DriverInv, Scalars, ModuleInv, [Next]_vars
  PROVE  ModuleInv'
<1>1. job \in JobType /\ FileFollows /\ Resolved /\ preferred \in [RegisteredOps -> Devices]
  BY DEF DriverInv, Scalars
<1>2. ASSUME Fail, pc = "passes" PROVE ModuleInv'
  BY <1>2, FailKeeps DEF Fail, Exit
<1>3. CASE Load
  <2>1. CASE Exit("load_failed") /\ UNCHANGED <<passes, body>>
    <3>1. /\ UNCHANGED <<job, module>> /\ pc = "load" /\ pc' = "exited" /\ exit' = "load_failed"
      BY <1>3, <2>1 DEF Load, Exit, module
    <3>2. ~Loaded /\ ~Loaded' /\ ~Finished'
      BY <1>1, <3>1 DEF Loaded, Finished, FileFollows
    <3>3. QED
      BY <3>1, <3>2, ModuleKept
  <2>2. CASE ~(Exit("load_failed") /\ UNCHANGED <<passes, body>>)
    BY <1>1, <1>3, <2>2, ModuleLoaded DEF Load
  <2>3. QED
    BY <2>1, <2>2
<1>4. CASE ShapeInference
  <2>1. Running("shape_inference") /\ (Fail \/ Becomes(body))
    BY <1>4 DEF ShapeInference
  <2>2. QED
    BY <1>1, <1>2, <2>1, OpsLeftAlone DEF Running
<1>5. CASE Partition
  BY <1>1, <1>5, PartitionKeeps
<1>6. CASE LowerOne
  <2>1. PICK i : i = Min(Work)
    OBVIOUS
  <2>2. PICK o : o = body[i]
    OBVIOUS
  <2>3. Running("to_tir") /\ Work # {}
    BY <1>6 DEF LowerOne
  <2>4. \/ Fail
        \/ Exit("undefined") /\ UNCHANGED <<job, command, module, file>>
        \/ /\ Input(o).regular
           /\ prims' = Append(prims, KernelMade(o))
           /\ body' = [body EXCEPT ![i].form = "call", ![i].callee = Callee]
           /\ UNCHANGED <<job, pc, command, passes, exit, file>>
    BY <1>6, <2>1, <2>2 DEF LowerOne, KernelMade
  <2>5. CASE Fail
    BY <1>2, <2>3, <2>5 DEF Running
  <2>6. CASE Exit("undefined") /\ UNCHANGED <<job, command, module, file>>
    BY <2>3, <2>6, FailKeeps DEF Running, Exit
  <2>7. CASE /\ Input(o).regular
             /\ prims' = Append(prims, KernelMade(o))
             /\ body' = [body EXCEPT ![i].form = "call", ![i].callee = Callee]
             /\ UNCHANGED <<job, pc, command, passes, exit, file>>
    BY <1>1, <2>1, <2>2, <2>3, <2>7, LowerOneKeeps
  <2>8. QED
    BY <2>4, <2>5, <2>6, <2>7
<1>7. CASE LoweringDone
  <2>1. /\ Running("to_tir") /\ Work = {}
        /\ \/ Fail
           \/ Becomes(body) /\ \A f \in DOMAIN Graph : Graph[f].name \notin GeneratedNames
    BY <1>7 DEF LoweringDone
  <2>2. QED
    BY <1>1, <1>2, <2>1, OpsLeftAlone DEF Running
<1>8. CASE ToLinalg
  <2>1. Running("to_linalg") /\ (Fail \/ Convertible)
    BY <1>8 DEF ToLinalg
  <2>2. QED
    BY <1>1, <1>2, <1>8, <2>1, ToLinalgKeeps DEF Running
<1>9. CASE Bufferize \/ ToLoops \/ Outline \/ ToLLVM
  BY <1>1, <1>9, BufferizeKeeps, ToLoopsKeeps, OutlineKeeps, ToLLVMKeeps
<1>10. CASE CudaToGpu
  <2>1. Running("cuda_to_gpu") /\ (Fail \/ UNCHANGED pc)
    BY <1>10 DEF CudaToGpu, Becomes
  <2>2. QED
    BY <1>1, <1>2, <1>10, <2>1, CudaToGpuKeeps DEF Running
<1>11. CASE ToBinary
  <2>1. Running("to_binary") /\ (Fail \/ Becomes(body))
    BY <1>11 DEF ToBinary
  <2>2. QED
    BY <1>1, <1>2, <2>1, OpsLeftAlone DEF Running
<1>12. QED
  BY <1>3, <1>4, <1>5, <1>6, <1>7, <1>8, <1>9, <1>10, <1>11, AroundKeeps
     DEF Next, DriverNext, KernelNext, LinalgNext

(* It holds at the start. *)
LEMMA ModuleStarts ==
  ASSUME Init
  PROVE  ModuleInv
<1>1. /\ pc = "begin" /\ exit = "running" /\ passes = <<>> /\ body = <<>> /\ prims = <<>> /\ job \in JobType
  BY JobsAssumption DEF Init
<1>2. ~Loaded /\ ~Finished
  BY <1>1 DEF Loaded, Finished
<1>3. DOMAIN body = {}
  BY <1>1
<1>4. passes \in Seq(ToSet(Passes)) /\ prims \in Seq(PrimType) /\ body \in Seq(OpType)
  BY <1>1
<1>5. PassesFollow
  BY <1>1, <1>2 DEF PassesFollow
<1>6. OpsFollow /\ DevicesFollow
  BY <1>2, <1>3, <1>4 DEF OpsFollow, DevicesFollow
<1>7. KernelsFollow
  <2>1. Calls = {} /\ Len(prims) = 0
    BY <1>1, <1>3 DEF Calls
  <2>2. {body[i].of : i \in Calls} = {}
    BY <2>1
  <2>3. DOMAIN prims = {}
    BY <1>1
  <2>4. QED
    BY <2>1, <2>2, <2>3, FS_EmptySet DEF KernelsFollow
<1>8. QED
  BY <1>3, <1>4, <1>5, <1>6, <1>7 DEF ModuleInv

(* What the stages hold, seen from the ops. *)
LEMMA PureStages ==
  ASSUME DriverInv, ModuleInv
  PROVE  StageIsPure
<1>1. job \in JobType /\ FileFollows /\ PassesFollow /\ OpsFollow /\ DevicesFollow
  BY DEF DriverInv, ModuleInv
<1> SUFFICES ASSUME exit = "ok", NEW i \in DOMAIN body
    PROVE  /\ KernelLevel /\ body[i].form = "hexir" => body[i].op \notin ComputeOps
           /\ AtLeast(job.emit, "linalg") /\ body[i].form = "hexir" => body[i].op = "print"
           /\ AtLeast(job.emit, "gpu") =>
                /\ body[i].form = "linalg" => body[i].device # "cuda"
                /\ body[i].op # "zeros"
           /\ AtLeast(job.emit, "llvm_dialect") => body[i].form \in {"llvm", "kernel"}
  BY DEF StageIsPure
<1>2. Loaded /\ passes = <<>>
  BY <1>1 DEF Loaded, Finished, PassesFollow
<1>3. Ran = Len(Passes) /\ Len(Passes) \in Nat
  <2>1. Len(passes) = 0
    BY <1>2
  <2>2. Len(Passes) \in Nat
    BY <1>1, PassList DEF PassesSpelt
  <2>3. QED
    BY <2>1, <2>2 DEF Ran
<1>4. KernelLevel => Work = {}
  BY <1>1, <1>2 DEF PassesFollow
<1>5. job.emit \in {"linalg"} \cup Heterogeneous => Linalged
  BY <1>1, <1>3, PassList, Flags DEF PassesSpelt, Heterogeneous, LLVMStages
<1>6. job.emit \in {"gpu"} \cup LLVMStages => Buffered /\ OnKernels
  BY <1>1, <1>3, PassList, Flags DEF PassesSpelt, Heterogeneous, LLVMStages
<1>7. job.emit \in LLVMStages => InLLVM
  BY <1>1, <1>3, PassList, Flags DEF PassesSpelt, LLVMStages
<1>8. /\ AtLeast(job.emit, "linalg") <=> job.emit \in {"linalg"} \cup Heterogeneous
      /\ AtLeast(job.emit, "gpu") <=> job.emit \in {"gpu"} \cup LLVMStages
      /\ AtLeast(job.emit, "llvm_dialect") <=> job.emit \in LLVMStages
  BY <1>1, StageOf, Reaches DEF Heterogeneous, LLVMStages
<1>9. PICK o : o = body[i]
  OBVIOUS
<1>10. DeviceFollows(o) /\ (Linalged => AsLowered(o))
  BY <1>1, <1>9 DEF DevicesFollow, OpsFollow
<1>11. KernelLevel /\ o.form = "hexir" => o.op \notin ComputeOps
  BY <1>4, <1>9 DEF Work
<1>12. Linalged /\ o.form = "hexir" => o.op = "print"
  BY <1>10 DEF AsLowered
<1>13. OnKernels /\ o.form = "linalg" => o.device # "cuda"
  BY <1>10 DEF DeviceFollows
<1>14. Linalged /\ Buffered => o.op # "zeros"
  <2>1. Linalged /\ o.op = "zeros" => AsDestination(o)
    BY <1>10, ZerosAreInit
  <2>2. QED
    BY <2>1 DEF AsDestination
<1>15. InLLVM => o.form \in {"llvm", "kernel"}
  BY <1>10 DEF DeviceFollows
<1>16. job.emit \in {"gpu"} \cup LLVMStages => job.emit \in Heterogeneous
  BY DEF Heterogeneous, LLVMStages
<1>17. QED
  BY <1>5, <1>6, <1>7, <1>8, <1>9, <1>11, <1>12, <1>13, <1>14, <1>15, <1>16

(* The three invariants together are the one TLC checks. *)
LEMMA InvParts ==
  ASSUME DriverInv, Scalars, ModuleInv
  PROVE  Inv
<1>1. StageIsPure
  BY PureStages
<1>2. body \in Seq(OpType) /\ KernelsFollow
  BY DEF ModuleInv, OpsFollow
<1>3. ASSUME NEW i \in DOMAIN body
      PROVE  /\ body[i].form \in Forms
             /\ body[i].device \in Devices \cup {"gpu", "none"}
             /\ body[i].form = "call" => body[i].callee \in DOMAIN prims
  <2>1. body[i] \in OpType
    BY <1>2
  <2>2. body[i].form = "call" => body[i].callee \in DOMAIN prims
    BY <1>2 DEF KernelsFollow, Calls
  <2>3. QED
    BY <2>1, <2>2 DEF OpType
<1>4. TypeOK
  BY <1>3 DEF TypeOK, Scalars, ModuleInv, DriverInv, FileFollows, PastTheLine
<1>5. QED
  BY <1>1, <1>4 DEF Inv, ModuleInv

(* Wherever hexir is, its state is of its types, main knows of the command line what
   it says so far, and every op is what the passes so far make of the one it was read
   from: the inductive invariant of the whole compiler. *)
THEOREM Invariance == Spec => []Inv
<1>1. Init => DriverInv /\ Scalars /\ ModuleInv
  BY StartsKnowingNothing, ScalarsStart, ModuleStarts
<1>2. DriverInv /\ Scalars /\ ModuleInv /\ [Next]_vars => (DriverInv /\ Scalars /\ ModuleInv)'
  BY StepKeeps, ScalarsKept, ModuleStep
<1>3. DriverInv /\ Scalars /\ ModuleInv => Inv
  BY InvParts
<1>4. QED
  BY <1>1, <1>2, <1>3, PTL DEF Spec

(* An op ends up on the device where the graph and the command line place it, after
   every rewriting: only the ops on cuda become kernels of the GPU. *)
THEOREM Placements == Spec => []PlacementTravels
<1>1. Inv => PlacementTravels
  <2> SUFFICES ASSUME Inv, exit = "ok", AtLeast(job.emit, "hetero"), NEW v \in Positions(Graph),
                      OpAt(Graph, v).op \in ComputeOps \cup {"print"}
      PROVE  LET placed == Placement(Options, OpAt(Graph, v))
                 made == {i \in DOMAIN body : body[i].of = v /\ body[i].op = KernelOf(OpAt(Graph, v).op)}
             IN /\ made # {}
                /\ \A i \in made :
                     /\ job.emit \in {"hetero", "gpu"} => body[i].device = placed
                     /\ AtLeast(job.emit, "gpu") /\ OpAt(Graph, v).op # "print" =>
                          (OnGpu(body[i]) <=> placed = "cuda")
    BY Zenon DEF PlacementTravels
  <2> DEFINE placed == Placement(Options, OpAt(Graph, v))
             made == {i \in DOMAIN body : body[i].of = v /\ body[i].op = KernelOf(OpAt(Graph, v).op)}
  <2>1. job \in JobType /\ FileFollows /\ PassesFollow /\ OpsFollow /\ DevicesFollow
    BY DEF Inv, DriverInv
  <2>2. Loaded /\ passes = <<>>
    BY <2>1 DEF Loaded, Finished, PassesFollow
  <2>3. Ran = Len(Passes) /\ Len(Passes) \in Nat
    <3>1. Len(passes) = 0
      BY <2>2
    <3>2. Len(Passes) \in Nat
      BY <2>1, PassList DEF PassesSpelt
    <3>3. QED
      BY <3>1, <3>2 DEF Ran
  <2>4. job.emit \in Heterogeneous
    BY <2>1, StageOf, Reaches DEF Heterogeneous
  <2>5. AtLeast(job.emit, "gpu") <=> job.emit \in {"gpu"} \cup LLVMStages
    BY <2>1, StageOf, Reaches DEF LLVMStages
  <2>6. Linalged /\ Placed
    BY <2>1, <2>3, <2>4, PassList, Flags DEF PassesSpelt, Heterogeneous, LLVMStages
  <2>7. job.emit \in {"gpu"} \cup LLVMStages => OnKernels
    BY <2>1, <2>3, PassList, Flags DEF PassesSpelt, Heterogeneous, LLVMStages
  <2>8. job.emit \in {"hetero", "gpu"} => ~Looped
    BY <2>1, Flags DEF LLVMStages
  <2>9. made # {}
    <3>1. PICK i \in DOMAIN body : body[i].of = v /\ body[i].op = KernelOf(OpAt(Graph, v).op)
      BY <2>1, <2>2, <2>6 DEF OpsFollow
    <3>2. QED
      BY <3>1
  <2>10. ASSUME NEW i \in made
         PROVE  /\ job.emit \in {"hetero", "gpu"} => body[i].device = placed
                /\ job.emit \in {"gpu"} \cup LLVMStages /\ OpAt(Graph, v).op # "print" => (OnGpu(body[i]) <=> placed = "cuda")
    <3>1. PICK o : o = body[i]
      OBVIOUS
    <3>2. DeviceFollows(o) /\ o.of = v /\ o.op = KernelOf(OpAt(Graph, v).op)
      BY <2>1, <3>1 DEF DevicesFollow
    <3>3. Input(o) = OpAt(Graph, v)
      BY <3>2 DEF Input
    <3>4. OpAt(Graph, v).op = "print" => o.op = "print"
      BY <3>2 DEF KernelOf
    <3>5. OpAt(Graph, v).op # "print" => Computes(o)
      BY <3>2, <3>3 DEF Computes
    <3>6. ~Looped => o.device = placed
      BY <2>6, <3>2, <3>3, <3>4, <3>5 DEF DeviceFollows
    <3>7. OnKernels /\ OpAt(Graph, v).op # "print" => (OnGpu(o) <=> placed = "cuda")
      BY <3>2, <3>3, <3>5 DEF DeviceFollows
    <3>8. QED
      BY <2>7, <2>8, <3>1, <3>6, <3>7
  <2>11. QED
    BY <2>5, <2>9, <2>10
<1>2. QED
  BY <1>1, Invariance, PTL

-----------------------------------------------------------------------------
(* What the ops compute.                                                    *)

(* What the meaning of a body is, op by op, as far as op n. *)
Meant(value, f, n) ==
  value = [i \in 1 .. n |->
    CASE Graph[f].body[i].op = "constant" -> <<"constant", <<f, i>>>>
      [] KernelOf(Graph[f].body[i].op) \in KernelKinds ->
           <<KernelOf(Graph[f].body[i].op),
             [a \in DOMAIN Graph[f].body[i].args |-> value[Graph[f].body[i].args[a]]]>>
      [] OTHER -> <<>>]

(* Meaning is a recursive function, and so chosen among those that satisfy its
   equation. *)
LEMMA MeaningIs ==
  ASSUME NEW f, DOMAIN Graph[f].body = 1 .. Len(Graph[f].body)
  PROVE  MeaningOf(f) = CHOOSE value : Meant(value, f, Len(Graph[f].body))
BY Zenon DEF MeaningOf, Meaning, Term, Meant

(* The op whose result an op reads under a name. *)
LastMade(i, name) == Max({j \in 1 .. i - 1 : body[j].result = name})

(* The equation of Executed. *)
Executing(value, n) ==
  value = [i \in 1 .. n |->
    CASE body[i].op = "constant" -> <<"constant", body[i].result>>
      [] body[i].op = "print" -> value[LastMade(i, body[i].args[1])]
      [] body[i].op = "matmul" /\ value[LastMade(i, body[i].dest)] # Zero -> Garbage
      [] KernelIn(body[i]) \in KernelKinds ->
           <<KernelIn(body[i]), [a \in DOMAIN body[i].args |-> value[LastMade(i, body[i].args[a])]]>>
      [] OTHER -> Zero]

(* Executed is chosen among the functions that satisfy its equation. *)
LEMMA ExecutedIs ==
  ASSUME DOMAIN body = 1 .. Len(body)
  PROVE  Executed = CHOOSE value : Executing(value, Len(body))
  BY Zenon DEF Executed, Executing, LastMade

(* What op i of a function means, by the meaning of those before it. *)
Meant1(value, f, i) ==
  CASE Graph[f].body[i].op = "constant" -> <<"constant", <<f, i>>>>
    [] KernelOf(Graph[f].body[i].op) \in KernelKinds ->
         <<KernelOf(Graph[f].body[i].op),
           [a \in DOMAIN Graph[f].body[i].args |-> value[Graph[f].body[i].args[a]]]>>
    [] OTHER -> <<>>

(* The meaning of an op depends on those of its operands only. *)
LEMMA MeantAlike ==
  ASSUME NEW f, NEW i, NEW value, NEW other,
         \A a \in DOMAIN Graph[f].body[i].args :
           other[Graph[f].body[i].args[a]] = value[Graph[f].body[i].args[a]]
  PROVE  Meant1(other, f, i) = Meant1(value, f, i)
<1>1. [a \in DOMAIN Graph[f].body[i].args |-> other[Graph[f].body[i].args[a]]]
        = [a \in DOMAIN Graph[f].body[i].args |-> value[Graph[f].body[i].args[a]]]
  OBVIOUS
<1>2. QED
  BY <1>1, Zenon DEF Meant1

(* Operands come before the op, so there is such a function: each op means what its
   equation says. *)
LEMMA MeaningExists ==
  ASSUME job \in JobType, WellFormedGraph(Graph), NEW f \in DOMAIN Graph
  PROVE  \A i \in 1 .. Len(Graph[f].body) : MeaningOf(f)[i] = Meant1(MeaningOf(f), f, i)
<1> DEFINE n == Len(Graph[f].body)
           T == {k \in Nat : k <= n => \E value : Meant(value, f, k)}
<1>1. n \in Nat /\ DOMAIN Graph[f].body = 1 .. n
  BY GraphTyped
<1>2. ASSUME NEW i \in 1 .. n, NEW a \in DOMAIN Graph[f].body[i].args
      PROVE  Graph[f].body[i].args[a] \in 1 .. i - 1
  <2>1. <<f, i>> \in Positions(Graph) /\ OpAt(Graph, <<f, i>>) = Graph[f].body[i]
    BY <1>1, GraphTyped, InPositions DEF OpAt
  <2>2. QED
    BY <2>1 DEF WellFormedGraph
<1>3. 0 \in T
  <2>1. Meant([i \in 1 .. 0 |-> 0], f, 0)
    BY DEF Meant
  <2>2. QED
    BY <2>1
<1>4. ASSUME NEW k \in T PROVE k + 1 \in T
  <2>1. CASE k + 1 > n
    BY <2>1
  <2>2. CASE k + 1 <= n
    <3>1. PICK value : Meant(value, f, k)
      BY <1>1, <2>2
    <3> DEFINE other == [i \in 1 .. k + 1 |-> IF i = k + 1 THEN Meant1(value, f, k + 1) ELSE value[i]]
    <3>2. ASSUME NEW i \in 1 .. k + 1
          PROVE  other[i] = Meant1(other, f, i)
      <4>1. other[i] = Meant1(value, f, i)
        <5>1. CASE i = k + 1
          BY <5>1
        <5>2. CASE i # k + 1
          <6>1. i \in 1 .. k
            BY <5>2
          <6>2. value[i] = Meant1(value, f, i)
            BY <3>1, <6>1, Zenon DEF Meant, Meant1
          <6>3. QED
            BY <5>2, <6>2
        <5>3. QED
          BY <5>1, <5>2
      <4>2. ASSUME NEW a \in DOMAIN Graph[f].body[i].args
            PROVE  other[Graph[f].body[i].args[a]] = value[Graph[f].body[i].args[a]]
        <5>1. i \in 1 .. n
          BY <1>1, <2>2
        <5>2. Graph[f].body[i].args[a] \in 1 .. i - 1
          BY <1>2, <5>1
        <5>3. PICK r \in 1 .. i - 1 : r = Graph[f].body[i].args[a]
          BY <5>2
        <5>4. r \in 1 .. k + 1 /\ r # k + 1
          OBVIOUS
        <5>5. QED
          BY <5>3, <5>4
      <4> HIDE DEF other
      <4>3. Meant1(other, f, i) = Meant1(value, f, i)
        BY <4>2, MeantAlike
      <4>4. QED
        BY <4>1, <4>3
    <3>3. other = [i \in 1 .. k + 1 |-> other[i]]
      OBVIOUS
    <3> HIDE DEF other
    <3>4. Meant(other, f, k + 1)
      BY <3>2, <3>3, Zenon DEF Meant, Meant1
    <3>5. QED
      BY <3>4
  <2>3. QED
    BY <1>1, <2>1, <2>2
<1>5. T = Nat
  <2> HIDE DEF T
  <2>1. T \in SUBSET Nat
    BY DEF T
  <2>2. QED
    BY <1>3, <1>4, <2>1, NatInd
<1>6. \E value : Meant(value, f, n)
  BY <1>1, <1>5
<1>7. Meant(MeaningOf(f), f, n)
  BY <1>1, <1>6, MeaningIs
<1>8. QED
  BY <1>7, Zenon DEF Meant, Meant1

(* The last op that makes a value an op reads is before it. *)
LEMMA LastMadeIs ==
  ASSUME body \in Seq(OpType), NEW i \in DOMAIN body, MadeBefore(i),
         NEW name \in ToSet(body[i].args) \cup ({body[i].dest} \ {<<>>})
  PROVE  /\ LastMade(i, name) \in 1 .. i - 1 /\ body[LastMade(i, name)].result = name
         /\ \A j \in 1 .. i - 1 : body[j].result = name => j <= LastMade(i, name)
<1> DEFINE S == {j \in 1 .. i - 1 : body[j].result = name}
<1>1. i - 1 \in Nat
  OBVIOUS
<1>2. S # {}
  BY DEF MadeBefore
<1>3. S \in SUBSET (1 .. i - 1)
  OBVIOUS
<1>4. Max(S) \in S /\ \A j \in S : j <= Max(S)
  <2> HIDE DEF S
  <2>1. QED
    BY <1>1, <1>2, <1>3, GreatestOf
<1>5. LastMade(i, name) = Max(S)
  BY DEF LastMade
<1> DEFINE m == Max(S)
<1>6. m \in S /\ \A j \in S : j <= m
  BY <1>4
<1> HIDE DEF m
<1>7. m \in 1 .. i - 1 /\ body[m].result = name /\ \A j \in 1 .. i - 1 : body[j].result = name => j <= m
  BY <1>6
<1>8. LastMade(i, name) = m
  BY <1>5 DEF m
<1>9. QED
  BY <1>7, <1>8

(* What op i gives, by what those before it give. *)
Executed1(value, i) ==
  CASE body[i].op = "constant" -> <<"constant", body[i].result>>
    [] body[i].op = "print" -> value[LastMade(i, body[i].args[1])]
    [] body[i].op = "matmul" /\ value[LastMade(i, body[i].dest)] # Zero -> Garbage
    [] KernelIn(body[i]) \in KernelKinds ->
         <<KernelIn(body[i]), [a \in DOMAIN body[i].args |-> value[LastMade(i, body[i].args[a])]]>>
    [] OTHER -> Zero

(* What an op computes depends on the values it reads only. *)
LEMMA ExecutedAlike ==
  ASSUME NEW i, NEW value, NEW other,
         \A a \in DOMAIN body[i].args : other[LastMade(i, body[i].args[a])] = value[LastMade(i, body[i].args[a])],
         body[i].op = "print" => 1 \in DOMAIN body[i].args,
         body[i].op = "matmul" => other[LastMade(i, body[i].dest)] = value[LastMade(i, body[i].dest)]
  PROVE  Executed1(other, i) = Executed1(value, i)
<1>1. [a \in DOMAIN body[i].args |-> other[LastMade(i, body[i].args[a])]]
        = [a \in DOMAIN body[i].args |-> value[LastMade(i, body[i].args[a])]]
  OBVIOUS
<1>2. CASE body[i].op = "print"
  <2>1. other[LastMade(i, body[i].args[1])] = value[LastMade(i, body[i].args[1])]
    BY <1>2
  <2>2. body[i].op # "constant" /\ body[i].op # "matmul"
    BY <1>2
  <2>3. QED
    BY <1>1, <1>2, <2>1, <2>2, SMT DEF Executed1
<1>3. CASE body[i].op = "matmul"
  <2>1. body[i].op # "constant" /\ body[i].op # "print"
    BY <1>3
  <2>2. QED
    BY <1>1, <1>3, <2>1, SMT DEF Executed1
<1>4. CASE body[i].op # "print" /\ body[i].op # "matmul"
  BY <1>1, <1>4, SMT DEF Executed1
<1>5. QED
  BY <1>2, <1>3, <1>4

(* Values are made before they are read, so each op computes what its equation says.
   *)
LEMMA ExecutedExists ==
  ASSUME body \in Seq(OpType), \A i \in DOMAIN body : MadeBefore(i),
         \A i \in DOMAIN body : body[i].op = "print" => 1 \in DOMAIN body[i].args,
         \A i \in DOMAIN body : body[i].op = "matmul" => body[i].dest # <<>>
  PROVE  \A i \in 1 .. Len(body) : Executed[i] = Executed1(Executed, i)
<1> DEFINE n == Len(body)
           T == {k \in Nat : k <= n => \E value : Executing(value, k)}
<1>1. n \in Nat /\ DOMAIN body = 1 .. n
  OBVIOUS
<1>2. ASSUME NEW i \in 1 .. n, NEW name \in ToSet(body[i].args) \cup ({body[i].dest} \ {<<>>})
      PROVE  LastMade(i, name) \in 1 .. i - 1
  BY <1>1, LastMadeIs
<1>3. 0 \in T
  <2>1. Executing([i \in 1 .. 0 |-> 0], 0)
    BY DEF Executing
  <2>2. QED
    BY <2>1
<1>4. ASSUME NEW k \in T PROVE k + 1 \in T
  <2>1. CASE k + 1 > n
    BY <2>1
  <2>2. CASE k + 1 <= n
    <3>1. PICK value : Executing(value, k)
      BY <1>1, <2>2
    <3> DEFINE other == [i \in 1 .. k + 1 |-> IF i = k + 1 THEN Executed1(value, k + 1) ELSE value[i]]
    <3>2. ASSUME NEW i \in 1 .. k + 1
          PROVE  other[i] = Executed1(other, i)
      <4>1. other[i] = Executed1(value, i)
        <5>1. CASE i = k + 1
          BY <5>1
        <5>2. CASE i # k + 1
          <6>1. i \in 1 .. k
            BY <5>2
          <6>2. value[i] = Executed1(value, i)
            BY <3>1, <6>1, Zenon DEF Executing, Executed1
          <6>3. QED
            BY <5>2, <6>2
        <5>3. QED
          BY <5>1, <5>2
      <4>2. i \in 1 .. n
        BY <1>1, <2>2
      <4>3. ASSUME NEW name \in ToSet(body[i].args) \cup ({body[i].dest} \ {<<>>})
            PROVE  other[LastMade(i, name)] = value[LastMade(i, name)]
        <5>1. PICK r \in 1 .. i - 1 : r = LastMade(i, name)
          BY <1>2, <4>2
        <5>2. r \in 1 .. k + 1 /\ r # k + 1
          OBVIOUS
        <5>3. QED
          BY <5>1, <5>2
      <4> HIDE DEF other
      <4>4. \A a \in DOMAIN body[i].args : body[i].args[a] \in ToSet(body[i].args)
        BY DEF ToSet
      <4>5. Executed1(other, i) = Executed1(value, i)
        <5>1. \A a \in DOMAIN body[i].args : other[LastMade(i, body[i].args[a])] = value[LastMade(i, body[i].args[a])]
          BY <4>3, <4>4
        <5>2. body[i].op = "matmul" => other[LastMade(i, body[i].dest)] = value[LastMade(i, body[i].dest)]
          BY <1>1, <4>2, <4>3
        <5>3. body[i].op = "print" => 1 \in DOMAIN body[i].args
          BY <1>1, <4>2
        <5>4. QED
          BY <5>1, <5>2, <5>3, ExecutedAlike
      <4>6. QED
        BY <4>1, <4>5
    <3>3. other = [i \in 1 .. k + 1 |-> other[i]]
      OBVIOUS
    <3> HIDE DEF other
    <3>4. Executing(other, k + 1)
      BY <3>2, <3>3, Zenon DEF Executing, Executed1
    <3>5. QED
      BY <3>4
  <2>3. QED
    BY <1>1, <2>1, <2>2
<1>5. T = Nat
  <2> HIDE DEF T
  <2>1. T \in SUBSET Nat
    BY DEF T
  <2>2. QED
    BY <1>3, <1>4, <2>1, NatInd
<1>6. \E value : Executing(value, n)
  BY <1>1, <1>5
<1>7. Executing(Executed, n)
  BY <1>1, <1>6, ExecutedIs
<1>8. QED
  BY <1>7, Zenon DEF Executing, Executed1

(* What is known of the ops between two passes. *)
Between ==
  /\ job \in JobType /\ Loaded /\ WellFormedGraph(Graph)
  /\ passes \in Seq(ToSet(Passes)) /\ \A i \in DOMAIN body : MadeBefore(i)
  /\ OpsFollow /\ KernelsFollow

(* The name under which an op of the input leaves its result. *)
ResultOf(v) == IF Buffered /\ OpAt(Graph, v).op \in ComputeOps THEN Append(v, "init") ELSE v

(* The op only provides the destination of another. *)
Destines(o) == Linalged /\ Input(o).op \in ComputeOps /\ AsDestination(o)

(* Buffers come after the lowering to linalg, and calls are not lowered to it. *)
LEMMA BuffersAreLate ==
  ASSUME Between
  PROVE  /\ Buffered => Linalged
         /\ Linalged => Calls = {}
<1>1. Len(Passes) \in Nat /\ Len(passes) \in Nat
  BY PassList DEF Between, PassesSpelt
<1>2. Ran \in Int
  BY <1>1 DEF Ran
<1>3. Buffered => Linalged
  BY <1>2, Flags DEF Between, Heterogeneous, LLVMStages
<1>4. Linalged => ~KernelLevel
  BY Flags DEF Between, Heterogeneous, LLVMStages
<1>5. QED
  BY <1>3, <1>4 DEF Between, KernelsFollow

(* What a destination is. *)
LEMMA DestinationFields ==
  ASSUME Between, NEW i \in DOMAIN body, NEW o, o = body[i], Destines(o)
  PROVE  /\ o.result = Append(o.of, "init") /\ o.op \in {"fill", "zeros", "copied_zeros"} /\ o.dest = <<>>
         /\ KernelIn(o) \notin KernelKinds /\ o.op \notin {"constant", "print", "matmul"} 
<1>1. AsDestination(o) /\ Linalged
  BY DEF Destines
<1>2. o.form # "call"
  BY <1>1, BuffersAreLate DEF Calls
<1>3. /\ o.result = Append(o.of, "init") /\ o.dest = <<>>
      /\ o.op \in {"fill", "zeros", "copied_zeros"}
  BY <1>1 DEF AsDestination
<1>4. KernelIn(o) = o.op
  BY <1>2, <1>3 DEF KernelIn, KernelOf
<1>5. QED
  BY <1>3, <1>4 DEF KernelKinds

(* A call runs the kernel of the op it was made of. *)
LEMMA KernelOfCall ==
  ASSUME Between, NEW i \in DOMAIN body, NEW o, o = body[i], o.form = "call"
  PROVE  KernelIn(o) = KernelOf(Input(o).op)
<1>1. i \in Calls
  BY DEF Calls
<1>2. prims[o.callee] = PrimOf(Graph, o.of, Placement(Options, Input(o)))
  BY <1>1 DEF Between, KernelsFollow
<1>3. PrimOf(Graph, o.of, Placement(Options, Input(o))).kernel = KernelOf(Input(o).op)
  BY DEF PrimOf, Input
<1>4. QED
  BY <1>2, <1>3 DEF KernelIn

(* So does an op of its own or its kernel's name. *)
LEMMA KernelNamed ==
  ASSUME NEW o, o.form # "call", Input(o).op \in ComputeOps, o.op \in {Input(o).op, KernelOf(Input(o).op)}
  PROVE  KernelIn(o) = KernelOf(Input(o).op)
BY DEF KernelIn, KernelOf, ComputeOps

(* What every other op is. *)
LEMMA OpFields ==
  ASSUME Between, NEW i \in DOMAIN body, NEW o, o = body[i], ~Destines(o)
  PROVE  /\ o.result = ResultOf(o.of) /\ o.args = Operands(o)
         /\ Input(o).op \in ComputeOps =>
              /\ KernelIn(o) = KernelOf(Input(o).op) /\ o.op \notin {"constant", "print"}
              /\ o.op = "matmul" => Linalged
              /\ Linalged => o.dest = Append(o.of, "init") /\ o.op = KernelOf(Input(o).op)
         /\ Input(o).op \notin ComputeOps => o.op = Input(o).op /\ o.form # "call" /\ o.result = o.of
<1>1. o \in OpType
  BY DEF Between, OpsFollow
<1>2. CASE ~Linalged
  <2>1. AsRead(o)
    BY <1>2 DEF Between, OpsFollow
  <2>2. ~Buffered
    BY <1>2, BuffersAreLate
  <2>3. /\ o.op = Input(o).op /\ o.result = o.of
        /\ o.form = "call" => o.op \in ComputeOps
        /\ o.args = [a \in DOMAIN Input(o).args |-> <<o.of[1], Input(o).args[a]>>]
    BY <2>1, ReadFields
  <2>4. o.args = Operands(o)
    BY <2>2, <2>3 DEF Operands
  <2>5. o.result = ResultOf(o.of)
    BY <2>2, <2>3 DEF ResultOf
  <2>6. Input(o).op \in ComputeOps => KernelIn(o) = KernelOf(Input(o).op)
    BY <2>3, KernelOfCall, KernelNamed
  <2>7. o.op \in ComputeOps => o.op \notin {"constant", "print", "matmul"}
    BY DEF ComputeOps
  <2>8. QED
    BY <1>2, <2>3, <2>4, <2>5, <2>6, <2>7
<1>3. CASE Linalged
  <2>1. AsLowered(o)
    BY <1>3 DEF Between, OpsFollow
  <2>2. o.form # "call"
    BY <1>3, BuffersAreLate DEF Calls
  <2>3. CASE Input(o).op \in ComputeOps
    <3>1. AsKernel(o)
      BY <1>3, <2>1, <2>3, KindsApart DEF AsLowered, Destines
    <3>2. /\ o.op = KernelOf(Input(o).op) /\ o.dest = Append(o.of, "init")
          /\ o.args = Operands(o)
          /\ o.result = IF Buffered THEN o.dest ELSE o.of
      BY <3>1 DEF AsKernel
    <3>3. o.result = ResultOf(o.of)
      BY <2>3, <3>2 DEF ResultOf, Input
    <3>4. KernelIn(o) = KernelOf(Input(o).op)
      BY <2>2, <2>3, <3>2, KernelNamed
    <3>5. o.op \notin {"constant", "print"}
      BY <2>3, <3>2, KindsApart
    <3>6. QED
      BY <1>3, <2>3, <3>2, <3>3, <3>4, <3>5
  <2>4. CASE Input(o).op \notin ComputeOps
    <3>1. o.op = Input(o).op /\ o.result = o.of /\ o.args = Operands(o)
      BY <2>1, <2>4 DEF AsLowered
    <3>2. o.result = ResultOf(o.of)
      BY <2>4, <3>1 DEF ResultOf, Input
    <3>3. QED
      BY <2>2, <2>4, <3>1, <3>2
  <2>5. QED
    BY <2>3, <2>4
<1>4. QED
  BY <1>2, <1>3

(* Different ops have different destinations. *)
LEMMA InitsApart ==
  ASSUME job \in JobType, NEW v \in Positions(Graph), NEW w \in Positions(Graph),
         Append(v, "init") = Append(w, "init")
  PROVE  v = w
<1>1. v = <<v[1], v[2]>> /\ w = <<w[1], w[2]>>
  BY PositionTyped
<1>2. PICK a, b : v = <<a, b>>
  BY <1>1
<1>3. PICK c, d : w = <<c, d>>
  BY <1>1
<1> DEFINE T == {a, b, c, d, "init"}
<1>4. v \in Seq(T) /\ w \in Seq(T) /\ "init" \in T /\ Len(v) >= 2 /\ Len(w) >= 2
  BY <1>2, <1>3
<1> HIDE DEF T
<1>5. Append(v, "init")[1] = v[1] /\ Append(v, "init")[2] = v[2]
      /\ Append(w, "init")[1] = w[1] /\ Append(w, "init")[2] = w[2]
  BY <1>4
<1>6. v[1] = w[1] /\ v[2] = w[2]
  BY <1>5
<1>7. QED
  BY <1>1, <1>6

(* Each op is an op, made of one of the input. *)
LEMMA OpTyped ==
  ASSUME Between, NEW i \in DOMAIN body
  PROVE  body[i].of \in Positions(Graph) /\ body[i] \in OpType
<1>1. body \in Seq(OpType)
  BY DEF Between, OpsFollow
<1>2. PICK o \in OpType : o = body[i]
  BY <1>1
<1>3. o.of \in Positions(Graph)
  BY <1>2 DEF OpType
<1>4. QED
  BY <1>2, <1>3

(* A result tells which op of the input it belongs to. *)
LEMMA ResultsTell ==
  ASSUME Between, NEW i \in DOMAIN body, NEW v \in Positions(Graph),
         body[i].result \in {ResultOf(v), Append(v, "init")}
  PROVE  /\ body[i].of = v
         /\ Destines(body[i]) => body[i].result = Append(v, "init")
<1>1. body[i].of \in Positions(Graph) /\ job \in JobType
  BY OpTyped DEF Between
<1>2. PICK w \in Positions(Graph) : w = body[i].of
  BY <1>1
<1>3. body[i].result \in {w, Append(w, "init")}
  BY <1>2, DestinationFields, OpFields DEF ResultOf
<1>4. body[i].result \in {v, Append(v, "init")}
  BY DEF ResultOf
<1>5. w = v
  <2>1. Append(w, "init") \notin Positions(Graph) /\ Append(v, "init") \notin Positions(Graph)
    BY <1>1, NotAPosition
  <2>2. Append(w, "init") = Append(v, "init") => w = v
    BY <1>1, InitsApart
  <2>3. PICK r, x, y : r = body[i].result /\ x = Append(w, "init") /\ y = Append(v, "init")
    OBVIOUS
  <2>4. r \in {w, x} /\ r \in {v, y}
    BY <1>3, <1>4, <2>3
  <2>5. x \notin Positions(Graph) /\ y \notin Positions(Graph) /\ (x = y => w = v)
    BY <2>1, <2>2, <2>3
  <2>6. QED
    BY ONLY <2>4, <2>5, w \in Positions(Graph), v \in Positions(Graph)
<1>6. Destines(body[i]) => body[i].result = Append(v, "init")
  BY <1>2, <1>5, DestinationFields
<1>7. QED
  BY <1>2, <1>5, <1>6

(* Before is irreflexive. *)
LEMMA NotBeforeItself ==
  ASSUME job \in JobType, NEW v \in Positions(Graph)
  PROVE  ~Before(v, v)
<1>1. v[1] \in Nat /\ v[2] \in Nat
  BY PositionTyped
<1>2. QED
  BY <1>1 DEF Before

(* An op reads what the op its operand names in the input has computed: the last one
   to leave a result under that name is that op, and not its destination. *)
LEMMA ReadsTheOp ==
  ASSUME Between, NEW i \in DOMAIN body, ~Destines(body[i]),
         NEW a \in DOMAIN body[i].args, NEW m, m = LastMade(i, body[i].args[a]),
         NEW w, w = <<body[i].of[1], Input(body[i]).args[a]>>
  PROVE  /\ m \in 1 .. i - 1 /\ body[m].of = w /\ ~Destines(body[m])
         /\ a \in DOMAIN Input(body[i]).args /\ w \in Positions(Graph)
<1>1. /\ job \in JobType /\ WellFormedGraph(Graph) /\ Loaded /\ body \in Seq(OpType)
      /\ MadeBefore(i)
  BY DEF Between, OpsFollow
<1>2. body[i].of \in Positions(Graph) /\ body[i].args = Operands(body[i])
  BY OpTyped, OpFields
<1>3. a \in DOMAIN Input(body[i]).args /\ body[i].args[a] = ResultOf(w)
  BY <1>2 DEF Operands, ResultOf
<1> DEFINE v == body[i].of
<1>4. w \in Positions(Graph) /\ w[1] = v[1] /\ w[2] \in Nat /\ w[2] < v[2]
  BY <1>1, <1>2, <1>3, OperandsAreEarlier DEF Input
<1>5. body[i].args[a] \in ToSet(body[i].args)
  BY DEF ToSet
<1>6. /\ m \in 1 .. i - 1 /\ body[m].result = ResultOf(w)
      /\ \A j \in 1 .. i - 1 : body[j].result = ResultOf(w) => j <= m
  BY <1>1, <1>3, <1>5, LastMadeIs
<1>7. m \in DOMAIN body /\ i \in Nat /\ m \in Nat /\ m < i
  BY <1>1, <1>6
<1>8. body[m].of = w
  BY <1>4, <1>6, <1>7, ResultsTell
<1>9. ASSUME Destines(body[m]) PROVE FALSE
  <2>1. Linalged /\ OpAt(Graph, w).op \in ComputeOps /\ body[m].result = Append(w, "init")
    BY <1>4, <1>6, <1>7, <1>8, <1>9, ResultsTell DEF Destines, Input
  <2>2. PICK k \in DOMAIN body : body[k].of = w /\ body[k].op = KernelOf(OpAt(Graph, w).op)
    BY <1>1, <1>4, <2>1 DEF Between, OpsFollow
  <2>3. body[k].op \in {"matmul", "add", "relu"}
    BY <2>1, <2>2, KindsApart
  <2>4. ~Destines(body[k])
    BY <2>3, DestinationFields
  <2>5. body[k].result = ResultOf(w) /\ body[k].dest = Append(w, "init")
    BY ZenonT(40), <2>1, <2>2, <2>4, OpFields DEF Input
  <2>6. body[k].dest # <<>>
    BY <1>1, <1>4, <2>5, NotAPosition
  <2>7. \A x, y \in DOMAIN body : x < y =>
          \/ Before(body[x].of, body[y].of)
          \/ body[x].of = body[y].of /\ body[x].dest = <<>> /\ body[y].dest # <<>>
    BY <2>1 DEF Between, OpsFollow
  <2>8. v[1] \in Nat /\ v[2] \in Nat
    BY <1>1, <1>2, PositionTyped
  <2>9. ~Before(v, w) /\ v # w
    <3> HIDE DEF v
    <3>1. QED
      BY <1>4, <2>8 DEF Before
  <2>10. k \in Nat /\ k # i /\ k # m
    BY <1>1, <1>9, <2>2, <2>4, <2>9
  <2>11. ~(i < k)
    BY <2>2, <2>7, <2>9
  <2>12. k \in 1 .. i - 1
    BY <1>1, <1>7, <2>2, <2>10, <2>11
  <2>13. k < m
    BY <1>6, <1>7, <2>5, <2>10, <2>12
  <2>14. QED
    BY <1>1, <1>4, <1>7, <1>8, <2>2, <2>6, <2>7, <2>13, NotBeforeItself
<1>10. QED
  BY <1>3, <1>4, <1>6, <1>8, <1>9

(* A matmul works into a destination nothing has written since it was filled. *)
LEMMA WorksIntoZero ==
  ASSUME Between, NEW i \in DOMAIN body, ~Destines(body[i]), body[i].op = "matmul", 
         NEW m, m = LastMade(i, body[i].dest)
  PROVE  m \in 1 .. i - 1 /\ Destines(body[m]) /\ body[i].dest # <<>>
<1>1. /\ job \in JobType /\ body \in Seq(OpType) /\ MadeBefore(i)
  BY DEF Between, OpsFollow
<1>2. PICK v \in Positions(Graph) : v = body[i].of
  BY OpTyped
<1>3. OpAt(Graph, v).op # "matmul"
  BY <1>1, PositionTyped DEF GraphOpType, ComputeOps
<1>4. Input(body[i]).op \in ComputeOps
  BY <1>2, <1>3, OpFields DEF Input
<1>5. Linalged /\ body[i].dest = Append(v, "init")
  BY <1>2, <1>4, OpFields
<1>6. body[i].dest # <<>>
  BY <1>1, <1>5, NotAPosition
<1>7. m \in 1 .. i - 1 /\ body[m].result = Append(v, "init")
  BY <1>1, <1>5, <1>6, LastMadeIs
<1>8. m \in DOMAIN body /\ i \in Nat /\ m \in Nat /\ m < i
  BY <1>1, <1>7
<1>9. body[m].of = v
  BY <1>7, <1>8, ResultsTell
<1>10. ASSUME ~Destines(body[m]) PROVE FALSE
  <2>1. body[m].dest = Append(v, "init")
    BY <1>2, <1>4, <1>5, <1>8, <1>9, <1>10, OpFields DEF Input
  <2>2. body[m].dest # <<>>
    BY <1>5, <1>6, <2>1
  <2>3. \/ Before(v, v)
        \/ body[m].dest = <<>>
    BY <1>2, <1>5, <1>8, <1>9 DEF Between, OpsFollow
  <2>4. QED
    BY <1>1, <2>2, <2>3, NotBeforeItself
<1>11. QED
  BY <1>6, <1>7, <1>10

(* Op i gives what the input says: a destination is zero, a print what it shows. *)
Right(e, i) ==
  LET v == body[i].of
  IN /\ Destines(body[i]) => e[i] = Zero
     /\ ~Destines(body[i]) /\ body[i].op # "print" => e[i] = MeaningOf(v[1])[v[2]]
     /\ ~Destines(body[i]) /\ body[i].op = "print" => e[i] = MeaningOf(v[1])[Input(body[i]).args[1]]

(* What the input is where an op was read. *)
LEMMA InputFacts ==
  ASSUME Between, NEW i \in DOMAIN body, NEW v, v = body[i].of
  PROVE  /\ v \in Positions(Graph) /\ v = <<v[1], v[2]>>
         /\ v[1] \in DOMAIN Graph /\ v[2] \in 1 .. Len(Graph[v[1]].body)
         /\ Input(body[i]) = Graph[v[1]].body[v[2]] /\ Input(body[i]) = OpAt(Graph, v)
         /\ Input(body[i]).op = "print" => 1 \in DOMAIN Input(body[i]).args
         /\ \A a \in DOMAIN Input(body[i]).args :
              Graph[v[1]].body[Input(body[i]).args[a]].op # "print"
<1>1. job \in JobType /\ WellFormedGraph(Graph) /\ v \in Positions(Graph)
  BY OpTyped DEF Between
<1>2. /\ v = <<v[1], v[2]>> /\ v[1] \in DOMAIN Graph /\ v[2] \in 1 .. Len(Graph[v[1]].body)
      /\ OpAt(Graph, v) \in GraphOpType
  BY <1>1, PositionTyped, GraphTyped
<1>3. Input(body[i]) = Graph[v[1]].body[v[2]] /\ Input(body[i]) = OpAt(Graph, v)
  BY DEF Input, OpAt
<1>4. /\ \A a \in DOMAIN OpAt(Graph, v).args :
           Graph[v[1]].body[OpAt(Graph, v).args[a]].op \notin {"print", "return"}
      /\ OpAt(Graph, v).op = "print" => Len(OpAt(Graph, v).args) = 1
  BY <1>1, Arity
<1>5. OpAt(Graph, v).args \in Seq(Nat)
  BY <1>2 DEF GraphOpType
<1>6. OpAt(Graph, v).op = "print" => 1 \in DOMAIN OpAt(Graph, v).args
  <2>1. PICK s \in Seq(Nat) : s = OpAt(Graph, v).args
    BY <1>5
  <2>2. OpAt(Graph, v).op = "print" => Len(s) = 1
    BY <1>4, <2>1
  <2>3. Len(s) = 1 => 1 \in DOMAIN s
    OBVIOUS
  <2>4. QED
    BY <2>1, <2>2, <2>3
<1>7. QED
  BY <1>1, <1>2, <1>3, <1>4, <1>6

(* A print has an operand. *)
LEMMA PrintsRead ==
  ASSUME Between, NEW i \in DOMAIN body, body[i].op = "print"
  PROVE  1 \in DOMAIN body[i].args /\ ~Destines(body[i]) /\ Input(body[i]).op = "print"
<1>1. ~Destines(body[i])
  BY DestinationFields
<1>2. Input(body[i]).op = "print"
  BY <1>1, OpFields
<1>3. body[i].args = Operands(body[i])
  BY <1>1, OpFields
<1>4. 1 \in DOMAIN Input(body[i]).args
  BY <1>2, InputFacts
<1>5. QED
  BY <1>1, <1>2, <1>3, <1>4 DEF Operands

(* When the ops before are right, so are the values an op reads. *)
LEMMA ReadIsRight ==
  ASSUME Between, NEW i \in DOMAIN body, ~Destines(body[i]), NEW e, \A j \in 1 .. i - 1 : Right(e, j),
         NEW a \in DOMAIN body[i].args
  PROVE  e[LastMade(i, body[i].args[a])] = MeaningOf(body[i].of[1])[Input(body[i]).args[a]]
<1>1. PICK m : m = LastMade(i, body[i].args[a])
  OBVIOUS
<1>2. PICK w : w = <<body[i].of[1], Input(body[i]).args[a]>>
  OBVIOUS
<1>3. m \in 1 .. i - 1 /\ body[m].of = w /\ ~Destines(body[m]) /\ a \in DOMAIN Input(body[i]).args
  BY <1>1, <1>2, ReadsTheOp
<1>4. m \in DOMAIN body
  BY <1>3 DEF Between, OpsFollow
<1>5. Input(body[m]) = Graph[body[i].of[1]].body[Input(body[i]).args[a]]
  BY <1>2, <1>3, <1>4, InputFacts
<1>6. Input(body[m]).op # "print"
  <2> DEFINE v == body[i].of
  <2>1. \A b \in DOMAIN Input(body[i]).args :
          Graph[v[1]].body[Input(body[i]).args[b]].op # "print"
    <3> HIDE DEF v
    <3>1. v = body[i].of
      BY DEF v
    <3>2. QED
      BY ONLY Between, i \in DOMAIN body, <3>1, InputFacts
  <2>2. QED
    BY ONLY <1>3, <1>5, <2>1
<1>7. body[m].op # "print"
  BY <1>4, <1>6, PrintsRead
<1>8. e[m] = MeaningOf(w[1])[w[2]]
  BY <1>3, <1>7 DEF Right
<1>9. w[1] = body[i].of[1] /\ w[2] = Input(body[i]).args[a]
  BY <1>2
<1>10. QED
  BY <1>1, <1>8, <1>9

(* The meaning of a compute op. *)
LEMMA KernelMeant ==
  ASSUME NEW f, NEW i, NEW value, Graph[f].body[i].op # "constant", KernelOf(Graph[f].body[i].op) \in KernelKinds
  PROVE  Meant1(value, f, i) =
           <<KernelOf(Graph[f].body[i].op),
             [a \in DOMAIN Graph[f].body[i].args |-> value[Graph[f].body[i].args[a]]]>>
BY ZenonT(40) DEF Meant1

(* A compute op computes what it means. *)
LEMMA ComputedRight ==
  ASSUME Between, NEW i \in DOMAIN body, ~Destines(body[i]), Input(body[i]).op \in ComputeOps,
         NEW e, e[i] = Executed1(e, i), \A j \in 1 .. i - 1 : Right(e, j),
         NEW v, v = body[i].of
  PROVE  e[i] = MeaningOf(v[1])[v[2]] /\ body[i].op # "print"
<1>1. /\ KernelIn(body[i]) = KernelOf(Input(body[i]).op) /\ body[i].op \notin {"constant", "print"}
      /\ body[i].args = Operands(body[i])
  BY OpFields
<1>2. body[i].op = "matmul" => e[LastMade(i, body[i].dest)] = Zero
  BY WorksIntoZero DEF Right
<1>3. KernelOf(Input(body[i]).op) \in KernelKinds
  BY DEF KernelOf, KernelKinds, ComputeOps
<1> DEFINE inputs == [a \in DOMAIN body[i].args |-> e[LastMade(i, body[i].args[a])]]
           meant  == [a \in DOMAIN Input(body[i]).args |-> MeaningOf(v[1])[Input(body[i]).args[a]]]
<1>4. Executed1(e, i) = <<KernelIn(body[i]), inputs>>
  BY <1>1, <1>2, <1>3, SMT DEF Executed1
<1>5. inputs = meant
  <2>1. DOMAIN body[i].args = DOMAIN Input(body[i]).args
    BY <1>1 DEF Operands
  <2>2. \A a \in DOMAIN body[i].args : e[LastMade(i, body[i].args[a])] = MeaningOf(v[1])[Input(body[i]).args[a]]
    BY ReadIsRight
  <2>3. QED
    BY <2>1, <2>2
<1>6. job \in JobType /\ WellFormedGraph(Graph) /\ v[1] \in DOMAIN Graph /\ v[2] \in 1 .. Len(Graph[v[1]].body)
      /\ Input(body[i]) = Graph[v[1]].body[v[2]]
  BY InputFacts DEF Between
<1>7. MeaningOf(v[1])[v[2]] = Meant1(MeaningOf(v[1]), v[1], v[2])
  BY <1>6, MeaningExists
<1>8. Input(body[i]).op # "constant"
  BY DEF ComputeOps
<1>9. Meant1(MeaningOf(v[1]), v[1], v[2]) = <<KernelOf(Input(body[i]).op), meant>>
  <2>1. PICK g, p : g = v[1] /\ p = v[2]
    OBVIOUS
  <2>2. PICK o : o = Graph[g].body[p] /\ o = Input(body[i])
    BY <1>6, <2>1
  <2>3. Meant1(MeaningOf(g), g, p) = <<KernelOf(o.op), [a \in DOMAIN o.args |-> MeaningOf(g)[o.args[a]]]>>
    BY ZenonT(40), <1>3, <1>8, <2>2, KernelMeant
  <2>4. QED
    BY <2>1, <2>2, <2>3
<1>10. QED
  BY <1>1, <1>4, <1>5, <1>7, <1>9

(* So does an op without a kernel. *)
LEMMA OthersRight ==
  ASSUME Between, NEW i \in DOMAIN body, ~Destines(body[i]), Input(body[i]).op \notin ComputeOps,
         body[i].op # "print", NEW e, e[i] = Executed1(e, i), NEW v, v = body[i].of
  PROVE  e[i] = MeaningOf(v[1])[v[2]]
<1>1. body[i].op = Input(body[i]).op /\ body[i].form # "call" /\ body[i].result = v
  BY OpFields
<1>2. job \in JobType /\ WellFormedGraph(Graph) /\ v[1] \in DOMAIN Graph /\ v[2] \in 1 .. Len(Graph[v[1]].body)
      /\ Input(body[i]) = Graph[v[1]].body[v[2]] /\ v = <<v[1], v[2]>> /\ v \in Positions(Graph)
      /\ Input(body[i]) = OpAt(Graph, v)
  BY InputFacts DEF Between
<1>3. Input(body[i]).op \in {"constant", "print", "return", "other", "fill"}
  BY <1>2, PositionTyped DEF GraphOpType
<1>4. KernelOf(Input(body[i]).op) \notin KernelKinds /\ KernelIn(body[i]) \notin KernelKinds
      /\ body[i].op # "matmul"
  BY <1>1, <1>3 DEF KernelOf, KernelIn, KernelKinds
<1>5. MeaningOf(v[1])[v[2]] = Meant1(MeaningOf(v[1]), v[1], v[2])
  BY <1>2, MeaningExists
<1>6. CASE body[i].op = "constant"
  <2>1. Executed1(e, i) = <<"constant", v>>
    BY <1>1, <1>4, <1>6, SMT DEF Executed1
  <2>2. Meant1(MeaningOf(v[1]), v[1], v[2]) = <<"constant", <<v[1], v[2]>> >>
    BY <1>1, <1>2, <1>4, <1>6, SMT DEF Meant1
  <2>3. QED
    BY <1>2, <1>5, <2>1, <2>2
<1>7. CASE body[i].op # "constant"
  <2>1. Executed1(e, i) = Zero
    BY <1>1, <1>4, <1>7, SMT DEF Executed1
  <2>2. Meant1(MeaningOf(v[1]), v[1], v[2]) = <<>>
    BY <1>1, <1>2, <1>4, <1>7, SMT DEF Meant1
  <2>3. QED
    BY <1>5, <2>1, <2>2 DEF Zero
<1>8. QED
  BY <1>6, <1>7

(* When the ops before are right, so is the next. *)
LEMMA NextRight ==
  ASSUME Between, NEW i \in DOMAIN body, NEW e, e[i] = Executed1(e, i), \A j \in 1 .. i - 1 : Right(e, j)
  PROVE  Right(e, i)
<1>1. CASE Destines(body[i])
  <2>1. KernelIn(body[i]) \notin KernelKinds /\ body[i].op \notin {"constant", "print", "matmul"}
    BY <1>1, DestinationFields
  <2>2. Executed1(e, i) = Zero
    BY <2>1, SMT DEF Executed1
  <2>3. QED
    BY <1>1, <2>2 DEF Right
<1>2. CASE ~Destines(body[i]) /\ Input(body[i]).op \in ComputeOps
  BY <1>2, ComputedRight DEF Right
<1>3. CASE ~Destines(body[i]) /\ Input(body[i]).op \notin ComputeOps /\ body[i].op # "print"
  BY <1>3, OthersRight DEF Right
<1>4. CASE ~Destines(body[i]) /\ body[i].op = "print"
  <2>1. 1 \in DOMAIN body[i].args
    BY <1>4, PrintsRead
  <2>2. Executed1(e, i) = e[LastMade(i, body[i].args[1])]
    <3>1. KernelIn(body[i]) \notin KernelKinds
      <4>1. body[i].form # "call"
        BY <1>4, PrintsRead, OpFields DEF ComputeOps
      <4>2. QED
        BY <1>4, <4>1 DEF KernelIn, KernelOf, KernelKinds
    <3>2. QED
      BY <1>4, <3>1, SMT DEF Executed1
  <2>3. e[i] = MeaningOf(body[i].of[1])[Input(body[i]).args[1]]
    BY <1>4, <2>1, <2>2, ReadIsRight
  <2>4. QED
    BY <1>4, <2>3 DEF Right
<1>5. QED
  BY <1>1, <1>2, <1>3, <1>4

(* So all of them are. *)
LEMMA AllRight ==
  ASSUME Between
  PROVE  \A i \in DOMAIN body : Right(Executed, i)
<1>1. body \in Seq(OpType) /\ DOMAIN body = 1 .. Len(body) /\ Len(body) \in Nat
  BY DEF Between, OpsFollow
<1>2. \A i \in DOMAIN body : body[i].op = "print" => 1 \in DOMAIN body[i].args
  BY PrintsRead
<1>3. \A i \in DOMAIN body : body[i].op = "matmul" => body[i].dest # <<>>
  BY DestinationFields, WorksIntoZero
<1>4. \A i \in 1 .. Len(body) : Executed[i] = Executed1(Executed, i)
  BY <1>1, <1>2, <1>3, ExecutedExists DEF Between
<1> DEFINE T == {k \in Nat : \A i \in DOMAIN body : i <= k => Right(Executed, i)}
<1>5. 0 \in T
  BY <1>1
<1>6. ASSUME NEW k \in T PROVE k + 1 \in T
  <2>1. ASSUME NEW i \in DOMAIN body, i <= k + 1 PROVE Right(Executed, i)
    <3>1. ASSUME NEW j \in 1 .. i - 1 PROVE Right(Executed, j)
      <4>1. j \in DOMAIN body /\ j <= k
        BY <1>1, <2>1
      <4>2. QED
        BY <4>1
    <3>2. Executed[i] = Executed1(Executed, i)
      BY <1>1, <1>4
    <3>3. QED
      BY <3>1, <3>2, NextRight
  <2>2. QED
    BY <2>1
<1>7. T = Nat
  <2> HIDE DEF T
  <2>1. T \in SUBSET Nat
    BY DEF T
  <2>2. QED
    BY <1>5, <1>6, <2>1, NatInd
<1>8. QED
  BY <1>1, <1>7

(* It is enough for MeaningPreserved. *)
LEMMA MeaningKept ==
  ASSUME Inv
  PROVE  MeaningPreserved
<1> SUFFICES ASSUME pc = "passes"
             PROVE  \A i \in DOMAIN body :
                      LET v == body[i].of
                      IN \/ /\ body[i].op = "print"
                            /\ Executed[i] = [f \in DOMAIN Graph |-> MeaningOf(f)][v[1]][Input(body[i]).args[1]]
                         \/ /\ KernelIn(body[i]) \in KernelKinds
                            /\ Executed[i] = [f \in DOMAIN Graph |-> MeaningOf(f)][v[1]][v[2]]
                         \/ body[i].op # "print" /\ KernelIn(body[i]) \notin KernelKinds
  BY Zenon DEF MeaningPreserved
<1>1. Between
  BY DEF Inv, DriverInv, TypeOK, PassesFollow, Between, Loaded
<1>2. ASSUME NEW i \in DOMAIN body
      PROVE  LET v == body[i].of
             IN \/ /\ body[i].op = "print"
                   /\ Executed[i] = [f \in DOMAIN Graph |-> MeaningOf(f)][v[1]][Input(body[i]).args[1]]
                \/ /\ KernelIn(body[i]) \in KernelKinds
                   /\ Executed[i] = [f \in DOMAIN Graph |-> MeaningOf(f)][v[1]][v[2]]
                \/ body[i].op # "print" /\ KernelIn(body[i]) \notin KernelKinds
  <2>1. PICK v : v = body[i].of
    OBVIOUS
  <2>2. v[1] \in DOMAIN Graph
    BY <1>1, <2>1, InputFacts
  <2>3. [f \in DOMAIN Graph |-> MeaningOf(f)][v[1]] = MeaningOf(v[1])
    BY <2>2
  <2>4. Right(Executed, i)
    BY <1>1, AllRight
  <2>5. CASE body[i].op = "print"
    BY <1>1, <2>1, <2>3, <2>4, <2>5, PrintsRead DEF Right
  <2>6. CASE body[i].op # "print" /\ KernelIn(body[i]) \in KernelKinds
    BY <1>1, <2>1, <2>3, <2>4, <2>6, DestinationFields DEF Right
  <2>7. QED
    BY <2>5, <2>6
<1>3. QED
  BY <1>2

(* No pass changes what the program computes: after each of them, and at any point of
   the lowering to kernels, every op computes and every print shows what the input
   says. *)
THEOREM Meanings == Spec => []MeaningPreserved
<1>1. Inv => MeaningPreserved
  BY MeaningKept
<1>2. QED
  BY <1>1, Invariance, PTL

-----------------------------------------------------------------------------
(* What is handed to the serializer.                                        *)

(* The kernel path is behind, and nothing of it has failed. *)
AtEnd == job \in JobType /\ ModuleInv /\ Finished /\ KernelLevel

(* What holds of the module when the kernel-level passes are done. *)
LEMMA EndFacts ==
  ASSUME AtEnd
  PROVE  /\ Loaded /\ WellFormedGraph(Graph) /\ body \in Seq(OpType) /\ ~Linalged
         /\ Work = {} /\ \A f \in DOMAIN Graph : Graph[f].name \notin GeneratedNames
         /\ \A i, j \in DOMAIN body : i < j => Before(body[i].of, body[j].of)
         /\ \A v \in Positions(Graph) : \E i \in DOMAIN body : body[i].of = v
         /\ \A i \in DOMAIN body : body[i].of \in Positions(Graph) /\ AsRead(body[i])
<1>1. job \in JobType /\ PassesFollow /\ OpsFollow /\ Finished /\ KernelLevel
  BY DEF AtEnd, ModuleInv
<1>2. Loaded
  BY <1>1 DEF Finished, Loaded
<1>3. ~Linalged
  BY <1>1, Flags DEF Heterogeneous
<1>4. WellFormedGraph(Graph) /\ Work = {} /\ \A f \in DOMAIN Graph : Graph[f].name \notin GeneratedNames
  BY <1>1, <1>2 DEF PassesFollow
<1>5. /\ body \in Seq(OpType)
      /\ \A i, j \in DOMAIN body : i < j => Before(body[i].of, body[j].of)
      /\ \A v \in Positions(Graph) : \E i \in DOMAIN body : body[i].of = v
      /\ \A i \in DOMAIN body : AsRead(body[i])
  BY <1>1, <1>2, <1>3 DEF OpsFollow
<1>6. ASSUME NEW i \in DOMAIN body PROVE body[i].of \in Positions(Graph)
  <2>1. PICK o \in OpType : o = body[i]
    BY <1>5
  <2>2. o.of \in Positions(Graph)
    BY DEF OpType
  <2>3. QED
    BY <2>1, <2>2
<1>7. QED
  BY <1>2, <1>3, <1>4, <1>5, <1>6

(* The calls are the compute ops. *)
LEMMA CallsAreComputes ==
  ASSUME AtEnd, NEW i \in DOMAIN body
  PROVE  /\ i \in Calls <=> OpAt(Graph, body[i].of).op \in ComputeOps
         /\ i \in Calls <=> body[i].form = "call"
         /\ body[i].op = OpAt(Graph, body[i].of).op
<1>1. AsRead(body[i]) /\ i \notin Work
  BY EndFacts
<1>2. /\ body[i].op = OpAt(Graph, body[i].of).op
      /\ body[i].form = "call" => body[i].op \in ComputeOps
      /\ body[i].op \in ComputeOps => body[i].form \in {"hexir", "call"}
  BY <1>1, ReadFields DEF Input
<1>3. ~(body[i].form = "hexir" /\ body[i].op \in ComputeOps)
  BY <1>1 DEF Work
<1>4. QED
  BY <1>2, <1>3 DEF Calls

(* Each compute op has its call, with its prim func. *)
LEMMA EndCall ==
  ASSUME AtEnd, NEW v \in Compute(Graph)
  PROVE  \E i \in Calls : /\ body[i].of = v /\ i \in DOMAIN body
                          /\ body[i].callee = PrimIndex(Graph, v) /\ body[i].callee \in DOMAIN prims
                          /\ OpAt(Graph, v).regular
                          /\ prims[PrimIndex(Graph, v)] = PrimOf(Graph, v, Placement(Options, OpAt(Graph, v)))
<1>1. PICK i \in DOMAIN body : body[i].of = v
  BY EndFacts DEF Compute
<1>2. i \in Calls
  BY <1>1, CallsAreComputes DEF Compute
<1>3. KernelsFollow
  BY DEF AtEnd, ModuleInv
<1>4. QED
  BY <1>1, <1>2, <1>3 DEF KernelsFollow, Input

(* The prim funcs are those stated for the input. *)
LEMMA EndPrims ==
  ASSUME AtEnd
  PROVE  prims = [p \in 1 .. Cardinality(Compute(Graph)) |->
                    LET v == CHOOSE v \in Compute(Graph) : PrimIndex(Graph, v) = p
                    IN PrimOf(Graph, v, Placement(Options, OpAt(Graph, v)))]
<1>1. KernelsFollow /\ prims \in Seq(PrimType)
  BY DEF AtEnd, ModuleInv
<1>2. ASSUME NEW i \in Calls PROVE body[i].of \in Compute(Graph) /\ i \in DOMAIN body
  <2>1. i \in DOMAIN body
    BY DEF Calls
  <2>2. QED
    BY <2>1, EndFacts, CallsAreComputes DEF Compute
<1>3. {body[i].of : i \in Calls} = Compute(Graph)
  <2>1. \A v \in Compute(Graph) : \E i \in Calls : body[i].of = v
    BY EndCall
  <2>2. QED
    BY <1>2, <2>1
<1>4. DOMAIN prims = 1 .. Cardinality(Compute(Graph))
  <2>1. PICK made \in Seq(PrimType) : made = prims
    BY <1>1
  <2>2. Len(made) = Cardinality(Compute(Graph))
    BY <1>1, <1>3, <2>1 DEF KernelsFollow
  <2>3. DOMAIN made = 1 .. Len(made)
    OBVIOUS
  <2>4. QED
    BY <2>1, <2>2, <2>3
<1> DEFINE At(p) == CHOOSE v \in Compute(Graph) : PrimIndex(Graph, v) = p
<1>5. ASSUME NEW p \in DOMAIN prims
      PROVE  prims[p] = PrimOf(Graph, At(p), Placement(Options, OpAt(Graph, At(p))))
  <2>1. PICK i \in Calls : body[i].callee = p
    BY <1>1 DEF KernelsFollow
  <2>2. PrimIndex(Graph, body[i].of) = p
    BY <1>1, <2>1 DEF KernelsFollow
  <2>3. At(p) \in Compute(Graph) /\ PrimIndex(Graph, At(p)) = p
    BY <1>2, <2>2
  <2> HIDE DEF At
  <2>4. QED
    BY <2>3, EndCall
<1>6. prims = [p \in DOMAIN prims |-> prims[p]]
  BY <1>1
<1>7. QED
  BY <1>4, <1>5, <1>6, Zenon

(* What the serializer finds of an op is what is stated for it. *)
LEMMA FoundIs ==
  ASSUME AtEnd, NEW i \in DOMAIN body, NEW v, v = body[i].of
  PROVE  Found(body[i]) = CallOf(OpAt(Graph, v), PrimIndex(Graph, v))
<1>1. PICK o : o = body[i]
  OBVIOUS
<1>2. PICK g : g = OpAt(Graph, v)
  OBVIOUS
<1>3. v \in Positions(Graph) /\ AsRead(o) /\ job \in JobType
  BY <1>1, EndFacts DEF AtEnd
<1>4. g \in GraphOpType
  BY <1>2, <1>3, PositionTyped
<1>5. Input(o) = g
  BY <1>1, <1>2 DEF Input
<1>6. o.args = [a \in DOMAIN g.args |-> <<v[1], g.args[a]>>] /\ o.op = g.op
  BY <1>1, <1>3, <1>5, ReadFields
<1>7. [a \in DOMAIN o.args |-> o.args[a][2]] = g.args
  <2>1. g.args \in Seq(Nat)
    BY <1>4 DEF GraphOpType
  <2>2. PICK s \in Seq(Nat) : s = g.args
    BY <2>1
  <2>3. o.args = [a \in DOMAIN s |-> <<v[1], s[a]>>]
    BY <1>6, <2>2
  <2>4. [a \in DOMAIN o.args |-> o.args[a][2]] = [a \in DOMAIN s |-> s[a]]
    BY <2>3
  <2>5. [a \in DOMAIN s |-> s[a]] = s
    OBVIOUS
  <2>6. QED
    BY <2>2, <2>4, <2>5
<1>8. /\ o.form = "call" <=> g.op \in ComputeOps
      /\ i \in Calls <=> o.form = "call"
  BY <1>1, <1>2, CallsAreComputes
<1>9. (IF o.form = "call" THEN o.callee ELSE 0) = PrimIndex(Graph, v)
  <2>1. CASE o.form = "call"
    <3>1. KernelsFollow /\ i \in Calls
      BY <1>8, <2>1 DEF AtEnd, ModuleInv
    <3>2. o.callee = PrimIndex(Graph, v)
      BY <1>1, <3>1 DEF KernelsFollow
    <3>3. QED
      BY <2>1, <3>2
  <2>2. CASE o.form # "call"
    <3>1. v \notin Compute(Graph)
      BY <1>2, <1>8, <2>2 DEF Compute
    <3>2. QED
      BY <2>2, <3>1 DEF PrimIndex
  <2>3. QED
    BY <2>1, <2>2
<1>10. (IF o.form = "call" THEN "call_tir" ELSE IF o.op \in {"constant", "print", "return"} THEN o.op ELSE "unsupported")
         = IF g.op \in ComputeOps THEN "call_tir" ELSE IF g.op \in {"other", "fill"} THEN "unsupported" ELSE g.op
  <2>1. g.op \in ComputeOps \cup {"constant", "print", "return", "other", "fill"}
    BY <1>4 DEF GraphOpType
  <2>2. CASE g.op \in ComputeOps
    BY <1>8, <2>2
  <2>3. CASE g.op \in {"other", "fill"}
    BY <1>6, <1>8, <2>3 DEF ComputeOps
  <2>4. CASE g.op \in {"constant", "print", "return"}
    BY <1>6, <1>8, <2>4 DEF ComputeOps
  <2>5. QED
    BY <2>1, <2>2, <2>3, <2>4
<1>11. Found(o) = CallOf(g, PrimIndex(Graph, v))
  BY <1>5, <1>7, <1>9, <1>10, Zenon DEF Found, CallOf
<1>12. QED
  BY <1>1, <1>2, <1>11

(* The ops of a function are those of the input, in order: none is lost, added or
   moved. *)
LEMMA OpsInAre ==
  ASSUME AtEnd, NEW f \in DOMAIN Graph, NEW ops, ops = OpsIn(f)
  PROVE  /\ DOMAIN ops = DOMAIN Graph[f].body
         /\ \A l \in DOMAIN ops : ops[l].of = <<f, l>> /\ \E i \in DOMAIN body : ops[l] = body[i]
<1>1. /\ body \in Seq(OpType) /\ job \in JobType /\ WellFormedGraph(Graph)
      /\ \A i, j \in DOMAIN body : i < j => Before(body[i].of, body[j].of)
      /\ \A v \in Positions(Graph) : \E i \in DOMAIN body : body[i].of = v
      /\ \A i \in DOMAIN body : body[i].of \in Positions(Graph)
  BY EndFacts DEF AtEnd
<1>2. /\ Len(Graph) \in Nat /\ DOMAIN Graph = 1 .. Len(Graph)
      /\ Graph[f].body \in Seq(GraphOpType)
  BY <1>1, GraphTyped
<1> DEFINE seqs == [i \in DOMAIN body |-> IF body[i].of[1] = f THEN <<body[i]>> ELSE <<>>]
           m == Len(Graph[f].body)
           n == Len(ops)
<1>3. DOMAIN body = 1 .. Len(body) /\ Len(body) \in Nat
  BY <1>1
<1>4. ASSUME NEW i \in DOMAIN body
      PROVE  /\ seqs[i] \in Seq(OpType) /\ Len(seqs[i]) <= 1
             /\ Len(seqs[i]) >= 1 <=> body[i].of[1] = f
             /\ body[i].of[1] = f => seqs[i][1] = body[i]
  <2>1. PICK o \in OpType : o = body[i]
    BY <1>1
  <2>2. CASE o.of[1] = f
    <3>1. seqs[i] = <<o>>
      BY <2>1, <2>2
    <3>2. <<o>> \in Seq(OpType) /\ Len(<<o>>) <= 1 /\ Len(<<o>>) >= 1 /\ <<o>>[1] = o
      OBVIOUS
    <3>3. QED
      BY <2>1, <2>2, <3>1, <3>2
  <2>3. CASE o.of[1] # f
    <3>1. seqs[i] = <<>>
      BY <2>1, <2>3
    <3>2. <<>> \in Seq(OpType) /\ Len(<<>>) <= 1 /\ ~(Len(<<>>) >= 1)
      OBVIOUS
    <3>3. QED
      BY <2>1, <2>3, <3>1, <3>2
  <2>4. QED
    BY <2>2, <2>3
<1>5. DOMAIN seqs = DOMAIN body
  OBVIOUS
<1>6. ops = FlattenSeq(seqs)
  BY DEF OpsIn
<1> HIDE DEF seqs
<1>7. seqs \in Seq(Seq(OpType)) /\ Len(seqs) = Len(body)
  <2>1. seqs \in [1 .. Len(body) -> Seq(OpType)]
    <3>1. seqs = [i \in 1 .. Len(body) |-> seqs[i]]
      BY <1>3, <1>5 DEF seqs
    <3>2. QED
      BY <1>3, <1>4, <3>1
  <2>2. QED
    BY <1>3, <2>1
<1>8. ops \in Seq(OpType)
  BY <1>6, <1>7, FlattenPlaces
<1>9. PICK from :
        /\ \A l \in 1 .. Len(ops) : from[l] \in 1 .. Len(seqs) /\ Len(seqs[from[l]]) >= 1 /\ ops[l] = seqs[from[l]][1]
        /\ \A k, l \in 1 .. Len(ops) : k < l => from[k] < from[l]
        /\ \A i \in 1 .. Len(seqs) : Len(seqs[i]) >= 1 => \E l \in 1 .. Len(ops) : from[l] = i
  <2>1. \A i \in 1 .. Len(seqs) : Len(seqs[i]) <= 1
    BY <1>3, <1>4, <1>7
  <2>2. \E from : Filters(from, ops, seqs)
    BY ONLY <1>6, <1>7, <2>1, Filtered
  <2>3. QED
    BY ONLY <2>2 DEF Filters
<1>10. n \in Nat /\ m \in Nat /\ DOMAIN ops = 1 .. n /\ DOMAIN Graph[f].body = 1 .. m
  BY <1>2, <1>8
<1>11. ASSUME NEW l \in 1 .. n
       PROVE  /\ from[l] \in DOMAIN body /\ ops[l] = body[from[l]]
              /\ ops[l].of \in Positions(Graph) /\ ops[l].of = <<f, ops[l].of[2]>> /\ ops[l].of[2] \in 1 .. m
  <2>1. from[l] \in DOMAIN body /\ ops[l] = body[from[l]] /\ body[from[l]].of[1] = f
    BY <1>3, <1>4, <1>7, <1>9
  <2>2. PICK v \in Positions(Graph) : v = ops[l].of
    BY <1>1, <2>1
  <2>3. v = <<v[1], v[2]>> /\ v[1] = f /\ v[2] \in 1 .. Len(Graph[v[1]].body)
    BY <1>1, <2>1, <2>2, PositionTyped
  <2>4. QED
    BY <2>1, <2>2, <2>3
<1> DEFINE h == [l \in 1 .. n |-> ops[l].of[2]]
<1>12. \A l \in 1 .. n : h[l] \in 1 .. m
  BY <1>11
<1>13. ASSUME NEW k \in 1 .. n, NEW l \in 1 .. n, k < l PROVE h[k] < h[l]
  <2>1. from[k] \in DOMAIN body /\ from[l] \in DOMAIN body /\ from[k] < from[l]
    BY <1>9, <1>11, <1>13
  <2>2. Before(ops[k].of, ops[l].of)
    BY <1>1, <1>11, <2>1
  <2>3. PICK a \in 1 .. m, b \in 1 .. m : a = ops[k].of[2] /\ b = ops[l].of[2]
    BY <1>11
  <2>4. ops[k].of = <<f, a>> /\ ops[l].of = <<f, b>>
    BY <1>11, <2>3
  <2>5. Before(<<f, a>>, <<f, b>>)
    BY <2>2, <2>4
  <2>6. a < b
    BY <1>2, <2>5 DEF Before
  <2>7. QED
    BY <2>3, <2>6
<1>14. ASSUME NEW p \in 1 .. m PROVE \E l \in 1 .. n : h[l] = p
  <2>1. <<f, p>> \in Positions(Graph)
    BY <1>1, <1>2, InPositions
  <2>2. PICK i \in DOMAIN body : body[i].of = <<f, p>>
    BY <1>1, <2>1
  <2>3. Len(seqs[i]) >= 1
    BY <1>4, <2>2
  <2>4. PICK l \in 1 .. n : from[l] = i
    BY <1>3, <1>7, <1>9, <2>3
  <2>5. ops[l].of[2] = p
    BY <1>11, <2>2, <2>4
  <2>6. QED
    BY <2>5
<1> HIDE DEF h, n, m
<1>15. n = m /\ \A l \in 1 .. n : h[l] = l
  <2>1. \A k, l \in 1 .. n : k < l => h[k] < h[l]
    BY <1>13
  <2>2. \A p \in 1 .. m : \E l \in 1 .. n : h[l] = p
    BY <1>14
  <2>3. n \in Nat /\ m \in Nat
    BY <1>10
  <2>4. Climbs(h, n, m)
    BY ONLY <2>1, <2>2, <2>3, <1>12 DEF Climbs
  <2>5. QED
    BY ONLY <2>4, ClimbByOne
<1>16. ASSUME NEW l \in DOMAIN ops
       PROVE  ops[l].of = <<f, l>> /\ \E i \in DOMAIN body : ops[l] = body[i]
  <2>1. l \in 1 .. n /\ h[l] = l
    BY <1>10, <1>15
  <2>2. h[l] = ops[l].of[2]
    BY <2>1 DEF h
  <2>3. QED
    BY <1>11, <2>1, <2>2
<1>17. QED
  BY <1>10, <1>15, <1>16

(* The functions the serializer walks are functions of the input. *)
LEMMA WalkedAre ==
  ASSUME job \in JobType, NEW w \in DOMAIN Walked(Graph)
  PROVE  Walked(Graph)[w] \in DOMAIN Graph
<1>1. PICK n \in Nat : DOMAIN Graph = 1 .. n
  BY GraphTyped
<1> DEFINE T == DOMAIN Graph
           seqs == [f \in DOMAIN Graph |-> IF Graph[f].kind = "func.func" THEN <<f>> ELSE <<>>]
<1>2. ASSUME NEW f \in T PROVE seqs[f] \in Seq(T)
  <2>1. <<f>> \in Seq(T) /\ <<>> \in Seq(T)
    <3> HIDE DEF T
    <3>1. QED
      OBVIOUS
  <2>2. seqs[f] \in {<<f>>, <<>>}
    OBVIOUS
  <2> HIDE DEF seqs, T
  <2>3. QED
    BY <2>1, <2>2
<1>3. seqs \in [1 .. n -> Seq(T)]
  BY <1>1, <1>2
<1>4. Walked(Graph) = FlattenSeq(seqs)
  BY DEF Walked
<1> HIDE DEF seqs, T
<1>5. seqs \in Seq(Seq(T))
  BY <1>3
<1>6. FlattenSeq(seqs) \in Seq(T)
  BY <1>5, FlattenPlaces
<1>7. PICK s \in Seq(T) : s = Walked(Graph)
  BY <1>4, <1>6
<1>8. s[w] \in T
  BY <1>7
<1>9. QED
  BY <1>7, <1>8 DEF T

(* The module at the end is the one stated for the input. *)
LEMMA EndModule ==
  ASSUME AtEnd
  PROVE  Compiled = Lowered(Graph, Options)
<1>1. ASSUME NEW f \in DOMAIN Graph
      PROVE  [i \in DOMAIN OpsIn(f) |-> Found(OpsIn(f)[i])]
               = [i \in DOMAIN Graph[f].body |-> CallOf(Graph[f].body[i], PrimIndex(Graph, <<f, i>>))]
  <2>1. PICK ops : ops = OpsIn(f)
    OBVIOUS
  <2>2. ASSUME NEW i \in DOMAIN ops
        PROVE  Found(ops[i]) = CallOf(Graph[f].body[i], PrimIndex(Graph, <<f, i>>))
    <3>1. PICK k \in DOMAIN body : ops[i] = body[k]
      BY <2>1, OpsInAre
    <3>2. body[k].of = <<f, i>>
      BY <2>1, <3>1, OpsInAre
    <3>3. OpAt(Graph, <<f, i>>) = Graph[f].body[i]
      BY DEF OpAt
    <3>4. QED
      BY <3>1, <3>2, <3>3, FoundIs
  <2>3. DOMAIN ops = DOMAIN Graph[f].body
    BY <2>1, OpsInAre
  <2>4. QED
    BY <2>1, <2>2, <2>3
<1>2. ASSUME NEW w \in DOMAIN Walked(Graph)
      PROVE  Walked(Graph)[w] \in DOMAIN Graph
  BY WalkedAre DEF AtEnd
<1>3. [w \in DOMAIN Walked(Graph) |->
         [name |-> Graph[Walked(Graph)[w]].name,
          body |-> [i \in DOMAIN OpsIn(Walked(Graph)[w]) |-> Found(OpsIn(Walked(Graph)[w])[i])]]]
      = [w \in DOMAIN Walked(Graph) |->
         [name |-> Graph[Walked(Graph)[w]].name,
          body |-> [i \in DOMAIN Graph[Walked(Graph)[w]].body |->
                      CallOf(Graph[Walked(Graph)[w]].body[i], PrimIndex(Graph, <<Walked(Graph)[w], i>>))]]]
  BY <1>1, <1>2, Zenon
<1>4. QED
  BY <1>3, EndPrims, Zenon DEF Compiled, Lowered

(* It is enough for LowersAsStated. *)
LEMMA LoweredAsStated ==
  ASSUME Inv
  PROVE  LowersAsStated
<1>1. CASE KernelLevel /\ pc \in {"open", "serialize", "emit"}
  <2>1. DriverInv /\ ModuleInv
    BY DEF Inv, TypeOK, ModuleInv
  <2>2. AtEnd
    BY <1>1, <2>1 DEF AtEnd, DriverInv, Finished
  <2>3. chip = Chip(Options)
    BY <1>1, <2>1 DEF DriverInv, Resolved, PastTheLine
  <2>4. QED
    BY <2>2, <2>3, EndModule DEF LowersAsStated
<1>2. CASE ~(KernelLevel /\ pc \in {"open", "serialize", "emit"})
  BY <1>2 DEF LowersAsStated
<1>3. QED
  BY <1>1, <1>2

(* What hexir hands to the serializer is what is stated of the command line and the
   graph, op by op and prim func by prim func. *)
THEOREM Lowerings == Spec => []LowersAsStated
<1>1. Inv => LowersAsStated
  BY LoweredAsStated
<1>2. QED
  BY <1>1, Invariance, PTL

-----------------------------------------------------------------------------
(* What the exit status says.                                               *)

(* What may be said of the input when the passes have failed. *)
BuiltFails == AtLeast(job.emit, "llvm_dialect") /\ Placement(Options, OpAt(Graph, <<1, 4>>)) = "cuda"

(* On the way to kernels: a name is taken, or a result has no rank. *)
KernelsFail == ~NamesAreFree \/ ~RanksAreKnown(ComputeOps \cup {"other"})

(* What the exit status says that no other invariant does. *)
Status ==
  /\ exit = "load_failed" => job.input = "file"
  /\ exit = "ok" /\ job.emit = "hxb" => Serializable(Lowered(Graph, Options))
  /\ exit = "pass_failed" => (job.input = "built" => BuiltFails) /\ (KernelLevel => KernelsFail)
  /\ exit = "undefined" => KernelLevel /\ ~RanksAreKnown({"other"})

(* It speaks of the command line, which stays, and of the exit status only. *)
LEMMA StatusSays ==
  ASSUME UNCHANGED job,
         exit' = "load_failed" => job.input = "file",
         exit' = "ok" /\ job.emit = "hxb" => Serializable(Lowered(Graph, Options)),
         exit' = "pass_failed" => (job.input = "built" => BuiltFails) /\ (KernelLevel => KernelsFail),
         exit' = "undefined" => KernelLevel /\ ~RanksAreKnown({"other"})
  PROVE  Status'
<1>1. Graph' = Graph /\ Options' = Options /\ (KernelLevel' <=> KernelLevel)
  BY DEF Graph, Options, KernelLevel
<1>2. Serializable(Lowered(Graph, Options))' <=> Serializable(Lowered(Graph, Options))
  BY ONLY <1>1
<1>3. BuiltFails' <=> BuiltFails
  BY <1>1 DEF BuiltFails
<1>4. KernelsFail' <=> KernelsFail
  BY <1>1 DEF KernelsFail, NamesAreFree, RanksAreKnown
<1>5. RanksAreKnown({"other"})' <=> RanksAreKnown({"other"})
  BY <1>1 DEF RanksAreKnown
<1>6. QED
  BY <1>1, <1>2, <1>3, <1>4, <1>5 DEF Status

(* The program that is built in: one function, which is fine in all that a pass may
   refuse, and one compute op in it. *)
LEMMA BuiltIs ==
  ASSUME job.input = "built"
  PROVE  /\ DOMAIN Graph = {1} /\ Graph[1].kind = "func.func" /\ Graph[1].name = "main"
         /\ DOMAIN Graph[1].body = 1 .. 6
         /\ \A i \in 1 .. 6 : /\ Graph[1].body[i].regular
                              /\ Graph[1].body[i].op \notin {"other", "fill", "add", "relu"}
                              /\ Graph[1].body[i].op = "linear" <=> i = 4
<1>1. Graph = BuiltProgram
  BY DEF Graph
<1>2. DOMAIN BuiltProgram = {1} /\ BuiltProgram[1].kind = "func.func" /\ BuiltProgram[1].name = "main"
  BY DEF BuiltProgram
<1>3. BuiltProgram[1].body =
        << BuiltOp("constant", <<>>, 1, 2), BuiltOp("constant", <<>>, 2, 2),
           BuiltOp("constant", <<>>, 2, 2), BuiltOp("linear", <<2, 3>>, 2, 2),
           BuiltOp("print", <<4>>, 2, 2), BuiltOp("return", <<>>, 0, 0) >>
  BY DEF BuiltProgram
<1>4. DOMAIN BuiltProgram[1].body = 1 .. 6
  BY <1>3
<1>5. ASSUME NEW i \in 1 .. 6
      PROVE  /\ BuiltProgram[1].body[i].regular
             /\ BuiltProgram[1].body[i].op \notin {"other", "fill", "add", "relu"}
             /\ BuiltProgram[1].body[i].op = "linear" <=> i = 4
  <2>1. i \in {1, 2, 3, 4, 5, 6}
    OBVIOUS
  <2>2. QED
    BY <1>3, <2>1 DEF BuiltOp
<1>6. QED
  BY <1>1, <1>2, <1>4, <1>5

(* The same at each position of it. *)
LEMMA BuiltPositions ==
  ASSUME job \in JobType, job.input = "built", NEW v \in Positions(Graph)
  PROVE  /\ OpAt(Graph, v).regular /\ OpAt(Graph, v).op \notin {"other", "fill", "add", "relu"}
         /\ OpAt(Graph, v).op \in ComputeOps => v = <<1, 4>>
<1>1. v = <<v[1], v[2]>> /\ v[1] \in 1 .. Len(Graph) /\ v[2] \in 1 .. Len(Graph[v[1]].body)
  BY PositionTyped
<1>2. DOMAIN Graph = 1 .. Len(Graph) /\ \A f \in DOMAIN Graph : Graph[f].body \in Seq(GraphOpType)
  BY GraphTyped
<1>3. v[1] = 1
  BY <1>1, <1>2, BuiltIs
<1>4. v[2] \in 1 .. 6
  <2>1. Graph[1].body \in Seq(GraphOpType)
    BY <1>1, <1>2, <1>3
  <2>2. DOMAIN Graph[1].body = 1 .. Len(Graph[1].body)
    BY <2>1
  <2>3. QED
    BY <1>1, <1>3, <2>2, BuiltIs
<1>5. OpAt(Graph, v) = Graph[1].body[v[2]]
  BY <1>3 DEF OpAt
<1>6. QED
  BY <1>1, <1>3, <1>4, <1>5, BuiltIs DEF ComputeOps

(* Linalg takes it as well: the operands of the linear are square. *)
LEMMA BuiltConverts ==
  ASSUME job \in JobType, job.input = "built"
  PROVE  Convertible
<1>1. \A f \in DOMAIN Graph : Graph[f].kind = "func.func"
  BY BuiltIs
<1>2. Graph = BuiltProgram
  BY DEF Graph
<1>3. ASSUME NEW v \in Positions(Graph) PROVE Fits(v)
  <2>1. CASE OpAt(Graph, v).op \notin {"linear", "add", "relu"}
    BY <2>1 DEF Fits
  <2>2. CASE OpAt(Graph, v).op \in {"linear", "add", "relu"}
    <3>1. v = <<1, 4>>
      BY <2>2, BuiltPositions DEF ComputeOps
    <3>2. OpAt(Graph, v) = BuiltOp("linear", <<2, 3>>, 2, 2)
      BY <1>2, <3>1 DEF OpAt, BuiltProgram
    <3>3. OpAt(Graph, <<1, 2>>) = BuiltOp("constant", <<>>, 2, 2) /\ OpAt(Graph, <<1, 3>>) = BuiltOp("constant", <<>>, 2, 2)
      BY <1>2 DEF OpAt, BuiltProgram
    <3>4. v[1] = 1 /\ OpAt(Graph, v).op = "linear" /\ OpAt(Graph, v).rows = 2 /\ OpAt(Graph, v).cols = 2
          /\ OpAt(Graph, v).args[1] = 2 /\ OpAt(Graph, v).args[2] = 3
      BY <3>1, <3>2 DEF BuiltOp
    <3>5. \A n \in {2, 3} : OpAt(Graph, <<1, n>>).rows = 2 /\ OpAt(Graph, <<1, n>>).cols = 2
      BY <3>3 DEF BuiltOp
    <3>6. QED
      BY <3>4, <3>5 DEF Fits
  <2>3. QED
    BY <2>1, <2>2
<1>4. QED
  BY <1>1, <1>3, BuiltPositions DEF Convertible

(* Up to the lowering to linalg an op is the one that was read. *)
LEMMA StillRead ==
  ASSUME job \in JobType, ModuleInv, ~Linalged, NEW i \in DOMAIN body
  PROVE  /\ body[i].of \in Positions(Graph) /\ AsRead(body[i])
         /\ body[i].op = OpAt(Graph, body[i].of).op
<1>1. OpsFollow
  BY DEF ModuleInv
<1>2. body[i] \in OpType /\ AsRead(body[i])
  BY <1>1 DEF OpsFollow
<1>3. QED
  BY <1>2, ReadFields DEF OpType, Input

(* Shape inference ends on an op whose result is unranked. *)
LEMMA ShapesFail ==
  ASSUME job \in JobType, FileFollows, ModuleInv, Running("shape_inference"),
         NEW i \in DOMAIN body, Graph[body[i].of[1]].kind = "hexir.func", Unranked(body[i])
  PROVE  (job.input = "built" => BuiltFails) /\ (KernelLevel => KernelsFail)
<1>1. Ran = 0
  BY PassPlace DEF ModuleInv
<1>2. ~Linalged
  BY <1>1, Flags
<1>3. PICK v : v = body[i].of
  OBVIOUS
<1>4. v \in Positions(Graph) /\ body[i].op = OpAt(Graph, v).op
  BY <1>2, <1>3, StillRead
<1>5. body[i].op \in ComputeOps \cup {"other"} /\ ~OpAt(Graph, v).regular
  BY <1>3 DEF Unranked, Input
<1>6. KernelsFail
  BY <1>4, <1>5 DEF KernelsFail, RanksAreKnown
<1>7. job.input # "built"
  BY <1>4, <1>5, BuiltPositions
<1>8. QED
  BY <1>6, <1>7

(* LowerToTIR ends on an op whose result is unranked. *)
LEMMA LoweringFails ==
  ASSUME job \in JobType, FileFollows, ModuleInv, Running("to_tir"),
         NEW i \in Work, ~Input(body[i]).regular
  PROVE  (job.input = "built" => BuiltFails) /\ (KernelLevel => KernelsFail)
<1>1. job.emit \in {"tir", "hxb"}
  BY PassPlace DEF ModuleInv
<1>2. ~Linalged /\ KernelLevel
  BY <1>1, Flags DEF Heterogeneous
<1>3. PICK v : v = body[i].of
  OBVIOUS
<1>4. i \in DOMAIN body /\ body[i].op \in ComputeOps
  BY DEF Work
<1>5. v \in Positions(Graph) /\ body[i].op = OpAt(Graph, v).op /\ ~OpAt(Graph, v).regular
  BY <1>2, <1>3, <1>4, StillRead DEF Input
<1>6. KernelsFail
  BY <1>4, <1>5 DEF KernelsFail, RanksAreKnown
<1>7. job.input # "built"
  BY <1>5, BuiltPositions
<1>8. QED
  BY <1>6, <1>7

(* The program that is built in has one prim func, the first. *)
LEMMA BuiltPrim ==
  ASSUME job \in JobType, job.input = "built", NEW v \in Compute(Graph)
  PROVE  PrimIndex(Graph, v) = 1 /\ OpAt(Graph, v).op = "linear"
<1>1. \A u \in Compute(Graph) : u = <<1, 4>> /\ OpAt(Graph, u).op = "linear"
  <2>1. \A u \in Compute(Graph) : u \in Positions(Graph) /\ OpAt(Graph, u).op \in ComputeOps
    BY DEF Compute
  <2>2. QED
    BY <2>1, BuiltPositions DEF ComputeOps
<1>2. {u \in Compute(Graph) : ~Before(v, u)} = {v}
  BY <1>1 DEF Before
<1>3. Cardinality({v}) = 1
  BY FS_Singleton
<1>4. QED
  BY <1>1, <1>2, <1>3 DEF PrimIndex

(* The verifier finds a prim func of the name of a function of the input. *)
LEMMA NamesFail ==
  ASSUME job \in JobType, FileFollows, ModuleInv, Running("to_tir"),
         NEW f \in DOMAIN Graph, Graph[f].name \in GeneratedNames
  PROVE  (job.input = "built" => BuiltFails) /\ (KernelLevel => KernelsFail)
<1>1. job.emit \in {"tir", "hxb"}
  BY PassPlace DEF ModuleInv
<1>2. ~Linalged /\ KernelLevel
  BY <1>1, Flags DEF Heterogeneous
<1>3. PICK i \in DOMAIN body : body[i].form = "call" /\ Graph[f].name = Mangled(body[i].op, body[i].callee - 1)
  BY DEF GeneratedNames
<1>4. PICK v : v = body[i].of
  OBVIOUS
<1>5. body[i].callee = PrimIndex(Graph, v)
  BY <1>3, <1>4 DEF ModuleInv, KernelsFollow, Calls
<1>6. v \in Positions(Graph) /\ body[i].op = OpAt(Graph, v).op
  BY <1>2, <1>4, StillRead
<1>7. v \in Compute(Graph)
  <2>1. AsRead(body[i])
    BY <1>2, StillRead
  <2>2. body[i].op \in ComputeOps
    BY <1>3, <2>1, ReadFields
  <2>3. QED
    BY <1>6, <2>2 DEF Compute
<1>8. Graph[f].name = Mangled(OpAt(Graph, v).op, PrimIndex(Graph, v) - 1)
  BY <1>3, <1>5, <1>6
<1>9. ~NamesAreFree
  BY <1>7, <1>8 DEF NamesAreFree
<1>10. job.input # "built"
  <2> SUFFICES ASSUME job.input = "built" PROVE FALSE
    OBVIOUS
  <2>1. Graph[f].name = "main"
    BY BuiltIs
  <2>2. PrimIndex(Graph, v) = 1 /\ OpAt(Graph, v).op = "linear"
    BY <1>7, BuiltPrim
  <2>3. PrimIndex(Graph, v) - 1 = 0
    BY <2>2
  <2>4. Graph[f].name = Mangled("linear", 0)
    BY <1>8, <2>2, <2>3
  <2>5. QED
    BY <2>1, <2>4, MangledAssumption
<1>11. QED
  BY <1>9, <1>10 DEF KernelsFail

(* A cast goes wrong only on the result of an op without a kernel: all else that may
   be an operand is ranked, the compute ops before it because they are calls by now. *)
LEMMA CastsGoWrong ==
  ASSUME job \in JobType, FileFollows, ModuleInv, Running("to_tir"),
         NEW i, i = Min(Work), Work # {}, CastIsWrong(body[i])
  PROVE  KernelLevel /\ ~RanksAreKnown({"other"})
<1>1. job.emit \in {"tir", "hxb"}
  BY PassPlace DEF ModuleInv
<1>2. ~Linalged /\ KernelLevel
  BY <1>1, Flags DEF Heterogeneous
<1>3. Loaded /\ WellFormedGraph(Graph)
  BY PassRuns DEF ModuleInv, PassesFollow
<1>4. body \in Seq(OpType)
  BY DEF ModuleInv, OpsFollow
<1>5. i \in Work /\ i \in DOMAIN body /\ \A j \in Work : i <= j
  BY <1>4, FirstOfWork DEF Work
<1>6. PICK o : o = body[i]
  OBVIOUS
<1>7. PICK v : v = o.of
  OBVIOUS
<1>8. v \in Positions(Graph) /\ AsRead(o) /\ Input(o) = OpAt(Graph, v)
  BY <1>2, <1>5, <1>6, <1>7, StillRead DEF Input
<1>9. o.args = [a \in DOMAIN OpAt(Graph, v).args |-> <<v[1], OpAt(Graph, v).args[a]>>]
  BY <1>7, <1>8, ReadFields
<1>10. PICK a \in DOMAIN OpAt(Graph, v).args : ~OpAt(Graph, <<v[1], OpAt(Graph, v).args[a]>>).regular
  BY <1>6, <1>9 DEF CastIsWrong
<1>11. PICK w : w = <<v[1], OpAt(Graph, v).args[a]>>
  OBVIOUS
<1>12. w \in Positions(Graph) /\ Before(w, v) /\ ~OpAt(Graph, w).regular
  <2>1. w \in Positions(Graph) /\ OpAt(Graph, v).args[a] < v[2]
    BY <1>3, <1>8, <1>10, <1>11, OperandsAreEarlier
  <2>2. w[1] = v[1] /\ w[2] < v[2]
    BY <1>11, <2>1
  <2>3. QED
    BY <1>10, <1>11, <2>1, <2>2 DEF Before
<1>13. OpAt(Graph, w).op \notin {"print", "return", "constant", "fill"}
  <2>1. /\ Graph[v[1]].body[OpAt(Graph, v).args[a]].op \notin {"print", "return"}
        /\ OpAt(Graph, w).op \in {"constant", "fill"} => OpAt(Graph, w).regular
    BY <1>3, <1>8, <1>10, <1>12 DEF WellFormedGraph
  <2>2. OpAt(Graph, w) = Graph[v[1]].body[OpAt(Graph, v).args[a]]
    BY <1>11 DEF OpAt
  <2>3. QED
    BY <1>12, <2>1, <2>2
<1>14. OpAt(Graph, w).op \notin ComputeOps
  <2> SUFFICES ASSUME OpAt(Graph, w).op \in ComputeOps PROVE FALSE
    OBVIOUS
  <2>1. PICK j \in DOMAIN body : body[j].of = w
    BY <1>2, <1>3, <1>12 DEF ModuleInv, OpsFollow
  <2>2. AsRead(body[j]) /\ body[j].op \in ComputeOps
    BY <1>2, <2>1, StillRead
  <2>3. body[j].form \in {"hexir", "call"}
    BY <2>2, ReadFields
  <2>4. body[j].form # "call"
    <3>1. body[j].form = "call" => Input(body[j]).regular
      BY <2>1 DEF ModuleInv, KernelsFollow, Calls
    <3>2. Input(body[j]) = OpAt(Graph, w)
      BY <2>1 DEF Input
    <3>3. QED
      BY <1>12, <3>1, <3>2
  <2>5. j \in Work
    BY <2>1, <2>2, <2>3, <2>4 DEF Work
  <2>6. i \in Nat /\ j \in Nat /\ i <= j
    BY <1>4, <1>5, <2>1, <2>5
  <2>7. i # j => Before(v, w)
    <3>1. i # j => i < j
      BY <2>6
    <3>2. i < j => Before(body[i].of, body[j].of)
      BY <1>2, <1>5, <2>1 DEF ModuleInv, OpsFollow
    <3>3. QED
      BY <1>6, <1>7, <2>1, <3>1, <3>2
  <2>8. ~Before(w, w) /\ ~(Before(v, w) /\ Before(w, v))
    <3>1. v[1] \in Nat /\ v[2] \in Nat /\ w[1] \in Nat /\ w[2] \in Nat
      BY <1>8, <1>12, PositionTyped
    <3>2. QED
      BY <3>1 DEF Before
  <2>9. QED
    BY <1>6, <1>7, <1>12, <2>1, <2>7, <2>8
<1>15. OpAt(Graph, w).op = "other"
  <2>1. OpAt(Graph, w) \in GraphOpType
    BY <1>12, PositionTyped
  <2>2. QED
    BY <1>13, <1>14, <2>1 DEF GraphOpType
<1>16. QED
  BY <1>2, <1>12, <1>15 DEF RanksAreKnown

(* Each op has been made of one of the input. *)
LEMMA OfTheInput ==
  ASSUME ModuleInv, NEW i \in DOMAIN body
  PROVE  body[i].of \in Positions(Graph)
<1>1. body \in Seq(OpType)
  BY DEF ModuleInv, OpsFollow
<1>2. PICK o \in OpType : o = body[i]
  BY <1>1
<1>3. o.of \in Positions(Graph)
  BY DEF OpType
<1>4. QED
  BY <1>2, <1>3

(* CudaToGpu refuses a fill of the input only. *)
LEMMA LaunchFails ==
  ASSUME job \in JobType, FileFollows, ModuleInv, Running("cuda_to_gpu"),
         NEW i \in DOMAIN body, CudaOp(body[i]), ~Launchable(body[i])
  PROVE  job.input # "built" /\ ~KernelLevel
<1>1. job.emit \in {"gpu"} \cup LLVMStages /\ Ran = 5
  BY PassPlace DEF ModuleInv
<1>2. Linalged /\ ~KernelLevel
  BY <1>1, Flags DEF Heterogeneous, LLVMStages
<1>3. PICK o : o = body[i]
  OBVIOUS
<1>4. AsLowered(o) /\ o.of \in Positions(Graph)
  BY <1>2, <1>3, OfTheInput DEF ModuleInv, OpsFollow
<1>5. o.form = "linalg" /\ o.device = "cuda" /\ o.op \notin {"matmul", "add", "relu"}
  BY <1>3 DEF CudaOp, Launchable
<1>6. ~AsDestination(o)
  BY <1>5 DEF AsDestination
<1>7. ~(Input(o).op \in ComputeOps /\ AsKernel(o))
  BY <1>5 DEF AsKernel, KernelOf, ComputeOps
<1>8. Input(o).op = "fill"
  BY <1>4, <1>5, <1>6, <1>7 DEF AsLowered
<1>9. job.input # "built"
  BY <1>4, <1>8, BuiltPositions DEF Input
<1>10. QED
  BY <1>2, <1>9

(* There is a kernel to compile, so an op is on cuda: the linear of the program that
   is built in. *)
LEMMA BinaryFails ==
  ASSUME job \in JobType, FileFollows, ModuleInv, Running("to_binary"),
         NEW i \in DOMAIN body, body[i].form = "kernel"
  PROVE  (job.input = "built" => BuiltFails) /\ ~KernelLevel
<1>1. job.emit \in LLVMStages
  BY PassPlace DEF ModuleInv
<1>2. ~KernelLevel
  BY <1>1, Flags DEF LLVMStages
<1>3. AtLeast(job.emit, "llvm_dialect")
  BY <1>1, StageOf, Reaches DEF LLVMStages
<1>4. PICK o : o = body[i]
  OBVIOUS
<1>5. DeviceFollows(o) /\ OnGpu(o) /\ o.of \in Positions(Graph)
  BY <1>4, OfTheInput DEF ModuleInv, DevicesFollow, OnGpu
<1>6. Computes(o) /\ Placement(Options, Input(o)) = "cuda"
  BY <1>5 DEF DeviceFollows
<1>7. ASSUME job.input = "built" PROVE Input(o) = OpAt(Graph, <<1, 4>>)
  BY <1>5, <1>6, <1>7, BuiltPositions DEF Computes, Input
<1>8. QED
  BY <1>2, <1>3, <1>6, <1>7 DEF BuiltFails

(* Every pass that fails fails for one of the reasons above. *)
LEMMA PassStatus ==
  ASSUME job \in JobType, FileFollows, ModuleInv, Status,
         ShapeInference \/ Partition \/ LowerOne \/ LoweringDone \/ LinalgNext
  PROVE  Status'
<1>0. UNCHANGED job /\ (UNCHANGED exit \/ exit' \in {"pass_failed", "undefined"})
  BY PassesPass DEF Passing
<1>1. ASSUME UNCHANGED exit PROVE Status'
  BY <1>0, <1>1, StatusSays DEF Status
<1>2. ASSUME exit' = "pass_failed", job.input = "built" => BuiltFails, KernelLevel => KernelsFail PROVE Status'
  BY <1>0, <1>2, StatusSays
<1>3. ASSUME exit' = "undefined", KernelLevel, ~RanksAreKnown({"other"}) PROVE Status'
  BY <1>0, <1>3, StatusSays
<1>4. ASSUME Fail PROVE exit' = "pass_failed"
  BY <1>4 DEF Fail, Exit
<1>5. CASE ShapeInference
  <2>1. /\ Running("shape_inference")
        /\ \/ Becomes(body)
           \/ Fail /\ \E i \in DOMAIN body : Graph[body[i].of[1]].kind = "hexir.func" /\ Unranked(body[i])
    BY <1>5 DEF ShapeInference
  <2>2. QED
    BY <1>1, <1>2, <1>4, <2>1, ShapesFail DEF Becomes
<1>6. CASE Partition \/ Bufferize \/ ToLoops \/ Outline \/ ToLLVM
  BY <1>1, <1>6 DEF Partition, Bufferize, ToLoops, Outline, ToLLVM, Becomes
<1>7. CASE LowerOne
  <2>1. PICK i : i = Min(Work)
    OBVIOUS
  <2>2. PICK o : o = body[i]
    OBVIOUS
  <2>3. Running("to_tir") /\ Work # {}
    BY <1>7 DEF LowerOne
  <2>4. \/ Fail /\ ~Input(o).regular
        \/ Exit("undefined") /\ CastIsWrong(o)
        \/ UNCHANGED exit
    BY <1>7, <2>1, <2>2 DEF LowerOne
  <2>5. i \in Work
    BY <2>1, <2>3, FirstOfWork DEF ModuleInv, OpsFollow
  <2>6. CASE Fail /\ ~Input(o).regular
    BY <1>2, <1>4, <2>2, <2>3, <2>5, <2>6, LoweringFails
  <2>7. CASE Exit("undefined") /\ CastIsWrong(o)
    BY <1>3, <2>1, <2>2, <2>3, <2>7, CastsGoWrong DEF Exit
  <2>8. QED
    BY <1>1, <2>4, <2>6, <2>7
<1>8. CASE LoweringDone
  <2>1. /\ Running("to_tir")
        /\ \/ Becomes(body)
           \/ Fail /\ \E f \in DOMAIN Graph : Graph[f].name \in GeneratedNames
    BY <1>8 DEF LoweringDone
  <2>2. QED
    BY <1>1, <1>2, <1>4, <2>1, NamesFail DEF Becomes
<1>9. CASE ToLinalg
  <2>1. Running("to_linalg") /\ (UNCHANGED exit \/ (Fail /\ ~Convertible))
    BY <1>9 DEF ToLinalg, Becomes
  <2>2. job.emit \notin {"tir", "hxb"}
    BY <2>1, PassPlace DEF ModuleInv, Heterogeneous
  <2>3. ~KernelLevel
    BY <2>2 DEF KernelLevel
  <2>4. QED
    BY <1>1, <1>2, <1>4, <2>1, <2>3, BuiltConverts
<1>10. CASE CudaToGpu
  <2>1. /\ Running("cuda_to_gpu")
        /\ UNCHANGED exit \/ (Fail /\ \E i \in DOMAIN body : CudaOp(body[i]) /\ ~Launchable(body[i]))
    BY <1>10 DEF CudaToGpu, Becomes
  <2>2. QED
    BY <1>1, <1>2, <1>4, <2>1, LaunchFails
<1>11. CASE ToBinary
  <2>1. /\ Running("to_binary")
        /\ UNCHANGED exit \/ (Fail /\ \E i \in DOMAIN body : body[i].form = "kernel")
    BY <1>11 DEF ToBinary, Becomes
  <2>2. QED
    BY <1>1, <1>2, <1>4, <2>1, BinaryFails
<1>12. QED
  BY <1>5, <1>6, <1>7, <1>8, <1>9, <1>10, <1>11 DEF LinalgNext

(* What is written over the output file is the module stated for the input, which
   can be serialized then. *)
LEMMA SerializeStatus ==
  ASSUME DriverInv, ModuleInv, Status, Serialize
  PROVE  Status'
<1>1. job.emit = "hxb" /\ UNCHANGED job /\ pc = "serialize" /\ job \in JobType
  BY DEF DriverInv, FileFollows, Serialize
<1>2. AtEnd
  BY <1>1 DEF AtEnd, Finished, KernelLevel
<1>3. Compiled = Lowered(Graph, Options)
  BY <1>2, EndModule
<1>4. \/ exit' \in {"failed", "aborted"}
      \/ exit' = "ok" /\ Serializable(Lowered(Graph, Options))
  <2>1. PICK source : /\ source = Compiled
                      /\ \/ Exit("failed") \/ Exit("aborted")
                         \/ Serializable(source) /\ Exit("ok")
    BY DEF Serialize
  <2>2. QED
    BY <1>3, <2>1 DEF Exit
<1>5. QED
  BY <1>1, <1>4, StatusSays

(* What main does around the passes ends it with a status that says nothing of the
   input, but that it is a file that could not be loaded. *)
LEMMA AroundStatus ==
  ASSUME DriverInv, Status,
         CheckEmit \/ ApplyTarget \/ TargetsApplied \/ ApplyPlacement \/ PlacementsApplied
           \/ Load \/ PassesDone \/ Open \/ Emit \/ UNCHANGED vars
  PROVE  Status'
<1>1. UNCHANGED job
  BY DEF CheckEmit, ApplyTarget, TargetsApplied, ApplyPlacement, PlacementsApplied, Load, PassesDone,
         Open, Emit, vars
<1>2. \/ UNCHANGED exit
      \/ exit' \in {"usage", "failed", "translation_failed"}
      \/ exit' = "load_failed" /\ job.input = "file"
      \/ exit' = "ok" /\ job.emit # "hxb"
  BY DEF CheckEmit, ApplyTarget, TargetsApplied, ApplyPlacement, PlacementsApplied, Load, PassesDone,
         Open, Emit, vars, Exit, Goto, DriverInv, FileFollows
<1>3. QED
  BY <1>1, <1>2, StatusSays DEF Status

(* The rest of what an exit status says follows from where the passes have got to. *)
LEMMA EndStatus ==
  ASSUME Inv, Status
  PROVE  ExitCodes
<1>1. job \in JobType /\ UsageOnly /\ PassesFollow /\ ModuleInv
  BY DEF Inv, DriverInv, ModuleInv, TypeOK
<1>2. exit \in {"ok", "failed", "pass_failed", "aborted", "undefined"} => WellFormedGraph(Graph)
  BY <1>1 DEF PassesFollow, Loaded
<1>3. ASSUME exit \in {"ok", "failed", "aborted"}, KernelLevel
      PROVE  NamesAreFree /\ RanksAreKnown(ComputeOps)
  <2>1. AtEnd
    BY <1>1, <1>3 DEF AtEnd, Finished
  <2>2. ASSUME NEW v \in Compute(Graph), NEW f \in DOMAIN Graph
        PROVE  Graph[f].name # Mangled(OpAt(Graph, v).op, PrimIndex(Graph, v) - 1)
    <3>1. PICK i \in Calls : body[i].of = v /\ i \in DOMAIN body /\ body[i].callee = PrimIndex(Graph, v)
      BY <2>1, EndCall
    <3>2. body[i].op = OpAt(Graph, v).op
      BY <2>1, <3>1, CallsAreComputes
    <3>3. Mangled(body[i].op, body[i].callee - 1) \in GeneratedNames
      BY <3>1 DEF GeneratedNames, Calls
    <3>4. Graph[f].name \notin GeneratedNames
      BY <2>1, EndFacts
    <3>5. QED
      BY <3>1, <3>2, <3>3, <3>4
  <2>3. ASSUME NEW v \in Positions(Graph), OpAt(Graph, v).op \in ComputeOps PROVE OpAt(Graph, v).regular
    <3>1. v \in Compute(Graph)
      BY <2>3 DEF Compute
    <3>2. QED
      BY <2>1, <3>1, EndCall
  <2>4. QED
    BY <2>2, <2>3 DEF NamesAreFree, RanksAreKnown
<1>4. QED
  BY <1>1, <1>2, <1>3 DEF ExitCodes, Status, BuiltFails, KernelsFail

(* The exit status says of the command line and the input what it should, whatever
   the order in which main and the passes look at them. *)
THEOREM ExitStatus == Spec => []ExitCodes
<1>1. Init => DriverInv /\ Scalars /\ ModuleInv /\ Status
  BY StartsKnowingNothing, ScalarsStart, ModuleStarts DEF Init, Status
<1>2. DriverInv /\ Scalars /\ ModuleInv /\ Status /\ [Next]_vars => (DriverInv /\ Scalars /\ ModuleInv /\ Status)'
  <2> SUFFICES ASSUME DriverInv, Scalars, ModuleInv, Status, [Next]_vars PROVE Status'
    BY StepKeeps, ScalarsKept, ModuleStep
  <2>1. job \in JobType /\ FileFollows
    BY DEF DriverInv
  <2>2. QED
    BY <2>1, PassStatus, SerializeStatus, AroundStatus DEF Next, DriverNext, KernelNext
<1>3. DriverInv /\ Scalars /\ ModuleInv /\ Status => ExitCodes
  BY InvParts, EndStatus
<1>4. QED
  BY <1>1, <1>2, <1>3, PTL DEF Spec
=============================================================================
