------------------------------ MODULE HexirRun ------------------------------
(***************************************************************************)
(* hexir-run (runtime/tools/hexir-run/hexir-run.c), from its arguments to  *)
(* its exit status.  ModuleFile models the loading of the file and         *)
(* Interpreter the execution; here each of them is one step with any of    *)
(* the results it can have.                                                *)
(***************************************************************************)
EXTENDS Device, CommandLine

CONSTANTS
  Commands,    (* the command lines: sequences of arguments                *)
  None         (* no file named                                            *)

(* An argument is an option with its value or a path. *)
ArgumentType ==
  [option : {"quiet", "selftest", "entry", "device", "unknown", "path"}, value : STRING]
ASSUME CommandsAssumption == Commands \subseteq Seq(ArgumentType)

VARIABLES
  argv,        (* never changes                                            *)
  stage,       (* where main is                                            *)
  i,           (* the next argument                                        *)
  request,     (* the locals path, entry, kind, want_selftest              *)
  module,      (* a module is mapped                                       *)
  result,      (* status of the load or the execution                      *)
  ran,         (* history: what was executed, or selftest                  *)
  exit         (* the exit status, or None                                 *)

vars == <<argv, stage, i, request, module, result, ran, exit, deviceVars>>
locals == <<argv, i, request>>

Exit(code) == stage' = "exited" /\ exit' = code

-----------------------------------------------------------------------------
(* The command line.                                                         *)

Usage == Exit(2)

BadArgument(a) ==
  a.option = "unknown" \/ (a.option = "device" /\ a.value \notin {"cpu", "cuda"})

(* Mutant: the first path is kept. *)
ReadFirstPath(a) ==
  CASE a.option = "selftest" -> [request EXCEPT !.selftest = TRUE]
    [] a.option = "entry"    -> [request EXCEPT !.entry = a.value]
    [] a.option = "device"   -> [request EXCEPT !.kind = a.value]
    [] a.option = "path" /\ request.path = None -> [request EXCEPT !.path = a.value]
    [] OTHER                 -> request

(* What one argument sets; quiet changes nothing but what is shown. *)
Read(a) ==
  CASE a.option = "selftest" -> [request EXCEPT !.selftest = TRUE]
    [] a.option = "entry"    -> [request EXCEPT !.entry = a.value]
    [] a.option = "device"   -> [request EXCEPT !.kind = a.value]
    [] a.option = "path"     -> [request EXCEPT !.path = a.value]
    [] OTHER                 -> request

Parse ==
  /\ stage = "parse" /\ i \in DOMAIN argv
  /\ \/ BadArgument(argv[i]) /\ Usage /\ UNCHANGED <<i, request>>
     \/ /\ ~BadArgument(argv[i])
        /\ request' = Read(argv[i])
        /\ i' = i + 1
        /\ UNCHANGED <<stage, exit>>
  /\ UNCHANGED <<argv, module, result, ran, deviceVars>>

Parsed ==
  /\ stage = "parse" /\ i > Len(argv)
  /\ \/ request.selftest /\ stage' = "create" /\ UNCHANGED exit
     \/ ~request.selftest /\ request.path = None /\ Usage
     \/ ~request.selftest /\ request.path # None /\ stage' = "load" /\ UNCHANGED exit
  /\ UNCHANGED <<locals, module, result, ran, deviceVars>>

-----------------------------------------------------------------------------
(* main.                                                                     *)

LoadModule ==
  /\ stage = "load"
  /\ \/ /\ module' = TRUE /\ result' = "OK"
        /\ stage' = "create" /\ UNCHANGED exit
     \/ /\ result' \in {"IO", "INVALID_MODULE", "OUT_OF_MEMORY"}
        /\ Exit(1) /\ UNCHANGED module
  /\ UNCHANGED <<locals, ran, deviceVars>>

Create ==
  /\ stage = "create"
  /\ BeginCreate(request.kind)
  /\ stage' = "creating"
  /\ UNCHANGED <<locals, module, result, ran, exit>>

StepCreate == Creating /\ UNCHANGED <<locals, stage, module, result, ran, exit>>

(* Mutant: the module stays mapped when there is no device. *)
DeviceRefusedKeeps ==
  /\ stage = "creating" /\ creating = "idle" /\ status # "OK"
  /\ Exit(1)
  /\ UNCHANGED <<locals, module, result, ran, deviceVars>>

DeviceRefused ==
  /\ stage = "creating" /\ creating = "idle" /\ status # "OK"
  /\ module' = FALSE
  /\ Exit(1)
  /\ UNCHANGED <<locals, result, ran, deviceVars>>

(* hexir_execute, which leaves no buffer behind. *)
Execute ==
  /\ stage = "creating" /\ creating = "idle" /\ status = "OK" /\ ~request.selftest
  /\ result' \in {"OK", "INVALID_MODULE", "NOT_FOUND", "OUT_OF_MEMORY", "DEVICE", "UNIMPLEMENTED"}
  /\ ran' = <<request.path, request.entry, request.kind>>
  /\ stage' = "release"
  /\ UNCHANGED <<locals, module, exit, deviceVars>>

(* Mutant: the status of the execution is not returned. *)
FinishAnyway ==
  /\ stage = "release" /\ ~request.selftest
  /\ ReleaseDevice
  /\ module' = FALSE
  /\ Exit(0)
  /\ UNCHANGED <<locals, result, ran>>

Finish ==
  /\ stage = "release" /\ ~request.selftest
  /\ ReleaseDevice
  /\ module' = FALSE
  /\ Exit(IF result = "OK" THEN 0 ELSE 1)
  /\ UNCHANGED <<locals, result, ran>>

-----------------------------------------------------------------------------
(* selftest: each step only when the one before it succeeded.                *)

SelftestAllocate ==
  /\ stage = "creating" /\ creating = "idle" /\ status = "OK" /\ request.selftest
  /\ Allocate("buffer")
  /\ stage' = "write"
  /\ UNCHANGED <<locals, module, result, ran, exit>>

SelftestStep(from, to) ==
  /\ stage = from
  /\ \/ status = "OK" /\ Transfer(request.kind) /\ stage' = to
     \/ status # "OK" /\ stage' = "unwind" /\ UNCHANGED deviceVars
  /\ UNCHANGED <<locals, module, result, ran, exit>>

SelftestTransfer ==
  SelftestStep("write", "wait") \/ SelftestStep("wait", "read") \/ SelftestStep("read", "compare")

(* What comes back is what was written unless the device is broken. *)
Compare ==
  /\ stage = "compare"
  /\ \/ status = "OK" /\ result' \in {"OK", "MISMATCH"} /\ ran' = <<"selftest", request.kind>>
     \/ status # "OK" /\ UNCHANGED <<result, ran>>
  /\ stage' = "unwind"
  /\ UNCHANGED <<locals, module, exit, deviceVars>>

(* Mutant: the device first. *)
UnwindDevice ==
  /\ stage = "unwind" /\ device # {}
  /\ ReleaseDevice
  /\ UNCHANGED <<locals, stage, module, result, ran, exit>>

(* The buffer, then the device. *)
UnwindBuffer ==
  /\ stage = "unwind" /\ buffers # {}
  /\ ReleaseBuffers({"buffer"})
  /\ UNCHANGED <<locals, stage, module, result, ran, exit>>

UnwindEnd ==
  /\ stage = "unwind" /\ buffers = {}
  /\ ReleaseDevice
  /\ Exit(IF result = "OK" THEN 0 ELSE 1)
  /\ UNCHANGED <<locals, module, result, ran>>

-----------------------------------------------------------------------------
Init ==
  /\ argv \in Commands /\ i = 1 /\ stage = "parse"
  /\ request = [path |-> None, entry |-> "main", kind |-> "cpu", selftest |-> FALSE]
  /\ module = FALSE /\ result = "unknown" /\ ran = <<>> /\ exit = None
  /\ DeviceInit

Next ==
  \/ Parse \/ Parsed \/ LoadModule \/ Create \/ StepCreate \/ DeviceRefused
  \/ Execute \/ Finish
  \/ SelftestAllocate \/ SelftestTransfer \/ Compare \/ UnwindBuffer \/ UnwindEnd

Spec == Init /\ [][Next]_vars
-----------------------------------------------------------------------------
(* Properties.                                                               *)

Results == {"unknown", "OK", "MISMATCH", "IO", "INVALID_MODULE", "NOT_FOUND",
            "OUT_OF_MEMORY", "DEVICE", "UNIMPLEMENTED"}

TypeOK ==
  /\ stage \in {"parse", "load", "create", "creating", "release", "write", "wait", "read",
               "compare", "unwind", "exited"}
  /\ argv \in Seq(ArgumentType) /\ i \in 1 .. Len(argv) + 1
  /\ request.kind \in {"cpu", "cuda"} /\ request.selftest \in BOOLEAN
  /\ module \in BOOLEAN /\ result \in Results
  /\ exit \in {None, 0, 1, 2}
  /\ DeviceTypeOK({"buffer"})

(* Whatever failed, the process gives back what it took before it exits. *)
NothingLeaks == stage = "exited" => ~module /\ device = {} /\ buffers = {}

(* What the first n arguments ask for; what the whole line asks for. *)
Reading(n) ==
  [path     |-> LastGiven(argv, "path", n, None),
   entry    |-> LastGiven(argv, "entry", n, "main"),
   kind     |-> LastGiven(argv, "device", n, "cpu"),
   selftest |-> Given(argv, "selftest", n) # {}]
Task(r) == IF r.selftest THEN <<"selftest", r.kind>> ELSE <<r.path, r.entry, r.kind>>
Asked == Task(Reading(Len(argv)))
Malformed ==
  \/ \E a \in DOMAIN argv : BadArgument(argv[a])
  \/ ~Reading(Len(argv)).selftest /\ Reading(Len(argv)).path = None

(* What runs is what the arguments name, the last of each kind counting. *)
RunsWhatWasAsked == ran # <<>> => ran = Asked

(* docs/reference/cli.md, exit codes: 0 success, 1 load or execution failed, 2
   bad arguments; and bad arguments are found before anything is opened. *)
ExitCodes ==
  stage = "exited" =>
    /\ exit = 2 <=> Malformed
    /\ exit = 0 <=> ran # <<>> /\ result = "OK"
    /\ exit = 2 => library = "unopened"

-----------------------------------------------------------------------------
(* The inductive invariant.                                                  *)

(* The arguments read so far are what the locals hold, and none of them is bad. *)
ReadSoFar ==
  /\ request = Reading(i - 1)
  /\ \A a \in 1 .. i - 1 : ~BadArgument(argv[a])
  /\ stage \notin {"parse", "exited"} =>
       i = Len(argv) + 1 /\ (request.selftest \/ request.path # None)

InSelftest == {"write", "wait", "read", "compare", "unwind"}

(* What exists of the device, the buffer and the mapping where main is. *)
Held ==
  /\ creating # "idle" => stage = "creating" /\ (creating = "cpu" <=> request.kind = "cpu")
  /\ creating \notin {"idle", "open"} => device = {}
  /\ stage \in {"parse", "load", "create"} => device = {} /\ library = "unopened"
  /\ stage = "creating" /\ creating = "idle" => device = IF status = "OK" THEN DeviceOf(request.kind) ELSE {}
  /\ stage \in InSelftest => request.selftest /\ device = DeviceOf(request.kind)
  /\ stage \notin InSelftest => buffers = {}
  /\ stage \in {"load", "release"} => ~request.selftest
  /\ module => ~request.selftest /\ stage \in {"create", "creating", "release"}

(* What has been executed where main is. *)
Progress ==
  /\ ran # <<>> => ran = Task(request) /\ i = Len(argv) + 1 /\ stage \in {"release", "unwind", "exited"}
  /\ stage = "release" => ran # <<>>
  /\ stage = "parse" \/ (request.selftest /\ ran = <<>>) => result = "unknown"

(* A buffer never outlives its device, what is held and what was done are as main
   has them at each point, and the two properties of the end. *)
IInv ==
  /\ TypeOK /\ BuffersHaveADevice
  /\ ReadSoFar /\ Held /\ Progress
  /\ NothingLeaks /\ ExitCodes
=============================================================================
