---------------------------- MODULE CommandList ----------------------------
(***************************************************************************)
(* What a host program means, as docs/runtime.md and program.h give it: a  *)
(* flat list of commands over slots, each done before the next one starts, *)
(* on no particular device.  The run may be abandoned with an error at any *)
(* point.  There are no buffers, no driver and no concurrency here;        *)
(* Interpreter is shown to implement this.                                 *)
(***************************************************************************)
EXTENDS Program

VARIABLES
  call,     (* what is run                                                 *)
  phase,    (* ready, running, returned or failed                          *)
  at,       (* the next command                                            *)
  mem,      (* what each slot holds                                        *)
  latest,   (* the destination of the last dispatch, + 1; 0 before any     *)
  log,      (* what was printed                                            *)
  result    (* what out_result received                                    *)

vars == <<call, phase, at, mem, latest, log, result>>

Unbound == [s \in Slots |-> None]
Ops     == CommandAt(call, at).ops
Doing(kind) ==
  phase = "running" /\ InProgram(call, at) /\ CommandAt(call, at).kind = kind
Step    == at' = at + 1 /\ UNCHANGED <<call, phase, result>>

Init ==
  /\ call \in Calls
  /\ phase = "ready" /\ at = 0
  /\ mem = Unbound /\ latest = 0
  /\ log = <<>> /\ result = None

Begin ==
  /\ phase = "ready" /\ SymbolIndices(call) # {}
  /\ phase' = "running" /\ at' = EntryOffset(call)
  /\ UNCHANGED <<call, mem, latest, log, result>>

Alloc ==
  /\ Doing("ALLOC") /\ Len(Ops) = 2 /\ Ops[1] \in Slots
  /\ \E v \in FreshValues(call, Ops[2]) : mem' = [mem EXCEPT ![Ops[1]] = v]
  /\ Step /\ UNCHANGED <<latest, log>>

(* A slice that lies inside RODATA. *)
Const ==
  /\ Doing("CONST") /\ Len(Ops) = 3 /\ Ops[1] \in Slots
  /\ Ops[2] + Ops[3] <= Sections(call.module).rodata
  /\ mem' = [mem EXCEPT ![Ops[1]] = Literal(call.module, Ops[2], Ops[3])]
  /\ Step /\ UNCHANGED <<latest, log>>

(* A kernel runs only on the device it was compiled for, on bound slots. *)
Dispatch ==
  /\ Doing("DISPATCH") /\ WellFormedDispatch(call, Ops)
  /\ LET exe == ExeOf(call, Ops)
     IN /\ exe.device = call.device
        /\ exe.kind \in KernelKinds /\ Len(Ops) = 2 + Arity(exe.kind)
  /\ \A i \in 3 .. Len(Ops) : Ops[i] \in Slots /\ mem[Ops[i]] # None
  /\ LET inputs == InputsOf(Ops)
         values == [i \in DOMAIN inputs |-> mem[inputs[i]]]
     IN \E v \in ResultValues(ExeOf(call, Ops).kind, Ops, values) :
          mem' = [mem EXCEPT ![DstOf(Ops)] = v]
  /\ latest' = DstOf(Ops) + 1
  /\ Step /\ UNCHANGED log

PrintSlot ==
  /\ Doing("PRINT") /\ Len(Ops) = 3 /\ Ops[1] \in Slots /\ mem[Ops[1]] # None
  /\ log' = Append(log, [slot |-> Ops[1], size |-> Ops[2] * Ops[3], value |-> mem[Ops[1]]])
  /\ Step /\ UNCHANGED <<mem, latest>>

End ==
  /\ Doing("END")
  /\ phase' = "returned" /\ mem' = Unbound
  /\ result' = IF call.out > 0 /\ latest > 0 THEN mem[latest - 1] ELSE None
  /\ UNCHANGED <<call, at, latest, log>>

Abort ==
  /\ phase \in {"ready", "running"}
  /\ phase' = "failed" /\ mem' = Unbound
  /\ UNCHANGED <<call, at, latest, log, result>>

Next == Begin \/ Alloc \/ Const \/ Dispatch \/ PrintSlot \/ End \/ Abort

Spec == Init /\ [][Next]_vars
=============================================================================
