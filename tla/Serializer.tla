----------------------------- MODULE Serializer -----------------------------
(***************************************************************************)
(* compiler/Serialization/ModuleSerializer.cpp: one walk over the kernel-  *)
(* level module that writes the sections of a .hxb.  Executables come      *)
(* first, one entry per prim func, then each function's operations in      *)
(* order.  A step that rejects the module ends the walk, nothing written.  *)
(***************************************************************************)
EXTENDS KernelModule

CONSTANT Sources   (* the modules serialized                              *)

ASSUME SourcesAssumption == \A s \in Sources : s \in SourceType /\ Verified(s)
ASSUME NameAssumption ==
  \A s \in Sources : \A f \in DOMAIN s.funcs : ShortName(s.funcs[f].name) \in STRING

VARIABLES
  source,      (* the module; never changes                                *)
  stage,       (* images, executables, functions, written or rejected      *)
  images,      (* blobs: the prim funcs compiled to device code            *)
  exes,        (* the entries of EXECUTABLES                               *)
  fn, at,      (* the function, and the next operation of its body         *)
  slotOf,      (* the map from values to slots                             *)
  nextSlot,
  rodata,      (* the size of RODATA                                       *)
  program,     (* the commands of PROGRAM                                  *)
  names        (* the entries of SYMBOLS                                   *)

vars == <<source, stage, images, exes, fn, at, slotOf, nextSlot, rodata, program, names>>

-----------------------------------------------------------------------------
Func      == source.funcs[fn]
Operation == Func.body[at]
At(op)    == /\ stage = "functions" /\ fn <= Len(source.funcs)
             /\ at \in DOMAIN Func.body /\ Operation.op = op

Command(kind, ops) == [kind |-> kind, ops |-> ops]
Emit(commands)     == program' = program \o commands

(* Mutants: the counter is not advanced; it is advanced before it is read. *)
AssignSlotAgain(v) ==
  /\ slotOf' = [u \in DOMAIN slotOf \cup {v} |-> IF u = v THEN nextSlot ELSE slotOf[u]]
  /\ UNCHANGED nextSlot
AssignSlotLate(v) ==
  /\ slotOf' = [u \in DOMAIN slotOf \cup {v} |-> IF u = v THEN nextSlot + 1 ELSE slotOf[u]]
  /\ nextSlot' = nextSlot + 1

AssignSlot(v) ==
  /\ slotOf' = [u \in DOMAIN slotOf \cup {v} |-> IF u = v THEN nextSlot ELSE slotOf[u]]
  /\ nextSlot' = nextSlot + 1

Reject == stage' = "rejected" /\ UNCHANGED <<fn, at>>
Advance == at' = at + 1 /\ UNCHANGED <<stage, fn>>
sections == <<exes, rodata, program, names>>
slots    == <<slotOf, nextSlot>>

CudaPrims == {p \in DOMAIN source.prims : source.prims[p].device = "cuda"}

(* Mutants: the attribute is passed through; a case is missing. *)
KernelKindRaw(kernel) == kernel
KernelKindNoAdd(kernel) == IF kernel = "matmul" THEN kernel ELSE "relu"

(* kernelKindFromAttr: anything else is a relu. *)
KernelKind(kernel) == IF kernel \in {"matmul", "add"} THEN kernel ELSE "relu"

Entry(p) ==
  LET prim == source.prims[p]
      kind == KernelKind(prim.kernel)
  IN [kind |-> kind, device |-> IF prim.device = "cuda" THEN "cuda" ELSE "cpu",
      m |-> prim.m % ExtentLimit, n |-> prim.n % ExtentLimit,
      k |-> IF kind = "matmul" THEN prim.k % ExtentLimit ELSE 0,
      image |-> IF p \in images THEN "inside" ELSE "none"]

-----------------------------------------------------------------------------
(* Device code is produced for every cuda kernel or, when a pass fails, for
   none; an object may be missing for one. *)
CompileDeviceImages ==
  /\ stage = "images"
  /\ images' \in SUBSET CudaPrims
  /\ stage' = "executables"
  /\ UNCHANGED <<source, sections, slots, fn, at>>

CollectExecutable ==
  /\ stage = "executables" /\ Len(exes) < Len(source.prims)
  /\ LET prim == source.prims[Len(exes) + 1]
     IN IF prim.kernel = "missing" \/ ~prim.rank2
        THEN stage' = "rejected" /\ UNCHANGED exes
        ELSE exes' = Append(exes, Entry(Len(exes) + 1)) /\ UNCHANGED stage
  /\ UNCHANGED <<source, images, fn, at, rodata, program, names, slots>>

ExecutablesDone ==
  /\ stage = "executables" /\ Len(exes) = Len(source.prims)
  /\ stage' = "functions"
  /\ UNCHANGED <<source, images, fn, at, sections, slots>>

(* Mutant: the offset is taken one command too far. *)
BeginFunctionLate ==
  /\ stage = "functions" /\ fn <= Len(source.funcs) /\ at = 0
  /\ names' = Append(names, [name |-> ShortName(Func.name), offset |-> Len(program) + 1])
  /\ Advance
  /\ UNCHANGED <<source, images, exes, rodata, program, slots>>

BeginFunction ==
  /\ stage = "functions" /\ fn <= Len(source.funcs) /\ at = 0
  /\ names' = Append(names, [name |-> ShortName(Func.name), offset |-> Len(program)])
  /\ Advance
  /\ UNCHANGED <<source, images, exes, rodata, program, slots>>

(* Mutant: a constant without users is not skipped. *)
ConstantUnskipped ==
  /\ At("constant")
  /\ \/ /\ ~Operation.regular
        /\ Reject /\ UNCHANGED <<rodata, program, slots>>
     \/ /\ Operation.regular
        /\ rodata' = rodata + Size(Operation)
        /\ Emit(<<Command("CONST", <<nextSlot, rodata, Size(Operation)>>)>>)
        /\ AssignSlot(<<fn, at>>)
        /\ Advance
  /\ UNCHANGED <<source, images, exes, names>>

(* A constant without users gets no slot.  Elements are 8 bytes, so padTo(8)
   adds nothing. *)
Constant ==
  /\ At("constant")
  /\ \/ ~Used(Func.body, at) /\ Advance /\ UNCHANGED <<rodata, program, slots>>
     \/ /\ Used(Func.body, at) /\ ~Operation.regular
        /\ Reject /\ UNCHANGED <<rodata, program, slots>>
     \/ /\ Used(Func.body, at) /\ Operation.regular
        /\ rodata' = rodata + Size(Operation)
        /\ Emit(<<Command("CONST", <<nextSlot, rodata, Size(Operation)>>)>>)
        /\ AssignSlot(<<fn, at>>)
        /\ Advance
  /\ UNCHANGED <<source, images, exes, names>>

HasSlot(i) == <<fn, i>> \in DOMAIN slotOf
ArgSlots   == [a \in DOMAIN Operation.args |-> slotOf[<<fn, Operation.args[a]>>]]

(* Mutant: the destination is not counted. *)
DispatchOpsShort(callee, args, dst) == <<callee - 1, Len(args)>> \o Append(args, dst)

DispatchOps(callee, args, dst) == <<callee - 1, Len(args) + 1>> \o Append(args, dst)

(* The destination has its slot and its ALLOC before the arguments are
   looked up. *)
CallTIR ==
  /\ At("call_tir")
  /\ LET alloc == Command("ALLOC", <<nextSlot, Size(Operation)>>)
         dispatch == Command("DISPATCH", DispatchOps(Operation.callee, ArgSlots, nextSlot))
     IN IF Operation.callee \notin DOMAIN exes
        THEN Reject /\ UNCHANGED <<program, slots>>
        ELSE /\ AssignSlot(<<fn, at>>)
             /\ \/ /\ \E a \in DOMAIN Operation.args : ~HasSlot(Operation.args[a])
                   /\ Emit(<<alloc>>) /\ Reject
                \/ /\ \A a \in DOMAIN Operation.args : HasSlot(Operation.args[a])
                   /\ Emit(<<alloc, dispatch>>) /\ Advance
  /\ UNCHANGED <<source, images, exes, names, rodata>>

PrintOp ==
  /\ At("print")
  /\ IF HasSlot(Operation.args[1]) /\ Operation.regular
     THEN /\ Emit(<<Command("PRINT", <<slotOf[<<fn, Operation.args[1]>>],
                                       Operation.rows, Operation.cols>>)>>)
          /\ Advance
     ELSE Reject /\ UNCHANGED program
  /\ UNCHANGED <<source, images, exes, names, rodata, slots>>

Return ==
  /\ At("return")
  /\ Advance
  /\ UNCHANGED <<source, images, sections, slots>>

Unsupported ==
  /\ At("unsupported")
  /\ Reject
  /\ UNCHANGED <<source, images, sections, slots>>

EndFunction ==
  /\ stage = "functions" /\ fn <= Len(source.funcs) /\ at = Len(Func.body) + 1
  /\ Emit(<<Command("END", <<>>)>>)
  /\ fn' = fn + 1 /\ at' = 0
  /\ UNCHANGED <<source, stage, images, exes, names, rodata, slots>>

Write ==
  /\ stage = "functions" /\ fn > Len(source.funcs)
  /\ stage' = "written"
  /\ UNCHANGED <<source, images, sections, slots, fn, at>>

Init ==
  /\ source \in Sources
  /\ stage = "images" /\ images = {}
  /\ exes = <<>> /\ fn = 1 /\ at = 0
  /\ slotOf = [v \in {} |-> 0] /\ nextSlot = 0
  /\ rodata = 0 /\ program = <<>> /\ names = <<>>

Next ==
  \/ CompileDeviceImages \/ CollectExecutable \/ ExecutablesDone
  \/ BeginFunction \/ Constant \/ CallTIR \/ PrintOp \/ Return \/ Unsupported
  \/ EndFunction \/ Write

Spec == Init /\ [][Next]_vars

-----------------------------------------------------------------------------
(* Properties.                                                               *)

Stages == {"images", "executables", "functions", "written", "rejected"}

TypeOK ==
  /\ source \in SourceType
  /\ stage \in Stages
  /\ images \subseteq DOMAIN source.prims
  /\ exes \in Seq(ExecutableType) /\ Len(exes) <= Len(source.prims)
  /\ fn \in Nat \ {0} /\ at \in Nat
  /\ DOMAIN slotOf \subseteq Nat \X Nat
  /\ \A v \in DOMAIN slotOf : slotOf[v] \in Nat
  /\ nextSlot \in Nat /\ rodata \in Nat
  /\ program \in Seq(CommandType)
  /\ names \in Seq(SymbolType)

IsBind(command) == command.kind \in {"ALLOC", "CONST"}
Binds(i, slot)  == IsBind(program[i]) /\ program[i].ops[1] = slot
UsesSlot(command, slot) ==
  \/ command.kind = "DISPATCH" /\ \E a \in 3 .. Len(command.ops) : command.ops[a] = slot
  \/ command.kind = "PRINT" /\ command.ops[1] = slot

WellFormed(command) ==
  LET ops == command.ops
  IN /\ command.kind = "ALLOC" => Len(ops) = 2
     /\ command.kind \in {"CONST", "PRINT"} => Len(ops) = 3
     /\ command.kind = "CONST" => ops[2] + ops[3] <= rodata
     /\ command.kind = "DISPATCH" =>
          Len(ops) >= 3 /\ ops[1] < Len(exes) /\ Len(ops) = 2 + ops[2]

(* The runtime's static checks hold of every command written: operand counts,
   the executable exists, the constant lies in RODATA. *)
CommandsWellFormed == \A i \in DOMAIN program : WellFormed(program[i])

(* No slot is bound twice in the whole file: replaying a program never frees a
   buffer that is still to be read or captured. *)
SlotsBoundOnce ==
  \A i, j \in DOMAIN program :
    IsBind(program[i]) /\ IsBind(program[j]) /\ program[i].ops[1] = program[j].ops[1]
      => i = j

(* A slot is bound before it is used, in the same function: each function is
   replayed on its own, with an empty slot table. *)
BoundBeforeUse ==
  \A j \in DOMAIN program : \A slot \in 0 .. nextSlot :
    UsesSlot(program[j], slot) =>
      \E i \in 1 .. j - 1 :
        Binds(i, slot) /\ \A e \in i .. j - 1 : program[e].kind # "END"

(* What makes them inductive: the slots handed out are below the counter, and a
   value of the current function was bound after the last END. *)
BoundHere(slot) ==
  \E i \in DOMAIN program :
    Binds(i, slot) /\ \A e \in i .. Len(program) : program[e].kind # "END"

SlotTable ==
  /\ stage \in {"images", "executables"} => program = <<>>
  /\ \A v \in DOMAIN slotOf : v[1] <= fn /\ slotOf[v] < nextSlot
  /\ \A v \in DOMAIN slotOf : v[1] = fn => BoundHere(slotOf[v])
  /\ \A i \in DOMAIN program : IsBind(program[i]) => program[i].ops[1] < nextSlot

(* The state is of its types, and of a writer that could go on with it. *)
Inv == TypeOK /\ CommandsWellFormed /\ SlotTable
=============================================================================
