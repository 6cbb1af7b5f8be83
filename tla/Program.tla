------------------------------ MODULE Program ------------------------------
(***************************************************************************)
(* A call of the runtime on a loaded module, and how the commands of the   *)
(* module name their operands.  Shared by CommandList, which says what a   *)
(* program means, and Interpreter, which replays it.  A buffer holds one   *)
(* member of Values; kernels and rodata slices are the constant operators  *)
(* Kernel and Literal.                                                     *)
(***************************************************************************)
EXTENDS Format

CONSTANTS
  None,             (* NULL                                               *)
  MaxSlots,         (* HEXIR_MAX_SLOTS                                    *)
  Values, Zero,     (* what a buffer can hold; calloc'ed memory           *)
  Kernel(_, _),     (* kind, sequence of input values -> value written    *)
  Literal(_, _, _), (* module, rodata offset, size -> what CONST writes   *)
  Modules,          (* the loaded modules explored, and what the sections *)
  Sections(_),      (* of each hold: a record of SectionsType             *)
  Entries,          (* entry point names the caller asks for              *)
  OutSizes          (* out_size; 0 is hexir_execute, with no out_result   *)

Slots == 0 .. MaxSlots - 1

Calls == [module : Modules, entry : Entries, device : Devices, out : OutSizes]

ASSUME SlotsAssumption  == MaxSlots \in Nat \ {0}
ASSUME ValuesAssumption ==
  /\ Zero \in Values /\ None \notin Values
  /\ \A kind \in KernelKinds, a, b \in Values :
       Kernel(kind, <<a>>) \in Values /\ Kernel(kind, <<a, b>>) \in Values
ASSUME CallsAssumption ==
  /\ OutSizes \subseteq Nat
  /\ \A m \in Modules :
       /\ Sections(m) \in SectionsType
       /\ \A o, s \in 0 .. Sections(m).rodata : Literal(m, o, s) \in Values

-----------------------------------------------------------------------------
(* The command at position at of the module a call replays, and the parts of *)
(* a DISPATCH.                                                               *)

InProgram(c, at) ==
  LET commands == Sections(c.module).commands
  IN at < Len(commands) /\ commands[at + 1] # Truncated
CommandAt(c, at) == Sections(c.module).commands[at + 1]

ExesOf(c) ==
  IF Sections(c.module).exeTable = "fits" THEN Sections(c.module).exes ELSE <<>>

(* index, arg_count, slot...: the operands a DISPATCH must have. *)
WellFormedDispatch(c, ops) ==
  /\ Len(ops) >= 2
  /\ ops[1] < Len(ExesOf(c))
  /\ Len(ops) = 2 + ops[2]
ExeOf(c, ops) == ExesOf(c)[ops[1] + 1]
ArgsOf(ops)   == SubSeq(ops, 3, Len(ops))
InputsOf(ops) == SubSeq(ops, 3, Len(ops) - 1)
DstOf(ops)    == ops[Len(ops)]

Arity(kind) == IF kind = "relu" THEN 2 ELSE 3

(* What a kernel may write, given what its inputs hold.  A matmul into one of
   its own inputs reads elements it already overwrote; the other kernels
   finish with an element before they write it. *)
ResultValues(kind, ops, inputs) ==
  IF kind = "matmul" /\ \E i \in 3 .. Len(ops) - 1 : ops[i] = DstOf(ops)
  THEN Values
  ELSE {Kernel(kind, inputs)}

(* A fresh buffer: calloc on the CPU; cuMemAlloc leaves what it finds. *)
FreshValues(c, size) == IF c.device = "cpu" \/ size = 0 THEN {Zero} ELSE Values

(* The first symbol with the entry's name. *)
SymbolIndices(c) ==
  LET names == Sections(c.module).names
  IN {i \in DOMAIN names : names[i].name = c.entry}
EntryOffset(c) ==
  LET first == CHOOSE i \in SymbolIndices(c) : \A j \in SymbolIndices(c) : i <= j
  IN Sections(c.module).names[first].offset
=============================================================================
